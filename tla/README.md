# Immersive-2: verification project

TLA+ models of the program in this repository, checked with TLC, and theorems
about them checked with TLAPS.  Immersive-2 shows a PC's monitors in a VR
headset: a host (C++, `host/`) captures, encodes and sends each selected
monitor; a client (Godot, `client/`) decodes it onto panels and sends mouse and
keyboard back; a bridge (Node, `web/`) does the same for browsers.  Control
messages travel over TCP, video and audio over UDP (or in-band on TCP over a
USB cable).  `PROJECT.json` maps every definition to the lines it models, and
lists for every property a plausible bug (`mutant`) that breaks it.

1. [Inventory](#1-inventory)
2. [Modules](#2-modules)
3. [Runs, bounds, fairness](#3-runs-bounds-fairness)
4. [Proofs](#4-proofs)
5. [Divergences](#5-divergences)
6. [Not modelled, and the plan](#6-not-modelled-and-the-plan)

## 1. Inventory

| Component | State it keeps | Operations | Hard part |
|---|---|---|---|
| Stream ownership and workers (`host/src/main.cpp`) | `active_streams`, `streams_client_id`, `stream_cfg`, `graveyard`, `frame_high_water`, `input_scale`; per worker `stop`, `cfg_changed`, `new_cfg` | select, reconfigure, virtual monitors, disconnect, quit; one thread per stream | operations wait for threads that may be stuck; late threads overlap their replacement |
| Stream worker loop (`main.cpp`) | last frame, keyframe flag and gap, settings in effect, time of the last frame | acquire, retune, pace, encode, send, re-send, restart a capture | a request or a last picture lost between two steps |
| Capture backends (`host/src/capture`) | handles, failures, a frame that waits | start, acquire, loss | monitors that change size or go, hand-over to a fallback |
| Encoders (`host/src/encoder`) | session, parameter sets, forced keyframe, pictures held back | open, encode, retune, re-open | failure and renegotiation in the middle of a stream |
| Portal session (`capture/portal_session.cpp`) | one session for every capture, restore token, throttle, generation | create, notify, open, condemn, ask again | a lock held while a dialog is up; signals read late |
| Virtual displays (`main.cpp`, `driver/`, `x11_capture.cpp`, `mutter_virtual.cpp`) | the manager's screens, `displays`, the X server's or compositor's monitors | create, remove, quit, start after a kill | half-created screens, screens closed from outside |
| Main screen off (`main.cpp`, `main.gd`, the back ends) | `screen_off_client`, the lease; the client's switch; saved ramps and backlight | SCREEN_OFF both ways, renewal, expiry, darken, light | lease, owner and connection end independently; monitors change while dark |
| Input (`main.cpp`, `host/src/input`) | `input_client_id`, `held_mouse`, `held_keys`, `view_only` | mouse, keyboard, takeover, disconnect | checked outside the lock that protects it; what is pressed must be lifted by someone |
| Server sessions (`network/server.cpp`) | `clients_`, threads, PIN failures, `kicked_` | accept, HELLO, PIN, kick, stop | handshakes in parallel with limits, kick and stop |
| Flow control (`server.cpp`) | per client `RateControl`, per monitor `FlowState` | send a frame, FRAME_ACK, once a second decide | numbers that wrap, ACKs that never come, idle screens |
| FEC and reassembly (`server.cpp`, `network_client.gd`) | frames begun, last completed frame | chunk, parity, rebuild, deliver | loss, reordering, duplicates, streams that restart |
| Client session (`main.gd`, `network_client.gd`, `usb_probe.gd`, `host_discovery.gd`) | connection state, address, PIN, selection, panels, decoders | connect, pair, reconnect, cable or Wi-Fi, select | late answers, two ways to the same host, messages that cross |
| Audio, decoders, rendering, web bridge, panel, tray, USB tunnel, test tools | see section 6 | | |

How they interact.  Each client has one handler thread in the server, which
calls the callbacks of `main.cpp` one message at a time and, last of all,
`on_client_disconnected`.  Callbacks that touch streams run whole under
`ops_mutex`; input callbacks only take `input_mutex`.  Workers share with them
the atomics of their `ActiveStream` and the tables keyed by monitor, and call
the server to send.  Captures of a Wayland desktop share one portal session
under `g_mutex`.  The panel calls hooks of `main.cpp` and changes settings that
are read unlocked.  `main()` polls every 100 ms, and at exit stops the server,
the streams and the parked workers in that order.  On the headset everything
runs in Godot's main thread: timers, discovery and the cable's probe answer
between two messages of the host.

What makes them correct, in short: no stream without an owner that is still
connected, no two streams of one monitor, no thread lost; the clients told in
order; frame numbers that grow; the last picture and every asked keyframe sent;
a frame delivered whole, once and in order; nothing left pressed; no dark screen
nobody holds; no virtual screen left behind; nobody pestered by a dialog; never
more clients than allowed; panels that show what the host streams, and a
headset that finds its PC again but stays away when told to.  The hazards
behind each are listed in `PROJECT.json` at their lines.

## 2. Modules

| Module | What it is |
|---|---|
| `HostStreams` | stream ownership and workers |
| `ExclusiveViewing` | what clients are promised about streams: the abstract specification of `HostStreams` |
| `StreamPipeline` | one worker's loop, on top of `Capturing` (X11, WGC, DXGI) and `Encoding` (MJPEG, FFmpeg, Media Foundation) |
| `InputOwner` | who drives the PC: the steps of a change of owner |
| `HostInput`, `ScreenOff` | mouse and keyboard, the main screen's lease: both on top of `InputOwner` |
| `Sessions` | accept, HELLO, PIN, places, kick, stop |
| `RateControl` | adaptive bitrate of one client |
| `VideoDelivery` | frames of one monitor over UDP with parity, or over TCP |
| `FrameFeed` | what a viewer is promised: the abstract specification of `VideoDelivery` |
| `PortalSession` | the shared Wayland screen-cast session |
| `VirtualScreens` | the host's virtual screens and main screen over a desktop: composes `MainScreen` (darkening), `X11Screens` and `MutterScreens`, which share `VirtualDisplayManager` |
| `ClientSession` | the headset: composes `ClientLink` (connection) and `ClientScreens` (what is shown) |
| `*_proofs` | theorems |
| `MC*` | instances for TLC: values of constants that are no literals, symmetry |

### HostStreams and ExclusiveViewing

`op` is what the holder of `ops_mutex` is doing.  A selection, a new codec or
size, a removal, a disconnect and the final stop all begin with `BeginOp`: take
the workers out of `active_streams`, set their `stop`, wait for them
(`retiring`).  `RetireJoin` and `RetireTimeout` are the two ends of `retire()`;
then `NotifyStopped` (STREAM_STOP, then the new owner), `StartStream` per
monitor, `EndOp`.  A worker is a program counter through `stream_worker`:
start_capture, open the encoder, register the scale and choose the first frame
number, STREAM_START, and the loop with its flag exchange (`Acquired`), copy
(`Retune`), send and store.  `shown` is what each client shows once it has read
all messages sent to it; one TCP connection keeps their order, so a message
acts on `shown` when it is sent.  Reading `stop` and `g_running` happens only
where the code does.  Time is left out: a worker can outlast the 5 s of
`retire()` only in a stage of the constant `SlowStages`; each run names the
calls it supposes slow.  `late` is history: workers that were parked in a stage
that leads to a frame, or to a first frame number, without a look at `stop`.

### StreamPipeline, Capturing, Encoding

A turn of the loop is two steps, split where others can be noticed: `Acquire`
(the frame, the exchange of `cfg_changed` and the retune) and the rest
(`NothingToSend`, `Hold`, `EncodeAndSend`, `Recapture`).  `Capturing` has
`start_capture()`, `acquire_frame()` and `is_capturing()` of three backends and
the callbacks of the desktop.  In `Encoding` the encoder is a record and each
call a set of outcomes, a record of the encoder after it, the result and what
it costs of the bound on faults.  Parameter sets are the number of the session
they belong to; a unit carries its session, its parameter sets and (history)
how many keyframes had been asked for when its picture came in.  A transform's
type may show its parameter sets at once, from some later output on or never, and
a renegotiation to a type that shows none leaves the old ones in place (`stale`,
history); `withheld` marks a unit that came without, with nothing to add.

Assumed of the environment: a Media Foundation transform has `ICodecAPI` and
asks for input when it has room; the first IDR of an FFmpeg session carries its
parameter sets; NVENC behaves as libx264.  The GPU copy of WGC and the loss of
its device are left out.

### InputOwner, HostInput

`InputOwner` keeps the three steps of a change of owner apart
(`SetInputClient`, the release, `OwnerSet`), because input handlers run between
them.  In `HostInput` a message is read and checked in one step (`KeyDown`,
`KeyUp`, `Pointer` with `Accept`) and injected in a later one (`InjectKey`,
`InjectMouse`), as between the check at `main.cpp:1276`/`1301` and `input_mutex`.
The two reads of the check (view-only, then owner) are one step: only its own
handler makes a client the owner, so a client accepted by the two reads would
be accepted at the first one.  `held_*` is the host's record, `down_*` what is
really pressed.  With `SessionBusy` the injector may drop any event, as the
portal's does; the run does without, because with it nothing that is pressed is
sure to be lifted (section 5).  A client sends key-ups only for keys it sent
down, with the same modifiers: that is what the headset's keyboard
(`virtual_keyboard.gd:221`), a Bluetooth keyboard and the bridge do.  `stray`
and `refused` are history: what `DownIsHeldByDriver` excepts, a press that came
too late and a release that view-only refused (section 5).

### ScreenOff, MainScreen

`ScreenOff` is the lease: `toHost` and `toClient` are the SCREEN_OFF messages
under way, `light_screen` is `light_screen_locked()`, taken by a request, a
connection, a disconnect, `main()` and exit.  `main()` looks without the lock
(`Look`) and decides again with it (`Light`).  `expired` stands for the clock
having passed the lease.  Whether the platform can darken its screen is a
choice there; how each back end does it, renews it, undoes it and finds it again
after a kill is `MainScreen`, which runs inside `VirtualScreens`.  GNOME's calls
come one after the other, so its `set_primary_off()` is two steps with the
monitors changing in between.

### Sessions

Each step is a critical section of `clients_mutex_`, `auth_mutex_` or
`threads_mutex_`, or lies between two.  `at[c]` is the program counter of the
handler of connection `c`.  `tries` is history: the wrong PINs an address got
compared, whatever the record says.  The half second a wrong PIN costs, the
5 s of a recv(), keepalive and the end of a lock-out can come at any time.  A
peer that sends a byte now and then, or HELLOs too short to count, starts those
5 s anew (`ShortHello`, `HelloAgain`).

### RateControl, VideoDelivery

`RateControl` is `rate_on_sent()` and FRAME_ACK with time in ticks; the link is
the environment, clean, losing, slow or dead, and `trouble` is history: windows
since it was not clean.  A worker sends a frame a second at least, except while
its `capture` is lost.  `VideoDelivery` cuts the bits of a frame into chunks and
computes the parity; packets sent may be delivered at any time, in any order, any
number of times or never, also against STREAM_START and STREAM_STOP; over TCP
whole frames queue in order and `sent_at` is the ring of send times, indexed by
the number modulo `Slots`, that decides which frames are dropped.  `ShowsTheFeed`
says that this implements `FrameFeed`.

### PortalSession

`live` is the generation of `g_live`, `shared` whether the desktop still runs
it, `signal` whether it said otherwise and nobody read it yet.  Whoever finds no
session creates it (`Create`), holding `g_mutex` through a dialog (`holder`);
`try_session()` with its fallbacks is `attempt`.  Captures that find the lock
taken come back later.  "Ask again" is the panel's look at the session
(`InputDenied`), which may be out of date by the next step, and the three steps of
`ask_again()`: the token is removed, the lock is taken, another thread asks.

### VirtualScreens

Requests run one at a time under `ops_mutex`; only GNOME makes them wait, so only
there other things happen within one.  The history variables say what the desktop
or a failed call is to blame for (`relaid`, `lost`, `killed`).  X11 keeps its
monitors when the host is killed, GNOME's go with the connection.  A CreateSession
that times out may leave a session nobody was told of (`orphans`); the X11
framebuffer is sized by Xlib's copy of its width, as the code does it.

### ClientSession

`ClientLink` is the connection part of `main.gd` with `UsbProbe` and discovery;
`net` is the world.  `ClientScreens` is selection, panels, decoders and virtual
screens with both directions of the control connection, and the host's side
reduced to what `HostStreams` and `VirtualScreens` show it to do for one client.
`wish` is history: what the user last said.  Screens come and go in the list while
the headset is connected (`VirtualScreen`) and while it is away (`OthersChange`), so
the first list of a connection may differ from the last one it knew in any number
of screens, and each later one takes at most one away.  `MaxScreens` is at least two
(`MAX_SCREENS` is three): with a single panel a late STREAM_START would push a
monitor that streams out of the selection.

Assumed: the user leaves the menu alone until the launch's probe ended (1.5 s;
the menu opens by itself after 6 s), and it offers connecting only while
disconnected and screens only while connected; discovery, off while connected,
has forgotten the PC by then (7 s); a keyframe request reaches the host before
the client's throttle ends; what is sent after STREAM_START takes no time except
a stream's first frame; decoders open (but may refuse any frame, `FrameRefused`).

## 3. Runs, bounds, fairness

| Run | Question | Result |
|---|---|---|
| `HostStreams_own` | who owns the streams, which threads exist, what clients show; frame numbers grow until retire() gives up on a worker that may send; `ExclusiveViewing` is implemented | holds |
| `HostStreams_live` | settings reach the running stream; operations end although a capture never returns; quitting ends in exit | holds when only the first start_capture() is slow |
| `StreamPipeline_loop` | a still screen's last picture is sent, every keyframe asked for comes, every keyframe carries its own session's parameter sets if the host was ever shown them | holds |
| `HostInput_release` | nothing stays pressed, everything pressed is on record | holds |
| `ScreenOff_host` | never dark without a holder, never lit without a reason, lit when it must be; the switches come to agree with the screen | holds |
| `Sessions_pairing` | places and guesses are limited, handlers known until joined, stop() returns, places freed by sockets that fall quiet | holds |
| `RateControl_link` | the bitrate backs off, recovers, and is cut for a cause or a lost capture only | holds |
| `VideoDelivery_feed` | `FrameFeed` is implemented, no complete frame waits, a TCP queue opens again | holds |
| `PortalSession_share` | no pestering, no causeless close, no old consent, every capture comes back | holds |
| `VirtualScreens_desktop` | nothing left behind, the screen lit, screens apart and in the list | holds |
| `ClientSession_back` | stays away after Disconnect, panels are the host's streams, comes back to a reachable PC | holds |
| `ClientSession_lost_idr` | a picture that lacks a reference is repaired | violated: section 5 |

Type invariants (`TypeOK`) exist in most modules; where a theorem proves one, no run repeats
it.

Bounds, and why they are enough:

* `HostStreams_own`: two clients, a real and a virtual monitor, two workers, one
  frame each, slow first start_capture and acquire_frame.  A takeover, a
  reselection, a removal and a disconnect all need at most two workers; overlap
  of a parked worker and its replacement needs two of one monitor.  `_live` has
  one client on one monitor and all settings: the client still races its own
  operations against workers, parked ones included, and `main()`.  `Margin` is 2
  for 1000.
* `StreamPipeline_loop`: `Budget` 2 changes or faults from outside at any step,
  so that any two meet; two failed grabs for ten; a transform that holds two
  pictures; one refinement for thirty; two settings that differ in rate and fps.
* `HostInput_release`: two clients, a key, a modifier, a button, so that a tap
  with its modifier and a raw modifier overlap.  `ScreenOff_host`: two clients
  and one message of each under way, in either direction: a renewal still crosses
  a takeover, a disconnect and main()'s look.
* `Sessions_pairing`: three connections of one address, one place and one pending
  socket, so that the third finds the host full and the second finds the place
  taken; two wrong PINs lock out; one change by the panel.  No connection comes
  from loopback; the PIN may be none, which is trusted by the same branch.
* `RateControl_link`: ticks 1, 2, 3, 4 stand for 250 ms, 1 s, 1.5 s and 4 s: only
  their order matters.  Four levels of the bitrate, of which a cut takes two and
  a raise one; a window counts to `Second + MinSample`.
* `VideoDelivery_feed`: payloads of two bits, and frames of one, two and three
  chunks, with short last chunks and, for three chunks, two parity groups; two
  streams; a ring of three send times that frame numbers wrap.
* `PortalSession_share`: two captures, so that one's failures meet the other's
  session; two failures condemn for three; 5 s and 30 s are one and two ticks;
  generations are three names, reused once nobody remembers them.
* `VirtualScreens_desktop`: the three back ends; two CRTCs, two slots, two widths
  and layouts with a server's limit three screens reach; the host starts twice
  and the desktop interferes twice, so that each meets a request and a kill.
* `ClientSession_back`: two addresses and the cable, two real monitors and a
  virtual one for two panels, and two things from outside (user, world, other
  clients, lost frames).  `_lost_idr`: one real monitor and one virtual, two panels.

Clients are interchangeable and symmetric in the runs without liveness, GNOME's
sessions in `VirtualScreens_desktop`.  Deadlock is not checked where the system
may stop: all connections end and `main()` returns, the bound of outside events is
used up and nothing is left to do, or frames run out.

Fairness is what the code's scheduling gives, and no more; users, the panel,
networks and desktops owe nothing.

* Threads are scheduled and calls outside `SlowStages` return: weak fairness of
  workers' steps, of the steps of an operation, of `main()`, of handlers, of the
  worker's loop (stated as `WF_pc(Turns)`: a step of `Loop` is possible until the
  worker is gone and nothing else moves `pc`, so it says the same).  A handler whose socket `server->stop()` has shut down leaves:
  strong, because others may hold `ops_mutex` in between.  `QuitExits` allows a
  worker stuck for good in a slow call: the code then never gets past
  `reap_graveyard()`.
* Clocks go on: timeouts, keepalive, leases, the reconnect timer, the pacing and
  keyframe gaps.  Messages of a live connection are read.  `main()` and handlers
  get `ops_mutex` in turn (strong, `ScreenOff`).
* What recovers does so from an environment that becomes well: `BacksOff` and
  `Recovers` from a link that stays as it is, `CapturesRecover` from a desktop
  that stays well, `ComesBack` from a PC that stays reachable at an address the
  headset knows.  `StillScreenSent` and `IdrAnswered` hold unless the worker is
  gone, the monitor unplugged, or a fallback capture `Frozen` (section 5).

## 4. Proofs

Each theorem is for every value of the constants the module's assumption allows.
A safety property is seldom inductive; each module names the invariant that is,
proves it with one lemma per group of actions, and takes the theorems from it.

* `HostStreams_proofs` (`HostStreamsAssumption`):
  `TypeCorrect`; `StreamsOwned` (a stream in `active_streams` is its monitor's,
  was not asked to stop, and its client is the owner, not yet gone);
  `OneStreamEach` (two workers never stream one monitor unasked); `ThreadsKept`
  (every thread is in `active_streams`, `retiring` or `graveyard` until joined,
  and all are joined when `main()` returns).  `OwnershipInv` says beside types
  that a live worker not asked to stop is in `active_streams` and one asked to
  stop is retiring or parked (`ThreadsInv`); that streams are the owner's
  (`StreamsInv`); what a step of an operation may rely on: nothing streams while
  it changes the owner, its monitors are of a client still there, a monitor to be
  removed has no stream (`OpInv`); and what each stage of the shutdown has
  achieved (`ShutdownInv`): without it a worker could be started after the
  streams were stopped.
  On top of it, `ConfigsApplied` (a worker in its loop encodes with the settings last
  asked for, or the exchange that takes them is still to come); `NumbersGrow` (frame
  numbers of a monitor never go back until `retire()` has given up on a worker in one
  of `Senders`), whatever calls are slow: a new worker finds its predecessors joined, or
  parked where they look at `stop` before they send, as long as `late` is empty; once
  it is not, they do go back (section 5); and
  `ViewRefined`, that each step is a step of `ExclusiveViewing` or a stutter, for
  workers that do not outlast it between opening the encoder and STREAM_START.
* `HostInput_proofs`, `ScreenOff_proofs`: `InputTypeCorrect`;
  `InputIsOwners` (outside a change of owner, input is taken from the streaming
  client only); `AllDownRecorded`, `DownIsHeld` (if injectors do what they are
  told, everything down is on record, and is what the driving client holds);
  `NotDarkAlone`, `LitOnlyForAReason`.  All rest on `OwnersInv`, what each step of
  a change of owner has already done; `OwnersKept` proves it for an
  action of either.  `DownIsHeld` needs besides that a press in flight is one whose key-up
  is still to come (`InFlightInv`) and that the release lifts everything;
  together they are `HeldInv`.  `NotDarkAlone` needs that nobody is left to darken
  the screen once `main()` has returned (`HostInv`).
* `Server_proofs`, about `Sessions` (`SessionsAssumption`): `SessionsTypeCorrect`;
  `PlacesAreRespected` (never more paired clients than `--max-clients`, never more
  connections than `kMaxPending` above), from the checks made in the same critical
  sections as the changes; `GuessesAreBounded`, from `GuessesInv`: what an address
  tried is what the record counts, until a lock-out resets the record and not what
  was tried; `HandlersAreKept`, from `HandlersInv`: the accept loop takes nobody in
  once it was joined, a handler keeps its entry until it erases it, and is among
  the threads until it ended, so reaping and `stop()` miss none.
  About `RateControl` (`RateAssumption`): `RateTypeCorrect`; `CutsHaveCause` (the
  bitrate is cut only for what the link did in this window or the last, or when the
  capture was lost in this one).
  `TroubleInv` says what trouble leaves behind: a link that is not clean has had no
  window to itself; frames lost before are skipped by the next ACK, which comes
  before time goes on (`LossInv`); nobody waited for an ACK longer than for a frame,
  unless it is on its way or the capture was lost, so no other pause passes for a
  stall (`AckInv`); and trouble two
  windows old has left no loss, delay or stall in the window (`WindowInv`).
* `PortalSession_proofs` (`PortalAssumption`): `PortalTypeCorrect`; `NoPestering`,
  from `PeaceInv`: the throttle outlasts the peace, and who creates a session
  waited for both; `ConsentIsAsked`, from `ConsentInv`: once the consent was removed
  with no session being created, neither the file nor an attempt holds a token;
  `NoCauselessClose`, from `StrikesInv`: a capture counts no more failures than it had
  in a row on that very generation.

* `VirtualScreens_proofs`: `ScreensHold`, and from it `NoneLeft` (no
  monitor, no session the host was told of, and no room beyond what the screens need
  while one needs more than the desktop had; what does stay behind is in section 5),
  `Lit` (dark only while held, or after what it
  names), `Apart` and `NoneHidden` (screens do not overlap, and each is in the list
  sent).  `ScreensInv` has five parts: what a request has done so far (`RequestInv`),
  X11's CRTCs, slots and layout (`RandrInv`), GNOME's sessions against the manager's
  (`SessionsInv`), what dark means to each back end (`DarkInv`) and the list against
  the monitors (`ListInv`).  For any finite set of slots and any limits; the names
  of sessions and origins are distinct, and the back ends are the three there are.
* `Video_proofs`, about `StreamPipeline` (`PipelineAssumption`, `CaptureAssumption`):
  `PipelineTypeCorrect`; `KeyframesWhole` (each keyframe carries the parameter sets of
  the session that made it, unless it came without and the transform's type had shown
  the host none).  `HeaderOK` says whose sets an encoder holds: a Media
  Foundation transform's are those of the type in use, none yet, or known to be stale;
  FFmpeg's are
  the session's own from its first picture on, and that picture is a keyframe, which
  has them in band.  It is proved of every outcome of `Encode`, `Reconfigure` and
  `MfInitialize`, then of the loop; a forced retune that fails leaves an encoder
  without it, and ends the worker.
  About `VideoDelivery`: `FeedHolds`, and from it `FeedShown`, that delivery over UDP
  with parity and over TCP implements `FrameFeed`, and `NoneHeldBack`.  `FeedInv` says
  that what the client collected of a frame is chunks and parity of that very frame
  (`EntryOf`), whatever arrived twice, late or against STREAM_START, and that what is
  complete has been delivered (`Settled`).  Three lemmas carry it: `ParityRestores`,
  the exclusive or of a parity group's other chunks and its parity is the missing
  chunk, for payloads of any size; `JoinedFrame`, chunks of which each is right join
  to the frame, by the least one that does not; `PacketSettles`, one packet, with the
  rebuilding it makes possible, leaves nothing complete behind.
* `ClientSession_proofs` (`BudgetAssumption` and those of the two parts):
  `InvariantHolds`; `ClientTypeCorrect`; `StaysAwayAlways` (no try, connection or
  automatic return after Disconnect), from `LinkInv`; `PanelsFollow` (a stopped or
  vanished screen leaves no panel, a shown one is the host's stream), from
  `ScreensInv`.  The hard part are messages that cross: `UnreadInv` says that some
  function gives what the client will know after the first k messages under way,
  from what it knows now to what the host has now (`ListsInv`), that a list takes
  at most one monitor away unless it is a connection's first, and that each START,
  STOP and frame comes where it must between the lists (`OrderInv`).  Beside it
  stand the selection against wishes and panels (`SelectionInv`), what a client that
  is not connected leaves alone (`FrozenInv`), and the host's streams against the
  selections still on their way (`StreamingInv`).

TLC checked each of these inductive invariants on the instance of its run, or on a
smaller one where the run's takes too long, before it was proved, and
`ClientSession`'s also by simulation of a larger one.

Every safety property of a passing run is stated by a theorem.  Only model-checked is
liveness, which is out of the prover's reach with fairness and `ENABLED`.

`RateControl` and `StreamPipeline` name their `RateInit`, `PipelineNext` and so on for
themselves, so that one module of theorems can extend two components.

## 5. Divergences

One run shows a disagreement as a counterexample, `ClientSession_lost_idr`: a loss is
noticed once, and the keyframe request it makes is dropped if another went out 250 ms
before (`main.gd:1446`).  When the IDR that answers the first request is what gets
lost, nobody asks again, and the picture stays corrupt although the comments there say
that it is recovered.

Seven more properties state what a comment promises and are violated in the instance
of a passing run: named in place of the properties of its `.cfg`, TLC finds the
counterexample within seconds.  Beside each stands, in that run, the property that
does hold, with the exception made explicit.

| Stated | In the instance of | What happens | Against | What holds |
|---|---|---|---|---|
| `FrameNumbersGrow` | `HostStreams_own` | a worker parked in `acquire_frame()`, or opening its encoder, before its first frame has left no number in `frame_high_water`; its replacement starts at the same one (`main.cpp:770`), and the late frame of the first comes after it, whatever the margin | comment at `main.cpp:767`, `PROTOCOL.md:233` | `NumbersGrowUnlessLate` |
| `PlacesFreed` | `Sessions_pairing` | a HELLO shorter than its fixed part is ignored (`server.cpp:781`) and each recv() has five seconds of its own, so a socket that goes on sending keeps its pending place | comment at `server.cpp:123`, `PROTOCOL.md:77` | `QuietPlacesFreed` |
| `CutHasCause` | `RateControl_link` | a worker that lost its capture sends nothing for a second or more (`main.cpp:900`); its next frame finds the last ACK too old (`server.cpp:1064`), and the bitrate of a clean link is cut | comment at `server.cpp:1061` | `CutHasCauseOrCapture` |
| `DialogFollows` | `PortalSession_share` | a capture that restores a session while `ask_again()` removes the token (`portal_session.cpp:569`) saves a new one, from which the session that should have asked is restored | comment at `portal_session.h:45` | `AskedAgain` |
| `ShrunkBack` | `VirtualScreens_desktop` | `DisplayWidth` is Xlib's copy and never refreshed (`x11_capture.cpp:480`), so the framebuffer stays as wide as it was with the last virtual screen | comment at `x11_capture.cpp:329` | `NoneLeftBehind`, `GrownAsNeeded` |
| `OneSessionPerScreen` | `VirtualScreens_desktop` | a CreateSession answered after its time-out (`mutter_virtual.cpp:446`) leaves the compositor a session nobody can stop | comment at `mutter_virtual.cpp:3` | `NoneLeftBehind` |
| `ParametersNotStale` | `StreamPipeline_loop` | after a renegotiation to a type that shows no parameter sets yet, the old ones are kept (`mf_encoder.cpp:617`) and go into the next keyframes | comments at `mf_encoder.cpp:758` and 804 | `KeyframesSelfContained` |

Other disagreements met while modelling.  The models behave as the code does;
where a property would be broken by one, it names the exception.

Host:

* `main.cpp:916`: a worker that outlived its replacement registers or erases the
  monitor's mouse scale (against the comment at 456).
* `main.cpp:866`: a worker that can neither retune nor re-open ends without
  STREAM_STOP (`PROTOCOL.md:239`).
* `main.cpp:1246`: a client that does not own the streams changes the owner's
  settings (comment at 1257).
* `main.cpp:1301`: a press checked before and injected after a takeover is pressed
  for a client that lost the PC (`PROTOCOL.md:80`); `main.cpp:1275`: view-only
  refuses releases too; `main.cpp:489`: a portal session busy with a dialog drops
  the release of what is held (`PROTOCOL.md:81`).
* `server.cpp:857`: HELLO_ACK's flags and a new client's monitor list are copied
  before they are sent, so an older one can arrive last (`PROTOCOL.md:149-152`).
* `server.cpp:373`: the slot of a send time is written for frames that are then
  dropped too, so an ACK may read another frame's time (comment at 379).
* `wgc_capture.cpp:416`: a WGC capture that handed over to DXGI answers
  `is_capturing()` for itself: when the fallback loses its monitor the worker
  (`main.cpp:901`) never restarts it (`Frozen`).
* `mutter_virtual.cpp:369`: a host killed while the screen is off leaves the
  panel's backlight at its minimum (`LitUnlessHeld` says "not after a kill").
* `main.cpp:972`: an asynchronous transform may return two access units from one
  `encode()`, which leave under one frame number (`encoder.h`).
* `PROTOCOL.md:31` says a TCP queue of 4 frames; the code drops by age, 150 ms.

Client:

* `main.gd:1196`: with answers and requests crossing, the switch's last word is not
  always what the screen does at once (`ui_overlay.gd:927`); it comes to agree.
* `main.gd:1279`: a STREAM_START that crosses a deselection selects the monitor
  again.  `main.gd:1265`: a monitor list sent to everybody makes every client send
  its selection again, and one of them takes the PC over.
* `main.gd:424-440`: Disconnect leaves `_match` and `_pending_virtual_id`;
  `main.gd:1705`: `_match_step` takes any result, of a removal or a creation, for
  the next one it waits for; `_connect_after_probe` survives a connection the user
  made meanwhile.
* `main.gd:359`: the PC's new address, heard while a try is under way, is never
  followed (comment at 358); `Reachable` asks for the right one.

Observations without a text against them: an X11 capture of an enlarged monitor
keeps its crop; Mutter's `wait_for_node()` drops other screens' Closed signals;
`set_primary_off(false)` ignores the failure of `SetCrtcGamma`; a failed probe in
`refresh_displays()` sends everybody an empty list; the limit of virtual screens is
counted without reading GNOME's signals; a rate window older than a pause still
counts; frames of a new stream that overtake STREAM_START over UDP are shown as the
old stream's; pacing for a CPU encoder outlives a re-open on another backend; a
Media Foundation encoder that fails for good is never re-opened by itself; a host
limited to one headset refuses that headset's own cable probe.

## 6. Not modelled, and the plan

| Part | Why |
|---|---|
| Audio | capture is platform I/O; the jitter buffer is about milliseconds against the sound card's clock |
| Client input, rendering, menus | gestures, geometry and drawing; what they send enters `HostInput` and `ClientScreens` as inputs |
| Client decoders | wrappers over MediaCodec and libavcodec; `ClientScreens` has "awaiting", "good", "broken" |
| Web bridge | a second client over the same protocol, in another language |
| Windows virtual-display driver, macOS, VideoToolbox | driver and platform calls; their effect on streams is in `HostStreams` |
| Settings panel, tray, USB tunnel | HTTP, menus, `adb`; the hooks that change the host are in `HostStreams`, `Sessions`, `HostInput`, `PortalSession` |
| Host test tools, `stb_image_write.h`, build files | tests were read for what they promise; vendored; no behaviour |

Within modelled parts these are left out: the codec fallback, layouts, saved
settings, the relaunch of the app and several PCs in the discovery list
(`ClientSession`), host flags and the monitor
list (`Sessions`), pixels and the codecs themselves (`StreamPipeline`).

Next, theorems: the safety half of `IdrAnswered`, that a keyframe asked for and not yet
answered is still in `force`, in the encoder's own request or in a picture it holds.
