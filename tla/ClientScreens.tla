----------------------------- MODULE ClientScreens -----------------------------
(* What the headset shows of its PC (client/project/scripts/main.gd): the    *)
(* monitors selected, a panel and a decoder for each stream, virtual screens *)
(* asked for, and the keyframes asked for after a loss; with the host's side *)
(* of one connection as HostStreams and VirtualScreens have it.              *)
(* Messages go over the control connection, in order; frames go over UDP and *)
(* can be lost, and a stream's first one can overtake its STREAM_START.      *)
EXTENDS Integers, Sequences, FiniteSets, SequencesExt

CONSTANTS
    Real, Virtual,  \* ids of real monitors and, free to use, of virtual screens
    MaxScreens,     \* MAX_SCREENS (3)
    Workspace,      \* _workspace_monitor_ids, of the last launch
    Nil

Monitors == Real \cup Virtual

ASSUME ScreensAssumption ==
    /\ Monitors \subseteq Nat /\ Nil \notin Monitors /\ Real # {}
    /\ IsFiniteSet(Monitors) /\ MaxScreens \in Nat \ {0, 1} /\ Workspace \in Seq(Monitors)

VARIABLES
    active,     \* active_monitor_ids
    available,  \* available_monitors
    panels,     \* monitors with a panel
    decoder,    \* a monitor's decoder: "none", "awaiting" an IDR, "good", or "broken":
                \* it shows pictures that lack a reference
    asked,      \* a keyframe was asked for a moment ago (_last_keyframe_req_ms)
    pending,    \* _pending_virtual_id
    match,      \* _match: the virtual screen to replace, "creating" the other; or Nil
    sized,      \* the monitors in _stream_size
    skipped,    \* monitors with a frame lost since the last one that arrived
    toHost, toClient,  \* the control connection
    air,        \* a stream's first frame on its way: "idr", or Nil
    monitors,   \* the host's monitors
    streams,    \* its streams for this client: "none", "starting" or "live"
    keyframe    \* the next frame has to be an IDR

selection == <<active, available, pending, match>>
pictures == <<panels, decoder, asked>>
received == <<sized, skipped>>
hostVars == <<monitors, streams, keyframe>>
wires == <<toHost, toClient, air>>
screenVars == <<selection, pictures, received, hostVars, wires>>

Each(x) == [m \in Monitors |-> x]

ScreensTypeOK ==
    /\ active \in Seq(Monitors) /\ available \subseteq Monitors /\ panels \subseteq Monitors
    /\ decoder \in [Monitors -> {"none", "awaiting", "good", "broken"}]
    /\ asked \in [Monitors -> BOOLEAN] /\ {sized, skipped, monitors} \subseteq SUBSET Monitors
    /\ pending \in Monitors \cup {Nil}
    /\ match = Nil \/ match \in [old : Monitors, creating : BOOLEAN]
    /\ air \in [Monitors -> {"idr", Nil}]
    /\ streams \in [Monitors -> {"none", "starting", "live"}]
    /\ keyframe \in [Monitors -> BOOLEAN]

InitScreens ==
    /\ active = <<>> /\ available = {} /\ panels = {} /\ decoder = Each("none")
    /\ asked = Each(FALSE) /\ pending = Nil /\ match = Nil
    /\ sized = {} /\ skipped = {} /\ toHost = <<>> /\ toClient = <<>> /\ air = Each(Nil)
    /\ monitors \in {Real, Monitors} /\ streams = Each("none") /\ keyframe = Each(FALSE)

List(ms) == [type |-> "MONITOR_LIST", ids |-> ms]
Select(ms) == [type |-> "SELECT", ids |-> ms]
About(type, m) == [type |-> type, id |-> m]
Result(ok, removed, m) == [type |-> "RESULT", ok |-> ok, removed |-> removed, id |-> m]

Send(msg) == toHost' = Append(toHost, msg)
SendSelection(ids) == Send(Select(ToSet(ids)))

(***************************************************************************)
(* The connection begins, is lost, or is given up by the user              *)
(***************************************************************************)
(* The host acknowledges and lists its monitors.                            *)
HostGreets ==
    /\ toClient' = <<List(monitors)>>
    /\ UNCHANGED <<selection, pictures, received, hostVars, toHost, air>>

(* The sockets closed on both sides: the host stops this client's streams.  *)
WiresClosed ==
    /\ toHost' = <<>> /\ toClient' = <<>> /\ air' = Each(Nil)
    /\ sized' = {} /\ skipped' = {}
    /\ streams' = Each("none") /\ keyframe' = Each(FALSE)

(* _on_disconnected(): the screens stay where they are.                     *)
ScreensStay ==
    /\ WiresClosed
    /\ pending' = Nil /\ match' = Nil
    /\ UNCHANGED <<active, available, pictures, monitors>>

(* disconnect_from_host(), which leaves _pending_virtual_id and _match.     *)
ScreensCleared ==
    /\ WiresClosed
    /\ active' = <<>> /\ panels' = {} /\ decoder' = Each("none")
    /\ UNCHANGED <<available, asked, pending, match, monitors>>

(***************************************************************************)
(* The selection                                                           *)
(***************************************************************************)
(* Another monitor, in the oldest one's place when there are too many.      *)
Added(ids, m) == Append(IF Len(ids) >= MaxScreens THEN Tail(ids) ELSE ids, m)

(* Those of `ids` in S, in their order.                                     *)
Kept(ids, S) ==
    LET places == {i \in DOMAIN ids : ids[i] \in S}
        Place(k) == CHOOSE i \in places : Cardinality({j \in places : j <= i}) = k
    IN  [k \in 1..Cardinality(places) |-> ids[Place(k)]]

(* select_monitor()                                                         *)
SelectMonitor(m) ==
    /\ m \in available
    /\ active' = IF Contains(active, m) THEN Kept(active, Monitors \ {m}) ELSE Added(active, m)
    /\ SendSelection(active')
    /\ UNCHANGED <<available, pending, match, pictures, received, hostVars, toClient, air>>

Reading == toClient # <<>>
Message == Head(toClient)

(* What of `ids` is listed, or else the first monitor, except while a       *)
(* virtual screen is being replaced.                                        *)
Restored(ids, listed) ==
    LET known == Kept(ids, listed) IN
    IF known = <<>> /\ listed # {} /\ match = Nil
    THEN <<CHOOSE m \in listed : \A n \in listed : m <= n>> ELSE known

(* _show_new_virtual_screen() of m, with `ids` selected.                    *)
ShowNew(m, ids) ==
    /\ active' = IF Contains(ids, m) \/ Len(ids) >= MaxScreens THEN ids ELSE Append(ids, m)
    /\ IF Contains(ids, m) THEN UNCHANGED toHost ELSE SendSelection(active')

Closing(ms) == [m \in Monitors |-> IF m \in ms THEN "none" ELSE decoder[m]]

KeepFrozen(ids) == UNCHANGED <<panels, decoder>>   \* mutant

FrozenGo(ids) ==
    /\ panels' = panels \cap ToSet(ids)
    /\ decoder' = Closing(panels \ ToSet(ids))

(* _on_monitor_list()                                                       *)
OnMonitorList ==
    /\ Reading /\ Message.type = "MONITOR_LIST"
    /\ available' = Message.ids
    /\ LET wanted == Restored(IF active # <<>> THEN active ELSE Workspace, Message.ids)
           ids == SubSeq(wanted, 1, IF Len(wanted) > MaxScreens THEN MaxScreens ELSE Len(wanted)) IN
       /\ FrozenGo(ids)
       /\ IF pending \in Message.ids THEN ShowNew(pending, ids) /\ pending' = Nil
          ELSE /\ active' = ids /\ pending' = pending
               /\ IF ids # <<>> THEN SendSelection(ids) ELSE UNCHANGED toHost
    /\ toClient' = Tail(toClient)
    /\ UNCHANGED <<match, asked, received, hostVars, air>>

(***************************************************************************)
(* Streams                                                                 *)
(***************************************************************************)
(* STREAM_START: the monitor is (again) among the selected ones, with a new *)
(* decoder.                                                                 *)
OnStreamStarted ==
    /\ Reading /\ Message.type = "STREAM_START"
    /\ LET m == Message.id IN
       /\ sized' = sized \cup {m} /\ skipped' = skipped \ {m}
       /\ active' = IF Contains(active, m) THEN active ELSE Added(active, m)
       /\ decoder' = [decoder EXCEPT ![m] = "awaiting"]
       /\ panels' = panels \cup {m}
    /\ toClient' = Tail(toClient)
    /\ UNCHANGED <<available, pending, match, asked, hostVars, toHost, air>>

OnStreamStopped ==
    /\ Reading /\ Message.type = "STREAM_STOP"
    /\ LET m == Message.id IN
       /\ sized' = sized \ {m} /\ skipped' = skipped \ {m}
       /\ decoder' = [decoder EXCEPT ![m] = "none"]
       /\ panels' = panels \ {m}
    /\ toClient' = Tail(toClient)
    /\ UNCHANGED <<selection, asked, hostVars, toHost, air>>

(* _request_keyframe(), throttled.                                          *)
RequestKeyframe(m) ==
    IF asked[m] THEN UNCHANGED <<asked, toHost>>
    ELSE asked' = [asked EXCEPT ![m] = TRUE] /\ Send(About("REQUEST_KEYFRAME", m))

(* _on_frame_gap() and _on_video_frame(): a gap asks for a keyframe once a  *)
(* picture was shown, a frame that is none asks for it until then.          *)
Decoded(m, frame) ==
    CASE decoder[m] = "none" -> "none"
      [] decoder[m] # "none" /\ frame = "idr" -> "good"
      [] frame = "p" /\ decoder[m] = "good" /\ m \in skipped -> "broken"
      [] OTHER -> decoder[m]

FrameArrives(m, frame) ==
    IF m \notin sized THEN UNCHANGED <<decoder, asked, toHost, skipped>>
    ELSE /\ skipped' = skipped \ {m}
         /\ decoder' = [decoder EXCEPT ![m] = Decoded(m, frame)]
         /\ IF CASE decoder[m] = "none" -> FALSE
               [] decoder[m] = "awaiting" -> frame = "p"
               [] OTHER -> m \in skipped
            THEN RequestKeyframe(m) ELSE UNCHANGED <<asked, toHost>>

(* A request reaches the host before the next one may follow.               *)
ThrottleEnds(m) ==
    /\ asked[m] /\ ~Contains(toHost, About("REQUEST_KEYFRAME", m))
    /\ asked' = [asked EXCEPT ![m] = FALSE]
    /\ UNCHANGED <<selection, panels, decoder, received, hostVars, wires>>

(***************************************************************************)
(* Virtual screens                                                         *)
(***************************************************************************)
CreateVirtual ==
    /\ Send([type |-> "CREATE"])
    /\ UNCHANGED <<selection, pictures, received, hostVars, toClient, air>>

(* remove_virtual_screen()                                                  *)
RemoveVirtual(m) ==
    /\ m \in available \cap Virtual
    /\ Send(About("REMOVE", m))
    /\ UNCHANGED <<selection, pictures, received, hostVars, toClient, air>>

(* match_virtual_screen()                                                   *)
MatchVirtual(m) ==
    /\ match = Nil /\ m \in panels \cap Virtual
    /\ match' = [old |-> m, creating |-> FALSE]
    /\ Send(About("REMOVE", m))
    /\ UNCHANGED <<active, available, pending, pictures, received, hostVars, toClient, air>>

(* The new screen is shown at once if the list has it, else when it does.   *)
Shown(m) ==
    IF m \in available THEN ShowNew(m, active) /\ pending' = Nil
    ELSE pending' = m /\ UNCHANGED <<active, toHost>>

(* _on_virtual_display_result(), with _match_step() while one is replaced,  *)
(* which takes any result for the next one it waits for.                    *)
OnResult ==
    /\ Reading /\ Message.type = "RESULT"
    /\ CASE match = Nil /\ Message.ok /\ ~Message.removed -> Shown(Message.id) /\ UNCHANGED match
         [] match = Nil /\ ~(Message.ok /\ ~Message.removed) -> UNCHANGED <<active, pending, match, toHost>>
         [] match # Nil /\ ~match.creating /\ Message.ok ->
              /\ match' = [match EXCEPT !.creating = TRUE]
              /\ Send([type |-> "CREATE"])
              /\ UNCHANGED <<active, pending>>
         [] match # Nil /\ match.creating /\ Message.ok -> Shown(Message.id) /\ match' = Nil
         [] OTHER -> match' = Nil /\ UNCHANGED <<active, pending, toHost>>
    /\ toClient' = Tail(toClient)
    /\ UNCHANGED <<available, pictures, received, hostVars, air>>

(***************************************************************************)
(* The host's side                                                         *)
(***************************************************************************)
Request(type) == toHost # <<>> /\ Head(toHost).type = type
Stops(ms) == SetToSeq({About("STREAM_STOP", m) : m \in ms})
Running(ms) == {m \in ms : streams[m] # "none"}

(* apply_selection_locked(), for the client that has the streams or takes   *)
(* them over.                                                               *)
HostSelects ==
    /\ Request("SELECT")
    /\ LET ids == Head(toHost).ids \cap monitors IN
       /\ streams' = [m \in Monitors |-> IF m \notin ids THEN "none"
                                         ELSE IF streams[m] = "none" THEN "starting" ELSE streams[m]]
       /\ toClient' = toClient \o Stops(Running(Monitors \ ids))
    /\ toHost' = Tail(toHost)
    /\ UNCHANGED <<selection, pictures, received, monitors, keyframe, air>>

(* A stream starts with an IDR, which UDP can bring before STREAM_START.    *)
HostStarts(m) ==
    /\ streams[m] = "starting"
    /\ streams' = [streams EXCEPT ![m] = "live"] /\ keyframe' = [keyframe EXCEPT ![m] = FALSE]
    /\ toClient' = Append(toClient, About("STREAM_START", m))
    /\ air' = [air EXCEPT ![m] = "idr"]
    /\ UNCHANGED <<selection, pictures, received, monitors, toHost>>

(* Even a still screen sends a frame every second, an IDR when asked for    *)
(* one. What is sent after STREAM_START takes no time in the model.         *)
NextFrame(m) == IF air[m] # Nil THEN air[m] ELSE IF keyframe[m] THEN "idr" ELSE "p"

Sends(m) ==
    /\ streams[m] = "live"
    /\ IF air[m] # Nil THEN air' = [air EXCEPT ![m] = Nil] /\ UNCHANGED keyframe
       ELSE keyframe' = [keyframe EXCEPT ![m] = FALSE] /\ UNCHANGED air
    /\ UNCHANGED <<selection, panels, sized, monitors, streams, toClient>>

FrameSent(m) == Sends(m) /\ FrameArrives(m, NextFrame(m))

(* The decoder's queue is full: the frame is dropped, a first IDR too.      *)
FrameRefused(m) ==
    /\ Sends(m) /\ m \in sized /\ decoder[m] # "none"
    /\ decoder[m] = "awaiting" => NextFrame(m) = "idr"
    /\ decoder' = [decoder EXCEPT ![m] = "broken"]
    /\ skipped' = skipped \ {m}
    /\ RequestKeyframe(m)

FrameLost(m) ==
    /\ Sends(m)
    /\ skipped' = skipped \cup ({m} \cap sized)
    /\ UNCHANGED <<decoder, asked, toHost>>

HostKeyframe ==
    /\ Request("REQUEST_KEYFRAME")
    /\ LET m == Head(toHost).id IN keyframe' = [keyframe EXCEPT ![m] = @ \/ streams[m] = "live"]
    /\ toHost' = Tail(toHost)
    /\ UNCHANGED <<selection, pictures, received, monitors, streams, toClient, air>>

HostCreates ==
    /\ Request("CREATE")
    /\ toHost' = Tail(toHost)
    /\ \/ \E m \in Virtual \ monitors :
            /\ monitors' = monitors \cup {m}
            /\ toClient' = toClient \o <<Result(TRUE, FALSE, m), List(monitors')>>
       \/ /\ Virtual \subseteq monitors
          /\ toClient' = Append(toClient, Result(FALSE, FALSE, Nil))
          /\ UNCHANGED monitors
    /\ UNCHANGED <<selection, pictures, received, streams, keyframe, air>>

(* remove_virtual_locked() and the list: asked for by this client, another  *)
(* one or the panel.                                                        *)
Removal(m, answer) ==
    /\ monitors' = monitors \ {m} /\ streams' = [streams EXCEPT ![m] = "none"]
    /\ toClient' = toClient \o Stops(Running({m})) \o answer \o <<List(monitors')>>

HostRemoves ==
    /\ Request("REMOVE")
    /\ LET m == Head(toHost).id IN
       IF m \in monitors THEN Removal(m, <<Result(TRUE, TRUE, m)>>)
       ELSE toClient' = Append(toClient, Result(FALSE, TRUE, m)) /\ UNCHANGED <<monitors, streams>>
    /\ toHost' = Tail(toHost)
    /\ UNCHANGED <<selection, pictures, received, keyframe, air>>

OthersRemove(m) ==
    /\ m \in monitors \cap Virtual
    /\ Removal(m, <<>>)
    /\ UNCHANGED <<selection, pictures, received, keyframe, toHost, air>>

OthersCreate(m) ==
    /\ m \in Virtual \ monitors
    /\ monitors' = monitors \cup {m} /\ toClient' = Append(toClient, List(monitors'))
    /\ UNCHANGED <<selection, pictures, received, streams, keyframe, toHost, air>>

(* The same, with the headset away.                                         *)
OthersChange(m) ==
    /\ monitors' = IF m \in monitors THEN monitors \ {m} ELSE monitors \cup {m}
    /\ UNCHANGED <<selection, pictures, received, streams, keyframe, wires>>

(* Another client takes the streams over.                                   *)
TakenOver ==
    /\ Running(Monitors) # {}
    /\ toClient' = toClient \o Stops(Running(Monitors))
    /\ streams' = Each("none")
    /\ UNCHANGED <<selection, pictures, received, monitors, keyframe, toHost, air>>
================================================================================
