---------------------------- MODULE HostStreams ----------------------------
(***************************************************************************)
(* Stream ownership and stream workers of the host (host/src/main.cpp).    *)
(*                                                                         *)
(* One worker thread per selected monitor captures, encodes and sends.     *)
(* Whole operations (select, reconfigure, remove a virtual monitor,        *)
(* disconnect, quit) run one at a time under ops_mutex: `op` is what its   *)
(* holder is doing.  An operation takes workers out of active_streams,     *)
(* asks them to stop, waits for them (retire), parks in `graveyard` those  *)
(* that outlast the wait, sends STREAM_STOP, and starts new workers.       *)
(* Workers run between its steps.                                          *)
(*                                                                         *)
(* Time is not modelled.  The 5 s wait of retire() can run out on a worker *)
(* only in a stage of SlowStages: what is in that set says which calls of  *)
(* a worker may block for longer.                                          *)
(***************************************************************************)
EXTENDS Integers, FiniteSets

CONSTANTS
  Clients,        \* connections; the server never reuses an id
  Monitors,       \* monitor ids a client can name
  Virtual,        \* those of them that are virtual monitors
  MaxWorkers,     \* bound: stream workers started in one behaviour
  MaxFrames,      \* bound: frames one worker sends
  Configs,        \* stream settings, records with field `picture`
  DefaultConfig,  \* the host's settings, before any STREAM_CONFIG
  ConfigsOf,      \* the settings each client may send
  Margin,         \* frame numbers skipped at a restart (1000 in the code)
  SlowStages,     \* worker stages that can outlast retire()'s 5 s
  None            \* no client

(* The stages of a worker in which it runs, and the calls that can block.  *)
Running == {"capture", "encoder", "announce", "loop", "acquire", "copy",
            "frame", "store", "restart"}
(* Those of them that lead to a frame, or to a first number, without a     *)
(* look at `stop`.                                                         *)
Senders == {"encoder", "acquire", "copy", "frame", "store"}

Workers == 1..MaxWorkers
NoWorker == 0

ASSUME HostStreamsAssumption ==
  /\ None \notin Clients /\ Monitors # {}
  /\ MaxWorkers \in Nat
  /\ MaxFrames \in Nat
  /\ Margin \in Nat \ {0}
  /\ Virtual \subseteq Monitors
  /\ DefaultConfig \in Configs
  /\ ConfigsOf \in [Clients -> SUBSET Configs]
  /\ SlowStages \subseteq Running

VARIABLES
  conn,              \* the handler thread of each connection
  g_running, main,   \* the quit flag, and where main() is
  op, retiring,      \* the operation under ops_mutex; workers it waits for
  late,              \* history: workers it gave up on in one of Senders
  displays,          \* the monitors that exist
  active_streams,    \* the worker streaming each monitor
  graveyard,         \* workers parked by retire()
  streams_client_id, stream_cfg,
  started,           \* workers 1..started have been started
  pc, mon, client, stop, cfg, new_cfg, cfg_changed,   \* per worker
  first_frame, frame_number,                          \* per worker
  frame_high_water,  \* last frame number sent, per monitor
  input_scale,       \* the worker that registered each monitor's scale
  shown              \* the stream each client shows, once it has read all
                     \* STREAM_START / STREAM_STOP sent to it (one TCP stream)

serverVars == <<conn, g_running, main>>
opVars     == <<op, retiring, late>>
ownerVars  == <<active_streams, streams_client_id, stream_cfg, started>>
settings   == <<cfg, new_cfg, cfg_changed>>
numbers    == <<first_frame, frame_number>>
workerVars == <<pc, mon, client, stop, settings, numbers>>
hostVars   == <<serverVars, opVars, ownerVars, mon, client, stop>>
sharedVars == <<displays, graveyard, frame_high_water, input_scale, shown>>
vars == <<serverVars, opVars, ownerVars, workerVars, sharedVars>>

NoOp == [step |-> "idle", by |-> None, kind |-> "select", client |-> None,
         ids |-> {}, stopped |-> {}, remove |-> {}]

Init ==
  /\ conn = [c \in Clients |-> "new"]
  /\ g_running = TRUE /\ main = "run"
  /\ op = NoOp /\ retiring = {} /\ late = {}
  /\ displays = Monitors \ Virtual
  /\ active_streams = [m \in Monitors |-> NoWorker]
  /\ graveyard = {}
  /\ streams_client_id = None
  /\ stream_cfg = DefaultConfig
  /\ started = 0
  /\ pc = [w \in Workers |-> "free"]
  /\ mon = [w \in Workers |-> CHOOSE m \in Monitors : TRUE]   \* not yet read
  /\ client = [w \in Workers |-> None]
  /\ stop = [w \in Workers |-> FALSE]
  /\ cfg = [w \in Workers |-> DefaultConfig]
  /\ new_cfg = [w \in Workers |-> DefaultConfig]
  /\ cfg_changed = [w \in Workers |-> FALSE]
  /\ first_frame = [w \in Workers |-> 0]
  /\ frame_number = [w \in Workers |-> 0]
  /\ frame_high_water = [m \in Monitors |-> 0]
  /\ input_scale = [m \in Monitors |-> NoWorker]
  /\ shown = [c \in Clients |-> [m \in Monitors |-> NoWorker]]

-----------------------------------------------------------------------------
(* Connections.  A handler thread handles one message at a time, so a      *)
(* client whose operation runs does nothing else meanwhile.  A request     *)
(* read before the server stops may still be waiting for ops_mutex.        *)

Serving(c) == conn[c] = "paired" /\ op.by # c

Streaming == {m \in Monitors : active_streams[m] # NoWorker}

(* An accepted HELLO. *)
Connect(c) ==
  /\ main = "run" /\ conn[c] = "new"
  /\ conn' = [conn EXCEPT ![c] = "paired"]
  /\ UNCHANGED <<g_running, main, opVars, ownerVars, workerVars, sharedVars>>

(* The connection ends: the server forgets the client, then its handler    *)
(* calls on_disconnected.                                                  *)
Drop(c) ==
  /\ conn[c] = "paired" /\ op.by # c
  /\ conn' = [conn EXCEPT ![c] = "closed"]
  /\ shown' = [shown EXCEPT ![c] = [m \in Monitors |-> NoWorker]]
  /\ UNCHANGED <<g_running, main, opVars, ownerVars, workerVars, displays,
                 graveyard, frame_high_water, input_scale>>

(* Take the streams of `drop` out of active_streams and ask their workers  *)
(* to stop; the operation then waits for `retiring`.                       *)
TakeOutUnasked(drop) ==   \* mutant: stop is never set
  /\ active_streams' = [m \in Monitors |-> IF m \in drop THEN NoWorker ELSE active_streams[m]]
  /\ retiring' = {active_streams[m] : m \in drop}
  /\ UNCHANGED stop

TakeOut(drop) ==
  LET out == {active_streams[m] : m \in drop} IN
  /\ active_streams' = [m \in Monitors |-> IF m \in drop THEN NoWorker ELSE active_streams[m]]
  /\ stop' = [w \in Workers |-> stop[w] \/ w \in out]
  /\ retiring' = out

BeginOp(by, kind, c, ids, drop, remove) ==
  /\ op = NoOp
  /\ TakeOut(drop)
  /\ op' = [step |-> "retire", by |-> by, kind |-> kind, client |-> c,
            ids |-> ids, stopped |-> drop, remove |-> remove]
  /\ UNCHANGED <<conn, g_running, late, streams_client_id, started, pc, mon, client,
                 settings, numbers, sharedVars>>

PoolBound(ids) == started + Cardinality(ids) <= MaxWorkers

(* MONITOR_SELECT and MULTI_MONITOR_SELECT: at most three monitors. *)
KeepOthersStreams(c, ids) == Streaming \ ids   \* mutant: no takeover
DropOnSelect(c, ids) == IF c = streams_client_id THEN Streaming \ ids ELSE Streaming

Select(c, ids) ==
  /\ Serving(c)
  /\ ids \subseteq Monitors /\ Cardinality(ids) <= 3 /\ PoolBound(ids)
  /\ BeginOp(c, "select", c, ids, DropOnSelect(c, ids), {})
  /\ UNCHANGED <<main, stream_cfg>>

(* STREAM_CONFIG.  Ignored unless nothing streams or the sender owns the   *)
(* streams. *)
MayConfigure(c) == Streaming = {} \/ c = streams_client_id

RetuneAmong(c, new, told) ==
  /\ Serving(c) /\ op = NoOp /\ MayConfigure(c)
  /\ new.picture = stream_cfg.picture
  /\ stream_cfg' = new
  /\ new_cfg' = [w \in Workers |-> IF w \in told THEN new ELSE new_cfg[w]]
  /\ cfg_changed' = [w \in Workers |-> cfg_changed[w] \/ w \in told]
  /\ UNCHANGED <<serverVars, opVars, active_streams, streams_client_id, started, pc, mon,
                 client, stop, cfg, first_frame, frame_number, sharedVars>>
RetuneAnnounced(c, new) ==   \* mutant: workers still starting are not told
  RetuneAmong(c, new, {w \in Workers : first_frame[w] # 0 /\ active_streams[mon[w]] = w})
(* Same codec and size: the running workers retune. *)
RetuneStreams(c, new) == RetuneAmong(c, new, {active_streams[m] : m \in Streaming})

(* A new codec or size: stop every stream, then select the same again. *)
RestartStreams(c, new) ==
  /\ Serving(c) /\ MayConfigure(c)
  /\ new.picture # stream_cfg.picture
  /\ PoolBound(Streaming)
  /\ stream_cfg' = new
  /\ BeginOp(c, "select", streams_client_id, Streaming, Streaming, {})
  /\ UNCHANGED main

(* VIRTUAL_DISPLAY_CREATE: one step, the list is re-read under ops_mutex. *)
CreateVirtual(c, m) ==
  /\ Serving(c) /\ op = NoOp
  /\ m \in Virtual \ displays
  /\ displays' = displays \cup {m}
  /\ UNCHANGED <<serverVars, opVars, ownerVars, workerVars, graveyard,
                 frame_high_water, input_scale, shown>>

(* VIRTUAL_DISPLAY_REMOVE, or the panel (by = None): stop its stream first. *)
RemoveVirtual(by, m) ==
  /\ IF by = None THEN main = "run" ELSE Serving(by)
  /\ m \in Virtual \cap displays
  /\ BeginOp(by, "select", streams_client_id, Streaming \ {m}, Streaming \cap {m}, {m})
  /\ UNCHANGED <<main, stream_cfg>>

(* on_disconnected: only the owner's streams go with it. *)
BystanderLeaves(c) ==
  /\ conn[c] = "closed" /\ op = NoOp /\ c # streams_client_id
  /\ conn' = [conn EXCEPT ![c] = "gone"]
  /\ UNCHANGED <<g_running, main, opVars, ownerVars, workerVars, sharedVars>>

OwnerLeaves(c) ==
  /\ conn[c] = "closed" /\ c = streams_client_id
  /\ BeginOp(c, "disconnect", c, {}, Streaming, {})
  /\ UNCHANGED <<main, stream_cfg>>

-----------------------------------------------------------------------------
(* The rest of an operation.  retire(): join a worker that has returned,   *)
(* or park one still in a slow stage when the wait runs out.               *)

RetireJoin(w) ==
  /\ w \in retiring /\ pc[w] = "done"
  /\ retiring' = retiring \ {w}
  /\ pc' = [pc EXCEPT ![w] = "joined"]
  /\ UNCHANGED <<serverVars, op, late, ownerVars, mon, client, stop, settings, numbers, sharedVars>>

RetireWaits(w) == w = NoWorker /\ UNCHANGED vars   \* mutant: no deadline

RetireTimeout(w) ==
  /\ w \in retiring /\ pc[w] \in SlowStages
  /\ retiring' = retiring \ {w}
  /\ graveyard' = graveyard \cup {w}
  /\ late' = IF pc[w] \in Senders THEN late \cup {w} ELSE late
  /\ UNCHANGED <<serverVars, op, ownerVars, workerVars, displays,
                 frame_high_water, input_scale, shown>>

Retired(kind) == op.step = "retire" /\ op.kind = kind /\ retiring = {}

(* STREAM_STOP to the previous owner, then the new one takes over. *)
Notify(to) ==
  /\ Retired("select")
  /\ shown' = [c \in Clients |-> [m \in Monitors |->
                 IF c = to /\ m \in op.stopped THEN NoWorker ELSE shown[c][m]]]
  /\ streams_client_id' = op.client
  /\ op' = [op EXCEPT !.step = "start"]
  /\ UNCHANGED <<serverVars, retiring, late, active_streams, stream_cfg, started, workerVars,
                 displays, graveyard, frame_high_water, input_scale>>
NotifyNewOwner == Notify(op.client)   \* mutant: the owner changes first
NotifyStopped == Notify(streams_client_id)

StartStream(m) ==
  LET w == started + 1 IN
  /\ op.step = "start" /\ w \in Workers
  /\ m \in op.ids \cap displays /\ active_streams[m] = NoWorker
  /\ started' = w
  /\ active_streams' = [active_streams EXCEPT ![m] = w]
  /\ pc' = [pc EXCEPT ![w] = "capture"]
  /\ mon' = [mon EXCEPT ![w] = m]
  /\ client' = [client EXCEPT ![w] = op.client]
  /\ cfg' = [cfg EXCEPT ![w] = stream_cfg]
  /\ UNCHANGED <<serverVars, opVars, streams_client_id, stream_cfg, stop, new_cfg, cfg_changed, numbers, sharedVars>>

(* Every selected monitor that exists streams; a removed one goes away. *)
EndOp ==
  /\ op.step = "start"
  /\ \A m \in op.ids \cap displays : active_streams[m] # NoWorker
  /\ displays' = displays \ op.remove
  /\ op' = NoOp
  /\ UNCHANGED <<serverVars, retiring, late, ownerVars, workerVars, graveyard,
                 frame_high_water, input_scale, shown>>

OwnerLeft ==
  /\ Retired("disconnect")
  /\ conn' = [conn EXCEPT ![op.client] = "gone"]
  /\ op' = NoOp
  /\ UNCHANGED <<g_running, main, retiring, late, ownerVars, workerVars, sharedVars>>

-----------------------------------------------------------------------------
(* A stream worker.  `stop` and g_running are read where the code reads    *)
(* them, nowhere else.                                                     *)

Stopping(w) == stop[w] \/ ~g_running

Goto(w, stage) == pc' = [pc EXCEPT ![w] = stage]
Move(w, stage) == Goto(w, stage) /\ UNCHANGED <<hostVars, settings, numbers, sharedVars>>

(* start_capture() returned: captured, or failed and told to stop (a       *)
(* failure that is retried leaves the worker here).                        *)
Captured(w) ==
  /\ pc[w] = "capture"
  /\ Move(w, IF Stopping(w) THEN "done" ELSE "encoder")

NoEncoder(w) ==
  /\ pc[w] = "encoder"
  /\ Move(w, "done")

(* The encoder is open: register the mouse scale, choose the first number. *)
RegisterAt(w, first) ==
  /\ pc[w] = "encoder"
  /\ Goto(w, "announce")
  /\ input_scale' = [input_scale EXCEPT ![mon[w]] = w]
  /\ first_frame' = [first_frame EXCEPT ![w] = first]
  /\ UNCHANGED <<hostVars, settings, frame_number, displays, graveyard, frame_high_water, shown>>
RegisterAnew(w) == RegisterAt(w, 1)                                \* mutant
Register(w) == RegisterAt(w, frame_high_water[mon[w]] + Margin)

(* STREAM_START, if the client is still there. *)
Announce(w) ==
  /\ pc[w] = "announce"
  /\ Goto(w, "loop")
  /\ frame_number' = [frame_number EXCEPT ![w] = first_frame[w]]
  /\ shown' = IF conn[client[w]] = "paired"
              THEN [shown EXCEPT ![client[w]][mon[w]] = w] ELSE shown
  /\ UNCHANGED <<hostVars, settings, first_frame, displays, graveyard, frame_high_water, input_scale>>

Continue(w) ==
  /\ pc[w] = "loop" /\ ~Stopping(w)
  /\ Move(w, "acquire")

(* acquire_frame() returned; take the changed-settings flag. *)
Acquired(w) ==
  /\ pc[w] = "acquire"
  /\ Goto(w, IF cfg_changed[w] THEN "copy" ELSE "frame")
  /\ cfg_changed' = [cfg_changed EXCEPT ![w] = FALSE]
  /\ UNCHANGED <<hostVars, cfg, new_cfg, numbers, sharedVars>>

Retune(w) ==
  /\ pc[w] = "copy"
  /\ Goto(w, "frame")
  /\ cfg' = [cfg EXCEPT ![w] = new_cfg[w]]
  /\ UNCHANGED <<hostVars, new_cfg, cfg_changed, numbers, sharedVars>>

(* The worker returns: erase the scale if it is still its own. *)
Leave(w, scale) ==
  /\ Goto(w, "done")
  /\ input_scale' = [input_scale EXCEPT ![mon[w]] = scale]
  /\ UNCHANGED <<hostVars, settings, numbers, displays, graveyard, frame_high_water, shown>>
LeaveLoop(w) ==
  Leave(w, IF input_scale[mon[w]] = w THEN NoWorker ELSE input_scale[mon[w]])

Exit(w) == pc[w] = "loop" /\ Stopping(w) /\ LeaveLoop(w)

(* The encoder refused the new settings and would not open again. *)
RetuneFailed(w) == pc[w] = "copy" /\ LeaveLoop(w)

SendFrame(w) ==
  /\ pc[w] = "frame" /\ frame_number[w] < first_frame[w] + MaxFrames
  /\ Move(w, "store")

StoreFrame(w) ==
  /\ pc[w] = "store"
  /\ Goto(w, "loop")
  /\ frame_high_water' = [frame_high_water EXCEPT ![mon[w]] = frame_number[w]]
  /\ frame_number' = [frame_number EXCEPT ![w] = @ + 1]
  /\ UNCHANGED <<hostVars, settings, first_frame, displays, graveyard, input_scale, shown>>

(* No frame to send now (idle, paced, or nothing encoded). *)
NoFrame(w) ==
  /\ pc[w] = "frame"
  /\ Move(w, "loop")

(* The capture lost its source: restart it after a pause. *)
CaptureLost(w) ==
  /\ pc[w] = "frame"
  /\ Move(w, IF Stopping(w) THEN "loop" ELSE "restart")

(* start_capture() returned: on success the scale is registered again. *)
Recaptured(w) ==
  /\ pc[w] = "restart"
  /\ Goto(w, "loop")
  /\ \/ input_scale' = [input_scale EXCEPT ![mon[w]] = w]
     \/ UNCHANGED input_scale
  /\ UNCHANGED <<hostVars, settings, numbers, displays, graveyard, frame_high_water, shown>>

(* Calls into the capture backend that need not return. *)
WaitStep(w) == Captured(w) \/ Recaptured(w)
WorkStep(w) ==
  \/ NoEncoder(w) \/ Register(w) \/ Announce(w) \/ Continue(w) \/ Acquired(w)
  \/ Retune(w) \/ Exit(w) \/ RetuneFailed(w) \/ SendFrame(w) \/ StoreFrame(w)
  \/ NoFrame(w) \/ CaptureLost(w)
WorkerStep(w) == WaitStep(w) \/ WorkStep(w)

-----------------------------------------------------------------------------
(* The main thread. *)

JoinParked(w) ==
  /\ w \in graveyard /\ pc[w] = "done"
  /\ graveyard' = graveyard \ {w}
  /\ Goto(w, "joined")
  /\ UNCHANGED <<hostVars, settings, numbers, displays, frame_high_water, input_scale, shown>>
ReapWhileRunning(w) == main = "run" /\ JoinParked(w)   \* mutant: not at exit
Reap(w) == main \in {"run", "reap"} /\ JoinParked(w)

Quit ==
  /\ g_running /\ g_running' = FALSE
  /\ UNCHANGED <<conn, main, opVars, ownerVars, workerVars, sharedVars>>

(* server->stop() closes the sockets and returns once the handlers have. *)
StopServer ==
  /\ main = "run" /\ ~g_running
  /\ main' = "stopServer"
  /\ UNCHANGED <<conn, g_running, opVars, ownerVars, workerVars, sharedVars>>

StreamsBeforeServer == op = NoOp   \* mutant: streams stopped before the server
HandlersGone == op = NoOp /\ \A c \in Clients : conn[c] \in {"new", "gone"}

StopStreams ==
  /\ main = "stopServer" /\ HandlersGone
  /\ main' = "stopStreams"
  /\ BeginOp(None, "quit", None, {}, Streaming, {})
  /\ UNCHANGED stream_cfg

StreamsStopped ==
  /\ Retired("quit")
  /\ main' = "reap" /\ op' = NoOp
  /\ UNCHANGED <<conn, g_running, retiring, late, ownerVars, workerVars, sharedVars>>

ExitMain ==
  /\ main = "reap" /\ graveyard = {}
  /\ main' = "exited"
  /\ UNCHANGED <<conn, g_running, opVars, ownerVars, workerVars, sharedVars>>

Done == main = "exited" /\ UNCHANGED vars

-----------------------------------------------------------------------------
ClientStep(c) ==
  \/ Connect(c) \/ Drop(c) \/ BystanderLeaves(c) \/ OwnerLeaves(c)
  \/ \E ids \in SUBSET Monitors : Select(c, ids)
  \/ \E new \in ConfigsOf[c] : RetuneStreams(c, new) \/ RestartStreams(c, new)
  \/ \E m \in Virtual : CreateVirtual(c, m) \/ RemoveVirtual(c, m)

OpStep ==
  \/ \E w \in Workers : RetireJoin(w) \/ RetireTimeout(w)
  \/ \E m \in Monitors : StartStream(m)
  \/ NotifyStopped \/ EndOp \/ OwnerLeft \/ StreamsStopped

MainStep ==
  \/ \E w \in Workers : Reap(w)
  \/ \E m \in Virtual : RemoveVirtual(None, m)
  \/ Quit \/ StopServer \/ StopStreams \/ ExitMain

Next ==
  \/ \E c \in Clients : ClientStep(c)
  \/ \E w \in Workers : WorkerStep(w)
  \/ OpStep \/ MainStep \/ Done

Spec == Init /\ [][Next]_vars

-----------------------------------------------------------------------------
(* Fairness: the threads are scheduled, and every call outside SlowStages  *)
(* returns.  Clients owe nothing, and a call in SlowStages may block for   *)
(* ever.  A handler whose socket server->stop() shut down leaves its loop  *)
(* after the request it is in: strong fairness, since other requests may   *)
(* take their turn in between.                                             *)
CallsReturn(w) == pc[w] \notin SlowStages /\ WorkerStep(w)
Fairness ==
  /\ \A w \in Workers : WF_vars(CallsReturn(w)) /\ WF_vars(Reap(w))
  /\ WF_vars(OpStep)
  /\ WF_vars(StopServer) /\ WF_vars(StopStreams) /\ WF_vars(ExitMain)
  /\ \A c \in Clients :
       /\ SF_vars(main = "stopServer" /\ Drop(c))
       /\ WF_vars(BystanderLeaves(c) \/ OwnerLeaves(c))
FairSpec == Spec /\ Fairness

-----------------------------------------------------------------------------
Stages == Running \cup {"free", "done", "joined"}
Streams == Workers \cup {NoWorker}
Ops == [step : {"idle", "retire", "start"}, by : Clients \cup {None},
        kind : {"select", "disconnect", "quit"}, client : Clients \cup {None},
        ids : SUBSET Monitors, stopped : SUBSET Monitors, remove : SUBSET Monitors]

TypeOK ==
  /\ conn \in [Clients -> {"new", "paired", "closed", "gone"}]
  /\ g_running \in BOOLEAN
  /\ main \in {"run", "stopServer", "stopStreams", "reap", "exited"}
  /\ op \in Ops
  /\ retiring \subseteq Workers
  /\ late \subseteq Workers
  /\ displays \subseteq Monitors
  /\ active_streams \in [Monitors -> Streams]
  /\ graveyard \subseteq Workers
  /\ streams_client_id \in Clients \cup {None}
  /\ stream_cfg \in Configs
  /\ started \in 0..MaxWorkers
  /\ pc \in [Workers -> Stages]
  /\ mon \in [Workers -> Monitors]
  /\ client \in [Workers -> Clients \cup {None}]
  /\ stop \in [Workers -> BOOLEAN]
  /\ cfg \in [Workers -> Configs]
  /\ new_cfg \in [Workers -> Configs]
  /\ cfg_changed \in [Workers -> BOOLEAN]
  /\ first_frame \in [Workers -> Nat]
  /\ frame_number \in [Workers -> Nat]
  /\ frame_high_water \in [Monitors -> Nat]
  /\ input_scale \in [Monitors -> Streams]
  /\ shown \in [Clients -> [Monitors -> Streams]]

(* Every stream in active_streams is its monitor's, was not asked to stop, *)
(* and belongs to the streaming client, whose disconnect is still to come: *)
(* no stream outlives its client, and a takeover leaves none behind.       *)
StreamsBelongToOwner ==
  \A m \in Monitors : LET w == active_streams[m] IN
    w # NoWorker =>
      /\ mon[w] = m /\ ~stop[w] /\ m \in displays
      /\ client[w] = streams_client_id /\ conn[client[w]] \in {"paired", "closed"}

(* A worker that was not asked to stop is the one active_streams names for *)
(* its monitor, so two workers never stream one monitor unasked.           *)
OneStreamPerMonitor ==
  \A w \in Workers : pc[w] \in Running /\ ~stop[w] => active_streams[mon[w]] = w

(* Every started thread is joined or held where it will be joined, and     *)
(* main() never returns over a joinable one (that is std::terminate).      *)
Held == {active_streams[m] : m \in Monitors} \cup retiring \cup graveyard
NoThreadLost ==
  /\ \A w \in 1..started : pc[w] # "joined" => w \in Held
  /\ main = "exited" => \A w \in Workers : pc[w] \in {"free", "joined"}

(* The inductive invariant behind these three: what every thread, stream,  *)
(* operation and stage of the shutdown says of the others.                 *)
Live(w) == w <= started /\ pc[w] # "joined"

ThreadsInv ==
  /\ \A w \in Workers : w > started <=> pc[w] = "free"
  /\ \A w \in Workers : w > started => ~stop[w]
  /\ \A w \in Workers : Live(w) /\ ~stop[w] => active_streams[mon[w]] = w
  /\ \A w \in Workers : Live(w) /\ stop[w] => w \in retiring \cup graveyard
  /\ \A w \in retiring \cup graveyard : Live(w) /\ stop[w]
  /\ retiring \cap graveyard = {}

StreamsInv ==
  \A m \in Monitors : LET w == active_streams[m] IN
    w # NoWorker =>
      /\ Live(w) /\ mon[w] = m /\ ~stop[w] /\ m \in displays
      /\ client[w] = streams_client_id
      /\ streams_client_id \in Clients /\ conn[streams_client_id] \in {"paired", "closed"}

OpInv ==
  /\ op.step = "idle" => op = NoOp
  /\ op.step # "retire" => retiring = {}
  /\ op.step = "start" => op.kind = "select" /\ op.client = streams_client_id
  /\ op.step = "retire" /\ (op.kind # "select" \/ op.client # streams_client_id)
       => Streaming = {}
  /\ op.ids # {} => op.client \in Clients /\ conn[op.client] \in {"paired", "closed"}
                     /\ op.kind = "select"
  /\ \A m \in op.remove : m \notin op.ids /\ active_streams[m] = NoWorker

ShutdownInv ==
  /\ main = "stopStreams" <=> op.kind = "quit"
  /\ main \in {"reap", "exited"} => op = NoOp
  /\ main \in {"stopStreams", "reap", "exited"} =>
       Streaming = {} /\ \A c \in Clients : conn[c] \in {"new", "gone"}
  /\ main = "exited" => graveyard = {}

OwnershipInv == TypeOK /\ ThreadsInv /\ StreamsInv /\ OpInv /\ ShutdownInv

(* With settings taken, a running stream has the last ones accepted; and   *)
(* its codec and size are always theirs.                                   *)
ConfigApplied ==
  \A m \in Monitors : LET w == active_streams[m] IN
    w # NoWorker =>
      /\ cfg[w].picture = stream_cfg.picture
      /\ cfg_changed[w] \/ pc[w] \in {"copy", "done"} \/ cfg[w] = stream_cfg

Announced(w) == pc[w] \in {"loop", "acquire", "copy", "frame", "store", "restart"}

(* Frame numbers grow across the restarts of a monitor's stream, with a    *)
(* margin for a previous worker still winding down (the comment at         *)
(* main.cpp:767, PROTOCOL.md:233): a stream starts above every number an   *)
(* earlier one used, late frames included.  Not so in the code: TLC        *)
(* refutes it.                                                             *)
LastUsed(w) == IF pc[w] = "store" THEN frame_number[w] ELSE frame_number[w] - 1
FrameNumbersGrow ==
  \A v, w \in Workers :
    v < w /\ mon[v] = mon[w] /\ first_frame[v] # 0 /\ first_frame[w] # 0
      => LastUsed(v) < first_frame[w]

(* So they do through any restarts and starts that never return, until     *)
(* retire() has given up on a worker that may still send: frame_high_water *)
(* does not have the frames of that one, and the margin is no help to a    *)
(* replacement when they would have been its first.                        *)
NumbersGrowUnlessLate == late = {} => FrameNumbersGrow

(* The clients see one owner at a time, told of every stop before the next *)
(* one takes over.                                                         *)
View == INSTANCE ExclusiveViewing WITH
          Streams <- Workers, NoStream <- NoWorker, owner <- streams_client_id
ExclusiveView == View!Spec

(* An operation never waits for ever, whatever blocks a worker: other      *)
(* clients get their turn.                                                 *)
OpsMutexReleased == (op # NoOp) ~> (op = NoOp)

(* Quitting ends in exit, unless a call of a worker never returns.         *)
Stuck == \E w \in Workers : pc[w] \in SlowStages
QuitExits == <>~g_running => <>(main = "exited") \/ <>[]Stuck
=============================================================================
