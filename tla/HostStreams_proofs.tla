------------------------- MODULE HostStreams_proofs -------------------------
(***************************************************************************)
(* Theorems about HostStreams, for every value of its constants:           *)
(*                                                                         *)
(*   TypeCorrect                                                           *)
(*   StreamsOwned, OneStreamEach, ThreadsKept    by OwnershipInv           *)
(*   ConfigsApplied                              by ConfigInv              *)
(*   NumbersGrow                                 by NumbersInv             *)
(*   ViewRefined, the refinement of              by ViewInv                *)
(*     ExclusiveViewing                                                    *)
(*                                                                         *)
(* The last holds where some stages of a worker are not slow: its          *)
(* hypothesis names the stages.                                            *)
(***************************************************************************)
EXTENDS HostStreams, TLAPS

USE HostStreamsAssumption DEF Workers, NoWorker, Streams

-----------------------------------------------------------------------------
(* Type correctness. *)

LEMMA InitType == Init => TypeOK
  BY DEF Init, TypeOK, NoOp, Ops, Stages

(* Taking streams out of active_streams keeps the types of what it changes. *)
LEMMA TakeOutType ==
  ASSUME TypeOK, NEW drop \in SUBSET Streaming, TakeOut(drop)
  PROVE  /\ active_streams' \in [Monitors -> Streams]
         /\ stop' \in [Workers -> BOOLEAN]
         /\ retiring' \subseteq Workers
  BY DEF TypeOK, TakeOut, Streaming

LEMMA BeginOpType ==
  ASSUME TypeOK, NEW by \in Clients \cup {None}, NEW c \in Clients \cup {None},
         NEW kind \in {"select", "disconnect", "quit"},
         NEW ids \in SUBSET Monitors, NEW drop \in SUBSET Streaming,
         NEW remove \in SUBSET Monitors,
         BeginOp(by, kind, c, ids, drop, remove),
         main' \in {"run", "stopServer", "stopStreams", "reap", "exited"},
         stream_cfg' \in Configs
  PROVE  TypeOK'
<1>1. /\ active_streams' \in [Monitors -> Streams]
      /\ stop' \in [Workers -> BOOLEAN]
      /\ retiring' \subseteq Workers
  BY TakeOutType DEF BeginOp
<1>2. op' \in Ops
  BY DEF BeginOp, Ops, Streaming
<1>3. QED
  BY <1>1, <1>2 DEF BeginOp, TypeOK, settings, numbers, sharedVars

(* The operations that begin with it. *)
LEMMA BeginningsType ==
  ASSUME TypeOK
  PROVE  /\ \A c \in Clients :
              /\ OwnerLeaves(c) => TypeOK'
              /\ \A ids \in SUBSET Monitors : Select(c, ids) => TypeOK'
              /\ \A new \in ConfigsOf[c] : RestartStreams(c, new) => TypeOK'
         /\ \A by \in Clients \cup {None}, m \in Virtual : RemoveVirtual(by, m) => TypeOK'
         /\ StopStreams => TypeOK'
<1>1. /\ main \in {"run", "stopServer", "stopStreams", "reap", "exited"}
      /\ stream_cfg \in Configs
      /\ streams_client_id \in Clients \cup {None}
  BY DEF TypeOK
<1>2. Streaming \in SUBSET Monitors /\ {} \in SUBSET Monitors
  BY DEF Streaming
<1>3. ASSUME NEW c \in Clients, OwnerLeaves(c) PROVE TypeOK'
  <2>1. BeginOp(c, "disconnect", c, {}, Streaming, {}) /\ UNCHANGED <<main, stream_cfg>>
    BY <1>3 DEF OwnerLeaves
  <2>2. QED BY <1>1, <1>2, <2>1, BeginOpType
<1>4. ASSUME NEW c \in Clients, NEW ids \in SUBSET Monitors, Select(c, ids) PROVE TypeOK'
  <2>1. BeginOp(c, "select", c, ids, DropOnSelect(c, ids), {}) /\ UNCHANGED <<main, stream_cfg>>
    BY <1>4 DEF Select
  <2>2. DropOnSelect(c, ids) \in SUBSET Streaming
    BY DEF DropOnSelect
  <2>3. QED BY <1>1, <1>2, <2>1, <2>2, BeginOpType
<1>5. ASSUME NEW c \in Clients, NEW new \in ConfigsOf[c], RestartStreams(c, new) PROVE TypeOK'
  <2>1. /\ BeginOp(c, "select", streams_client_id, Streaming, Streaming, {})
        /\ main' = main /\ stream_cfg' \in Configs
    BY <1>5 DEF RestartStreams
  <2>2. QED BY <1>1, <1>2, <2>1, BeginOpType
<1>6. ASSUME NEW by \in Clients \cup {None}, NEW m \in Virtual, RemoveVirtual(by, m) PROVE TypeOK'
  <2>1. /\ BeginOp(by, "select", streams_client_id, Streaming \ {m}, Streaming \cap {m}, {m})
        /\ UNCHANGED <<main, stream_cfg>>
    BY <1>6 DEF RemoveVirtual
  <2>2. {m} \in SUBSET Monitors /\ Streaming \ {m} \in SUBSET Monitors
        /\ Streaming \cap {m} \in SUBSET Streaming
    BY <1>2
  <2>3. QED BY <1>1, <2>1, <2>2, BeginOpType
<1>7. StopStreams => TypeOK'
  <2>1. SUFFICES ASSUME StopStreams PROVE TypeOK' OBVIOUS
  <2>2. /\ BeginOp(None, "quit", None, {}, Streaming, {})
        /\ main' = "stopStreams" /\ stream_cfg' = stream_cfg
    BY <2>1 DEF StopStreams
  <2>3. QED BY <1>1, <1>2, <2>2, BeginOpType
<1>8. QED BY <1>3, <1>4, <1>5, <1>6, <1>7

LEMMA RecapturedType ==
  ASSUME TypeOK, NEW w \in Workers, Recaptured(w)
  PROVE  TypeOK'
<1>1. UNCHANGED <<conn, g_running, main, op, retiring, late, active_streams, streams_client_id,
                  stream_cfg, started, mon, client, stop, cfg, new_cfg, cfg_changed,
                  first_frame, frame_number, displays, graveyard, frame_high_water, shown>>
  BY DEF Recaptured, hostVars, serverVars, opVars, ownerVars, settings, numbers
<1>2. pc' \in [Workers -> Stages]
  BY DEF TypeOK, Recaptured, Goto, Stages, Running
<1>3. input_scale' \in [Monitors -> Streams]
  BY DEF TypeOK, Recaptured
<1>4. QED BY <1>1, <1>2, <1>3 DEF TypeOK

LEMMA StartStreamType ==
  ASSUME TypeOK, NEW m \in Monitors, StartStream(m)
  PROVE  TypeOK'
<1>1. UNCHANGED <<conn, g_running, main, op, retiring, late, streams_client_id, stream_cfg, stop,
                  new_cfg, cfg_changed, first_frame, frame_number, displays, graveyard,
                  frame_high_water, input_scale, shown>>
  BY DEF StartStream, serverVars, opVars, numbers, sharedVars
<1>2. started' \in Workers /\ op.client \in Clients \cup {None}
  BY DEF StartStream, TypeOK, Ops
<1>3. /\ active_streams' \in [Monitors -> Streams]
      /\ started' \in 0..MaxWorkers
      /\ mon' \in [Workers -> Monitors]
      /\ client' \in [Workers -> Clients \cup {None}]
      /\ cfg' \in [Workers -> Configs]
  BY <1>2 DEF StartStream, TypeOK
<1>4. pc' \in [Workers -> Stages]
  BY DEF StartStream, TypeOK, Stages, Running
<1>5. QED BY <1>1, <1>3, <1>4 DEF TypeOK

LEMMA WorkerStepType ==
  ASSUME TypeOK, NEW w \in Workers, WorkerStep(w)
  PROVE  TypeOK'
<1> USE DEF TypeOK, Stages, Running, Goto, Move, hostVars, serverVars, opVars,
        ownerVars, settings, numbers, sharedVars
<1>1. CASE Captured(w)   BY <1>1 DEF Captured
<1>2. CASE NoEncoder(w)  BY <1>2 DEF NoEncoder
<1>3. CASE Register(w)
  <2>1. first_frame' \in [Workers -> Nat]
    <3>1. frame_high_water[mon[w]] + Margin \in Nat
      BY <1>3
    <3>2. QED
      BY <3>1, <1>3 DEF Register, RegisterAt
  <2>2. QED BY <2>1, <1>3 DEF Register, RegisterAt
<1>4. CASE Announce(w)   BY <1>4 DEF Announce
<1>5. CASE Continue(w)   BY <1>5 DEF Continue
<1>6. CASE Acquired(w)   BY <1>6 DEF Acquired
<1>7. CASE Retune(w)     BY <1>7 DEF Retune
<1>8. CASE Exit(w)       BY <1>8 DEF Exit, LeaveLoop, Leave
<1>9. CASE RetuneFailed(w) BY <1>9 DEF RetuneFailed, LeaveLoop, Leave
<1>10. CASE SendFrame(w) BY <1>10 DEF SendFrame
<1>11. CASE StoreFrame(w)
  <2>1. frame_number[w] \in Nat /\ frame_number[w] + 1 \in Nat
    OBVIOUS
  <2>2. /\ frame_number' \in [Workers -> Nat]
        /\ frame_high_water' \in [Monitors -> Nat]
    BY <1>11, <2>1 DEF StoreFrame
  <2>3. QED BY <2>2, <1>11 DEF StoreFrame
<1>12. CASE NoFrame(w)   BY <1>12 DEF NoFrame
<1>13. CASE CaptureLost(w) BY <1>13 DEF CaptureLost
<1>14. CASE Recaptured(w) BY <1>14, RecapturedType
<1>15. QED
  BY <1>1, <1>2, <1>3, <1>4, <1>5, <1>6, <1>7, <1>8, <1>9, <1>10, <1>11, <1>12,
     <1>13, <1>14 DEF WorkerStep, WaitStep, WorkStep

LEMMA ClientStepType ==
  ASSUME TypeOK, NEW c \in Clients, ClientStep(c)
  PROVE  TypeOK'
<1>1. CASE Connect(c) \/ Drop(c) \/ BystanderLeaves(c)
  <2> USE DEF TypeOK, serverVars, opVars, ownerVars, workerVars, settings, numbers,
      sharedVars
  <2>1. CASE Connect(c) BY <2>1 DEF Connect
  <2>2. CASE Drop(c) BY <2>2 DEF Drop
  <2>3. CASE BystanderLeaves(c) BY <2>3 DEF BystanderLeaves
  <2>4. QED BY <1>1, <2>1, <2>2, <2>3
<1>2. ASSUME NEW new \in ConfigsOf[c], RetuneStreams(c, new) PROVE TypeOK'
  BY <1>2 DEF RetuneStreams, RetuneAmong, TypeOK, serverVars, opVars, numbers, sharedVars
<1>3. ASSUME NEW m \in Virtual, CreateVirtual(c, m) PROVE TypeOK'
  BY <1>3 DEF CreateVirtual, TypeOK, serverVars, opVars, ownerVars, workerVars, settings,
     numbers
<1>4. QED
  BY <1>1, <1>2, <1>3, BeginningsType DEF ClientStep

LEMMA OpStepType ==
  ASSUME TypeOK, OpStep
  PROVE  TypeOK'
<1> USE DEF TypeOK, serverVars, opVars, ownerVars, workerVars, settings, numbers, sharedVars
<1>1. ASSUME NEW w \in Workers, RetireJoin(w) PROVE TypeOK'
  BY <1>1 DEF RetireJoin, Stages
<1>2. ASSUME NEW w \in Workers, RetireTimeout(w) PROVE TypeOK'
  BY <1>2 DEF RetireTimeout
<1>3. ASSUME NEW m \in Monitors, StartStream(m) PROVE TypeOK'
  BY <1>3, StartStreamType
<1>4. CASE NotifyStopped
  BY <1>4 DEF NotifyStopped, Notify, Ops
<1>5. CASE EndOp
  BY <1>5 DEF EndOp, NoOp, Ops
<1>6. CASE OwnerLeft
  BY <1>6 DEF OwnerLeft, NoOp, Ops
<1>7. CASE StreamsStopped
  BY <1>7 DEF StreamsStopped, NoOp, Ops
<1>8. QED
  BY <1>1, <1>2, <1>3, <1>4, <1>5, <1>6, <1>7 DEF OpStep

LEMMA MainStepType ==
  ASSUME TypeOK, MainStep
  PROVE  TypeOK'
<1>0. (\E m \in Virtual : RemoveVirtual(None, m)) \/ StopStreams => TypeOK'
  BY BeginningsType
<1> USE DEF TypeOK, serverVars, opVars, ownerVars, workerVars, settings, numbers, sharedVars
<1>1. ASSUME NEW w \in Workers, Reap(w) PROVE TypeOK'
  BY <1>1 DEF Reap, JoinParked, Goto, hostVars, Stages
<1>2. CASE Quit       BY <1>2 DEF Quit
<1>3. CASE StopServer BY <1>3 DEF StopServer
<1>4. CASE ExitMain   BY <1>4 DEF ExitMain
<1>5. QED
  BY <1>0, <1>1, <1>2, <1>3, <1>4 DEF MainStep

LEMMA NextType == TypeOK /\ [Next]_vars => TypeOK'
<1>1. ASSUME TypeOK, Next PROVE TypeOK'
  <2>1. CASE Done
    BY <1>1, <2>1 DEF Done, vars, TypeOK, serverVars, opVars, ownerVars, workerVars,
       settings, numbers, sharedVars
  <2>2. QED
    BY <1>1, <2>1, ClientStepType, WorkerStepType, OpStepType, MainStepType DEF Next
<1>2. ASSUME TypeOK, UNCHANGED vars PROVE TypeOK'
  BY <1>2 DEF vars, TypeOK, serverVars, opVars, ownerVars, workerVars,
     settings, numbers, sharedVars
<1>3. QED BY <1>1, <1>2

(* Every variable keeps its type, whatever the clients, monitors, settings *)
(* and slow calls are.                                                     *)
THEOREM TypeCorrect == Spec => []TypeOK
  BY InitType, NextType, PTL DEF Spec

-----------------------------------------------------------------------------
(* Ownership.  The streams belong to one client, each monitor has one, and *)
(* no worker thread is lost.  The argument is OwnershipInv: an operation   *)
(* holds in `retiring` the workers it took out and asked to stop, parks    *)
(* them in `graveyard`, and nothing else in between touches                *)
(* active_streams.                                                         *)

LEMMA InitOwnership == Init => OwnershipInv
<1>1. Init => ThreadsInv
  BY DEF Init, ThreadsInv, Live
<1>2. Init => StreamsInv
  BY DEF Init, StreamsInv
<1>3. Init => OpInv
  BY DEF Init, OpInv, NoOp
<1>4. Init => ShutdownInv
  BY DEF Init, ShutdownInv, NoOp
<1>5. QED BY <1>1, <1>2, <1>3, <1>4, InitType DEF OwnershipInv

(* An operation takes `drop` out: the workers it then waits for are the    *)
(* ones it asked to stop.                                                  *)
LEMMA TakeOutOwnership ==
  ASSUME OwnershipInv, NEW drop \in SUBSET Streaming, TakeOut(drop), op = NoOp,
         UNCHANGED <<conn, streams_client_id, started, pc, mon, client, displays, graveyard>>
  PROVE  ThreadsInv' /\ StreamsInv' /\ Streaming' = Streaming \ drop
<1> DEFINE out == {active_streams[m] : m \in drop}
<1>1. TypeOK /\ ThreadsInv /\ StreamsInv /\ OpInv
  BY DEF OwnershipInv
<1>2. retiring = {}
  BY <1>1 DEF OpInv, NoOp
<1>3. /\ retiring' = out
      /\ \A w \in Workers : stop'[w] = (stop[w] \/ w \in out)
      /\ \A m \in Monitors : active_streams'[m] = IF m \in drop THEN NoWorker ELSE active_streams[m]
  BY DEF TakeOut
<1>4. ASSUME NEW w \in out
      PROVE  w \in Workers /\ Live(w) /\ ~stop[w] /\ mon[w] \in drop /\ w \notin graveyard
  <2>1. PICK m \in drop : w = active_streams[m]
    OBVIOUS
  <2>2. m \in Monitors /\ w # NoWorker /\ w \in Workers
    BY <1>1, <2>1 DEF Streaming, TypeOK
  <2>3. Live(w) /\ ~stop[w] /\ mon[w] = m
    BY <1>1, <2>1, <2>2 DEF StreamsInv
  <2>4. w \notin graveyard
    BY <1>1, <2>3 DEF ThreadsInv
  <2>5. QED BY <2>1, <2>2, <2>3, <2>4
<1>5. \A m \in Monitors : m \notin drop => active_streams[m] \notin out
  BY <1>1, <1>4 DEF TypeOK, StreamsInv, Streaming
<1>6. \A w \in Workers : Live(w)' = Live(w)
  BY DEF Live
<1>7. ThreadsInv'
  <2>1. /\ \A w \in Workers : (w > started <=> pc[w] = "free")'
        /\ \A w \in Workers : w > started => ~stop'[w]
    <3>1. \A w \in Workers : (w > started <=> pc[w] = "free")'
      BY <1>1 DEF ThreadsInv
    <3>2. ASSUME NEW w \in Workers, w > started PROVE ~stop'[w]
      <4>0. \A v \in Workers : v > started => ~stop[v]
        BY <1>1 DEF ThreadsInv
      <4>1. ~stop[w]
        BY <4>0, <3>2
      <4>2. w \notin out
        <5>1. started \in Int
          BY <1>1 DEF TypeOK
        <5>2. w \in out => w <= started
          BY <1>4 DEF Live
        <5>3. QED BY <3>2, <5>1, <5>2
      <4>3. QED BY <1>3, <4>1, <4>2
    <3>3. QED BY <3>1, <3>2
  <2>2. ASSUME NEW w \in Workers, Live(w), ~stop'[w] PROVE active_streams'[mon[w]] = w
    <3>1. w \notin out /\ ~stop[w] /\ active_streams[mon[w]] = w
      BY <1>1, <1>3, <2>2 DEF ThreadsInv
    <3>2. mon[w] \in Monitors /\ mon[w] \notin drop
      BY <1>1, <3>1 DEF TypeOK
    <3>3. QED BY <1>3, <3>1, <3>2
  <2>3. \A w \in Workers : Live(w) /\ stop'[w] => w \in out \cup graveyard
    BY <1>1, <1>2, <1>3 DEF ThreadsInv
  <2>4. \A w \in out \cup graveyard : w \in Workers /\ Live(w) /\ stop'[w]
    BY <1>1, <1>3, <1>4 DEF ThreadsInv, TypeOK
  <2>5. out \cap graveyard = {}
    BY <1>4
  <2>6. QED
    BY <1>3, <1>6, <2>1, <2>2, <2>3, <2>4, <2>5 DEF ThreadsInv
<1>8. StreamsInv'
  <2>1. SUFFICES ASSUME NEW m \in Monitors, active_streams'[m] # NoWorker
        PROVE  LET w == active_streams[m] IN
               (/\ Live(w) /\ mon[w] = m /\ ~stop[w] /\ m \in displays
                /\ client[w] = streams_client_id
                /\ streams_client_id \in Clients
                /\ conn[streams_client_id] \in {"paired", "closed"})'
    BY DEF StreamsInv
  <2>2. active_streams'[m] = active_streams[m] /\ active_streams[m] # NoWorker
        /\ active_streams[m] \in Workers \ out
    BY <1>1, <1>3, <1>5, <2>1 DEF TypeOK
  <2>3. ~stop'[active_streams[m]] /\ Live(active_streams[m])'
    BY <1>1, <1>3, <1>6, <2>2 DEF StreamsInv
  <2>4. QED BY <1>1, <2>2, <2>3 DEF StreamsInv
<1>9. Streaming' = Streaming \ drop
  BY <1>3 DEF Streaming
<1>10. QED BY <1>7, <1>8, <1>9

(* A new operation keeps the invariant if it takes out every stream when   *)
(* the owner is to change or nothing is to be started.                     *)
LEMMA BeginOpOwnership ==
  ASSUME OwnershipInv, NEW by, NEW kind, NEW c, NEW ids, NEW drop \in SUBSET Streaming,
         NEW remove \in SUBSET Monitors, BeginOp(by, kind, c, ids, drop, remove),
         kind # "select" \/ c # streams_client_id => drop = Streaming,
         ids # {} => c \in Clients /\ conn[c] \in {"paired", "closed"} /\ kind = "select",
         \A m \in remove : m \notin ids /\ m \notin Streaming \ drop
  PROVE  ThreadsInv' /\ StreamsInv' /\ OpInv' /\ Streaming' = Streaming \ drop
<1>1. op = NoOp /\ TakeOut(drop)
      /\ UNCHANGED <<conn, streams_client_id, started, pc, mon, client, displays, graveyard>>
  BY DEF BeginOp, sharedVars
<1>2. ThreadsInv' /\ StreamsInv' /\ Streaming' = Streaming \ drop
  BY <1>1, TakeOutOwnership
<1>3. /\ op'.step = "retire" /\ op'.kind = kind /\ op'.client = c
      /\ op'.ids = ids /\ op'.remove = remove
  BY DEF BeginOp
<1>4. \A m \in remove : active_streams'[m] = NoWorker
  BY <1>2 DEF Streaming
<1>5. kind # "select" \/ c # streams_client_id' => Streaming' = {}
  BY <1>1, <1>2
<1>6. OpInv'
  BY <1>1, <1>3, <1>4, <1>5 DEF OpInv
<1>7. QED BY <1>2, <1>6

(* While requests are served, the shutdown has not got to the streams. *)
LEMMA BeginOpShutdown ==
  ASSUME OwnershipInv, NEW by, NEW kind, NEW c, NEW ids, NEW drop, NEW remove,
         BeginOp(by, kind, c, ids, drop, remove), kind # "quit",
         main \notin {"reap", "exited"}, main' = main
  PROVE  ShutdownInv'
<1>1. main # "stopStreams"
  BY DEF BeginOp, OwnershipInv, ShutdownInv, NoOp
<1>2. op'.kind = kind
  BY DEF BeginOp
<1>3. QED BY <1>1, <1>2 DEF ShutdownInv

LEMMA BeginningsOwnership ==
  ASSUME OwnershipInv
  PROVE  /\ \A c \in Clients :
              /\ OwnerLeaves(c) => OwnershipInv'
              /\ \A ids \in SUBSET Monitors : Select(c, ids) => OwnershipInv'
              /\ \A new \in ConfigsOf[c] : RestartStreams(c, new) => OwnershipInv'
         /\ \A by \in Clients \cup {None}, m \in Virtual : RemoveVirtual(by, m) => OwnershipInv'
         /\ StopStreams => OwnershipInv'
<1>1. TypeOK /\ StreamsInv /\ OpInv /\ ShutdownInv
  BY DEF OwnershipInv
<1>2. \A c \in Clients : conn[c] \in {"paired", "closed"} => main \notin {"reap", "exited"}
  BY <1>1 DEF ShutdownInv
<1>3. Streaming # {} => streams_client_id \in Clients /\ conn[streams_client_id] \in {"paired", "closed"}
  BY <1>1 DEF StreamsInv, Streaming
<1>4. ASSUME NEW c \in Clients, OwnerLeaves(c) PROVE OwnershipInv'
  <2>1. BeginOp(c, "disconnect", c, {}, Streaming, {}) /\ main' = main /\ conn[c] = "closed"
    BY <1>4 DEF OwnerLeaves
  <2>2. ThreadsInv' /\ StreamsInv' /\ OpInv'
    BY <2>1, BeginOpOwnership
  <2>3. ShutdownInv'
    BY <1>2, <2>1, BeginOpShutdown
  <2>4. QED BY <1>1, <1>4, <2>2, <2>3, BeginningsType DEF OwnershipInv
<1>5. ASSUME NEW c \in Clients, NEW ids \in SUBSET Monitors, Select(c, ids) PROVE OwnershipInv'
  <2>1. /\ BeginOp(c, "select", c, ids, DropOnSelect(c, ids), {})
        /\ main' = main /\ conn[c] = "paired"
    BY <1>5 DEF Select, Serving
  <2>2. /\ DropOnSelect(c, ids) \in SUBSET Streaming
        /\ c # streams_client_id => DropOnSelect(c, ids) = Streaming
    BY DEF DropOnSelect
  <2>3. ThreadsInv' /\ StreamsInv' /\ OpInv'
    BY <2>1, <2>2, BeginOpOwnership
  <2>4. ShutdownInv'
    BY <1>2, <2>1, BeginOpShutdown
  <2>5. QED BY <1>1, <1>5, <2>3, <2>4, BeginningsType DEF OwnershipInv
<1>6. ASSUME NEW c \in Clients, NEW new \in ConfigsOf[c], RestartStreams(c, new) PROVE OwnershipInv'
  <2>1. /\ BeginOp(c, "select", streams_client_id, Streaming, Streaming, {})
        /\ main' = main /\ conn[c] = "paired"
    BY <1>6 DEF RestartStreams, Serving
  <2>2. ThreadsInv' /\ StreamsInv' /\ OpInv'
    BY <1>3, <2>1, BeginOpOwnership
  <2>3. ShutdownInv'
    BY <1>2, <2>1, BeginOpShutdown
  <2>4. QED BY <1>1, <1>6, <2>2, <2>3, BeginningsType DEF OwnershipInv
<1>7. ASSUME NEW by \in Clients \cup {None}, NEW m \in Virtual, RemoveVirtual(by, m) PROVE OwnershipInv'
  <2>1. /\ BeginOp(by, "select", streams_client_id, Streaming \ {m}, Streaming \cap {m}, {m})
        /\ main' = main /\ main \notin {"reap", "exited"}
    BY <1>2, <1>7 DEF RemoveVirtual, Serving
  <2>2. ThreadsInv' /\ StreamsInv' /\ OpInv'
    <3>1. {m} \in SUBSET Monitors /\ Streaming \cap {m} \in SUBSET Streaming
      OBVIOUS
    <3>2. Streaming \ {m} # {} => Streaming # {}
      OBVIOUS
    <3>3. QED BY <1>3, <2>1, <3>1, <3>2, BeginOpOwnership
  <2>3. ShutdownInv'
    BY <2>1, BeginOpShutdown
  <2>4. QED BY <1>1, <1>7, <2>2, <2>3, BeginningsType DEF OwnershipInv
<1>8. ASSUME StopStreams PROVE OwnershipInv'
  <2>1. BeginOp(None, "quit", None, {}, Streaming, {}) /\ main' = "stopStreams" /\ HandlersGone
    BY <1>8 DEF StopStreams
  <2>2. ThreadsInv' /\ StreamsInv' /\ OpInv' /\ Streaming' = {}
    BY <2>1, BeginOpOwnership
  <2>3. ShutdownInv'
    BY <2>1, <2>2 DEF BeginOp, HandlersGone, ShutdownInv
  <2>4. QED BY <1>1, <1>8, <2>2, <2>3, BeginningsType DEF OwnershipInv
<1>9. QED BY <1>4, <1>5, <1>6, <1>7, <1>8

(* A worker's step moves its own control only, and does not join it. *)
LEMMA WorkerFrame ==
  ASSUME TypeOK, NEW w \in Workers, WorkerStep(w)
  PROVE  /\ pc[w] \in Running /\ pc' = [pc EXCEPT ![w] = pc'[w]]
         /\ pc'[w] \in Running \cup {"done"}
         /\ UNCHANGED <<hostVars, displays, graveyard>>
<1> USE DEF TypeOK, Running, Goto, Move, sharedVars
<1>1. CASE Captured(w) \/ NoEncoder(w) \/ Register(w) \/ Announce(w) \/ Continue(w)
  BY <1>1 DEF Captured, NoEncoder, Register, RegisterAt, Announce, Continue
<1>2. CASE Acquired(w) \/ Retune(w) \/ Exit(w) \/ RetuneFailed(w)
  BY <1>2 DEF Acquired, Retune, Exit, RetuneFailed, LeaveLoop, Leave
<1>3. CASE SendFrame(w) \/ StoreFrame(w) \/ NoFrame(w) \/ CaptureLost(w) \/ Recaptured(w)
  BY <1>3 DEF SendFrame, StoreFrame, NoFrame, CaptureLost, Recaptured
<1>4. QED BY <1>1, <1>2, <1>3 DEF WorkerStep, WaitStep, WorkStep

LEMMA WorkerStepOwnership ==
  ASSUME OwnershipInv, NEW w \in Workers, WorkerStep(w)
  PROVE  OwnershipInv'
<1>1. TypeOK /\ ThreadsInv /\ StreamsInv /\ OpInv /\ ShutdownInv
  BY DEF OwnershipInv
<1>2. /\ pc[w] \notin {"free", "joined"} /\ pc'[w] \notin {"free", "joined"}
      /\ \A v \in Workers : v # w => pc'[v] = pc[v]
      /\ UNCHANGED <<conn, main, op, retiring, active_streams, streams_client_id, started,
                     mon, client, stop, displays, graveyard>>
  <2>1. /\ pc[w] \in Running /\ pc' = [pc EXCEPT ![w] = pc'[w]]
        /\ pc'[w] \in Running \cup {"done"}
        /\ UNCHANGED <<hostVars, displays, graveyard>>
    BY <1>1, WorkerFrame
  <2>2. UNCHANGED <<conn, main, op, retiring, active_streams, streams_client_id, started,
                    mon, client, stop, displays, graveyard>>
    BY <2>1 DEF hostVars, serverVars, opVars, ownerVars
  <2>3. \A v \in Workers : v # w => pc'[v] = pc[v]
    BY <1>1, <2>1 DEF TypeOK
  <2>4. QED BY <2>1, <2>2, <2>3 DEF Running
<1>3. \A v \in Workers : (pc'[v] = "free" <=> pc[v] = "free") /\ Live(v)' = Live(v)
  BY <1>2 DEF Live
<1>4. ThreadsInv'
  <2>1. \A v \in retiring \cup graveyard : v \in Workers
    BY <1>1 DEF TypeOK
  <2>2. QED BY <1>1, <1>2, <1>3, <2>1 DEF ThreadsInv
<1>5. StreamsInv'
  <2>1. \A m \in Monitors : active_streams[m] # NoWorker => active_streams[m] \in Workers
    BY <1>1 DEF TypeOK
  <2>2. QED BY <1>1, <1>2, <1>3, <2>1 DEF StreamsInv
<1>6. OpInv' /\ ShutdownInv'
  BY <1>1, <1>2 DEF OpInv, ShutdownInv, Streaming
<1>7. QED BY <1>1, <1>4, <1>5, <1>6, WorkerStepType DEF OwnershipInv

(* Joining a worker that returned, from `retiring` or from `graveyard`. *)
LEMMA JoinOwnership ==
  ASSUME OwnershipInv, NEW w \in retiring \cup graveyard,
         pc[w] = "done", pc' = [pc EXCEPT ![w] = "joined"],
         retiring' = retiring \ {w}, graveyard' = graveyard \ {w},
         UNCHANGED <<conn, main, op, active_streams, streams_client_id, started, mon,
                     client, stop, displays>>
  PROVE  ThreadsInv' /\ StreamsInv' /\ OpInv' /\ ShutdownInv'
<1>1. TypeOK /\ ThreadsInv /\ StreamsInv /\ OpInv /\ ShutdownInv
  BY DEF OwnershipInv
<1>2. w \in Workers /\ stop[w]
  BY <1>1 DEF TypeOK, ThreadsInv
<1>3. \A v \in Workers : (pc'[v] = "free" <=> pc[v] = "free")
                         /\ (v # w => Live(v)' = Live(v))
  BY <1>1, <1>2 DEF Live, TypeOK
<1>4. pc'[w] = "joined" /\ ~Live(w)'
  BY <1>1, <1>2 DEF Live, TypeOK
<1>5. ThreadsInv'
  <2>1. \A v \in retiring \cup graveyard : v \in Workers
    BY <1>1 DEF TypeOK
  <2>2. QED BY <1>1, <1>3, <1>4, <2>1 DEF ThreadsInv
<1>6. StreamsInv'
  <2>1. \A m \in Monitors : active_streams[m] # NoWorker
                            => active_streams[m] \in Workers /\ active_streams[m] # w
    BY <1>1, <1>2 DEF TypeOK, StreamsInv
  <2>2. QED BY <1>1, <1>3, <2>1 DEF StreamsInv
<1>7. OpInv' /\ ShutdownInv'
  BY <1>1 DEF OpInv, ShutdownInv, Streaming
<1>8. QED BY <1>5, <1>6, <1>7

(* A connection that owns no stream the operation needs may change. *)
LEMMA ConnOwnership ==
  ASSUME OwnershipInv, NEW c \in Clients, conn' = [conn EXCEPT ![c] = conn'[c]],
         conn[c] = "paired" => conn'[c] = "closed",
         conn[c] = "closed" => Streaming = {} \/ c # streams_client_id,
         conn[c] = "closed" => op.ids = {},
         conn'[c] \in {"new", "gone"} \/ main \notin {"stopStreams", "reap", "exited"},
         UNCHANGED <<main, op, retiring, active_streams, streams_client_id, started, pc,
                     mon, client, stop, displays, graveyard>>
  PROVE  ThreadsInv' /\ StreamsInv' /\ OpInv' /\ ShutdownInv'
<1>1. TypeOK /\ ThreadsInv /\ StreamsInv /\ OpInv /\ ShutdownInv
  BY DEF OwnershipInv
<1>2. \A d \in Clients : d # c => conn'[d] = conn[d]
  BY <1>1 DEF TypeOK
<1>3. Streaming # {} /\ conn[streams_client_id] \in {"paired", "closed"}
        => conn'[streams_client_id] \in {"paired", "closed"}
  BY <1>1, <1>2 DEF StreamsInv, Streaming
<1>4. StreamsInv'
  BY <1>1, <1>3 DEF StreamsInv, Streaming, Live
<1>5. op.ids # {} => op.client \in Clients /\ conn'[op.client] \in {"paired", "closed"}
  BY <1>1, <1>2 DEF OpInv
<1>6. OpInv'
  BY <1>1, <1>5 DEF OpInv, Streaming
<1>7. ThreadsInv'
  BY <1>1 DEF ThreadsInv, Live
<1>8. ShutdownInv'
  BY <1>1, <1>2 DEF ShutdownInv, Streaming
<1>9. QED BY <1>4, <1>6, <1>7, <1>8

LEMMA ClientStepOwnership ==
  ASSUME OwnershipInv, NEW c \in Clients, ClientStep(c)
  PROVE  OwnershipInv'
<1>1. TypeOK /\ ThreadsInv /\ StreamsInv /\ OpInv /\ ShutdownInv
  BY DEF OwnershipInv
<1>2. TypeOK'
  BY <1>1, ClientStepType
<1>3. CASE Connect(c)
  <2>1. /\ conn[c] = "new" /\ conn' = [conn EXCEPT ![c] = conn'[c]] /\ main = "run"
        /\ UNCHANGED <<main, op, retiring, active_streams, streams_client_id, started, pc,
                       mon, client, stop, displays, graveyard>>
    BY <1>1, <1>3 DEF Connect, TypeOK, opVars, ownerVars, workerVars, sharedVars
  <2>2. QED BY <1>2, <2>1, ConnOwnership DEF OwnershipInv
<1>4. CASE Drop(c)
  <2>1. /\ conn[c] = "paired" /\ conn' = [conn EXCEPT ![c] = conn'[c]] /\ conn'[c] = "closed"
        /\ UNCHANGED <<main, op, retiring, active_streams, streams_client_id, started, pc,
                       mon, client, stop, displays, graveyard>>
    BY <1>1, <1>4 DEF Drop, TypeOK, opVars, ownerVars, workerVars
  <2>2. main \notin {"stopStreams", "reap", "exited"}
    BY <1>1, <2>1 DEF ShutdownInv
  <2>3. QED BY <1>2, <2>1, <2>2, ConnOwnership DEF OwnershipInv
<1>5. CASE BystanderLeaves(c)
  <2>1. /\ conn[c] = "closed" /\ conn' = [conn EXCEPT ![c] = conn'[c]] /\ conn'[c] = "gone"
        /\ c # streams_client_id /\ op.ids = {}
        /\ UNCHANGED <<main, op, retiring, active_streams, streams_client_id, started, pc,
                       mon, client, stop, displays, graveyard>>
    BY <1>1, <1>5 DEF BystanderLeaves, NoOp, TypeOK, opVars, ownerVars, workerVars, sharedVars
  <2>2. QED BY <1>2, <2>1, ConnOwnership DEF OwnershipInv
<1>6. ASSUME NEW new \in ConfigsOf[c], RetuneStreams(c, new) PROVE OwnershipInv'
  BY <1>1, <1>2, <1>6 DEF RetuneStreams, RetuneAmong, OwnershipInv, ThreadsInv, StreamsInv,
     OpInv, ShutdownInv, Live, Streaming, serverVars, opVars, sharedVars
<1>7. ASSUME NEW m \in Virtual, CreateVirtual(c, m) PROVE OwnershipInv'
  <2>1. /\ displays \subseteq displays'
        /\ UNCHANGED <<conn, main, op, retiring, active_streams, streams_client_id, started,
                       pc, mon, client, stop, graveyard>>
    BY <1>7 DEF CreateVirtual, serverVars, opVars, ownerVars, workerVars
  <2>2. QED
    BY <1>1, <1>2, <2>1 DEF OwnershipInv, ThreadsInv, StreamsInv, OpInv, ShutdownInv, Live,
       Streaming
<1>8. QED
  BY <1>3, <1>4, <1>5, <1>6, <1>7, BeginningsOwnership DEF ClientStep

(* A new worker takes a monitor nothing streams, for the owner. *)
LEMMA StartStreamOwnership ==
  ASSUME OwnershipInv, NEW m \in Monitors, StartStream(m)
  PROVE  ThreadsInv' /\ StreamsInv' /\ OpInv' /\ ShutdownInv'
<1>0. PICK w : w = started + 1
  OBVIOUS
<1>1. TypeOK /\ ThreadsInv /\ StreamsInv /\ OpInv /\ ShutdownInv
  BY DEF OwnershipInv
<1>2. /\ w \in Workers /\ op.step = "start" /\ m \in op.ids /\ m \in displays
      /\ active_streams[m] = NoWorker
      /\ started' = w
      /\ active_streams' = [active_streams EXCEPT ![m] = w]
      /\ pc' = [pc EXCEPT ![w] = "capture"]
      /\ mon' = [mon EXCEPT ![w] = m]
      /\ client' = [client EXCEPT ![w] = op.client]
      /\ UNCHANGED <<conn, main, op, retiring, streams_client_id, stop, displays, graveyard>>
  BY <1>0 DEF StartStream, serverVars, opVars, sharedVars
<1>3. started \in Nat /\ w > started
  BY <1>0, <1>1 DEF TypeOK
<1>4. /\ pc[w] = "free" /\ ~stop[w]
  BY <1>1, <1>2, <1>3 DEF ThreadsInv
<1>5. /\ pc'[w] = "capture" /\ mon'[w] = m /\ client'[w] = op.client
      /\ active_streams'[m] = w
  BY <1>1, <1>2 DEF TypeOK
<1>6. \A v \in Workers : v # w => pc'[v] = pc[v] /\ mon'[v] = mon[v] /\ client'[v] = client[v]
  BY <1>1, <1>2 DEF TypeOK
<1>7. \A v \in Workers : v # w => ((v > started)' <=> v > started)
  BY <1>0, <1>2, <1>3
<1>8. \A v \in Workers : v # w => (Live(v)' <=> Live(v))
  BY <1>0, <1>2, <1>3, <1>6 DEF Live
<1>9. Live(w)' /\ ~Live(w)
  BY <1>2, <1>3, <1>5 DEF Live
<1>10. ASSUME NEW v \in Workers, v # w, Live(v), ~stop[v]
       PROVE  active_streams'[mon[v]] = v
  <2>1. active_streams[mon[v]] = v /\ mon[v] \in Monitors /\ v # NoWorker
    BY <1>1, <1>10 DEF ThreadsInv, TypeOK
  <2>2. mon[v] # m
    BY <1>2, <2>1
  <2>3. QED BY <1>1, <1>2, <2>1, <2>2 DEF TypeOK
<1>11. \A v \in retiring \cup graveyard : v \in Workers /\ v # w
  BY <1>1, <1>9 DEF ThreadsInv, TypeOK
<1>12. ThreadsInv'
  <2>1. \A v \in Workers : (v > started <=> pc[v] = "free")' /\ (v > started => ~stop[v])'
    <3>1. ASSUME NEW v \in Workers, v # w
          PROVE  (v > started <=> pc[v] = "free")' /\ (v > started => ~stop[v])'
      BY <1>1, <1>2, <1>6, <1>7, <3>1 DEF ThreadsInv
    <3>2. ~(w > started)' /\ pc'[w] # "free"
      BY <1>2, <1>3, <1>5
    <3>3. QED BY <3>1, <3>2
  <2>2. \A v \in Workers : Live(v)' /\ ~stop'[v] => active_streams'[mon'[v]] = v
    BY <1>2, <1>5, <1>6, <1>8, <1>10
  <2>3. \A v \in Workers : Live(v)' /\ stop'[v] => v \in retiring' \cup graveyard'
    BY <1>1, <1>2, <1>4, <1>8 DEF ThreadsInv
  <2>4. \A v \in retiring' \cup graveyard' : Live(v)' /\ stop'[v]
    BY <1>1, <1>2, <1>8, <1>11 DEF ThreadsInv
  <2>5. QED BY <1>1, <1>2, <2>1, <2>2, <2>3, <2>4 DEF ThreadsInv
<1>13. StreamsInv'
  <2>1. SUFFICES ASSUME NEW n \in Monitors, active_streams'[n] # NoWorker
        PROVE  LET v == active_streams[n] IN
               (/\ Live(v) /\ mon[v] = n /\ ~stop[v] /\ n \in displays
                /\ client[v] = streams_client_id
                /\ streams_client_id \in Clients
                /\ conn[streams_client_id] \in {"paired", "closed"})'
    BY DEF StreamsInv
  <2>2. CASE n = m
    BY <1>1, <1>2, <1>4, <1>5, <1>9, <2>2 DEF OpInv
  <2>3. CASE n # m
    <3>1. active_streams'[n] = active_streams[n] /\ active_streams[n] \in Workers
          /\ active_streams[n] # w
      BY <1>1, <1>2, <1>9, <2>1, <2>3 DEF TypeOK, StreamsInv
    <3>2. QED BY <1>1, <1>2, <1>6, <1>8, <3>1 DEF StreamsInv
  <2>4. QED BY <2>2, <2>3
<1>14. OpInv'
  <2>1. \A n \in op.remove : n # m /\ n \in Monitors
    BY <1>1, <1>2 DEF OpInv, TypeOK, Ops
  <2>2. QED BY <1>1, <1>2, <2>1 DEF OpInv, TypeOK
<1>15. ShutdownInv'
  BY <1>1, <1>2 DEF ShutdownInv, OpInv, NoOp
<1>16. QED BY <1>12, <1>13, <1>14, <1>15

LEMMA OpStepOwnership ==
  ASSUME OwnershipInv, OpStep
  PROVE  OwnershipInv'
<1>1. TypeOK /\ ThreadsInv /\ StreamsInv /\ OpInv /\ ShutdownInv
  BY DEF OwnershipInv
<1>2. TypeOK'
  BY <1>1, OpStepType
<1>3. ASSUME NEW w \in Workers, RetireJoin(w) PROVE OwnershipInv'
  <2>1. w \notin graveyard /\ w \in retiring
    BY <1>1, <1>3 DEF RetireJoin, ThreadsInv
  <2>2. /\ pc[w] = "done" /\ pc' = [pc EXCEPT ![w] = "joined"]
        /\ retiring' = retiring \ {w} /\ graveyard' = graveyard \ {w}
        /\ UNCHANGED <<conn, main, op, active_streams, streams_client_id, started, mon,
                       client, stop, displays>>
    BY <1>3, <2>1 DEF RetireJoin, serverVars, ownerVars, sharedVars
  <2>3. QED BY <1>2, <2>1, <2>2, JoinOwnership DEF OwnershipInv
<1>4. ASSUME NEW w \in Workers, RetireTimeout(w) PROVE OwnershipInv'
  <2>1. /\ w \in retiring /\ retiring' = retiring \ {w} /\ graveyard' = graveyard \cup {w}
        /\ UNCHANGED <<conn, main, op, active_streams, streams_client_id, started, pc, mon,
                       client, stop, displays>>
    BY <1>4 DEF RetireTimeout, serverVars, ownerVars, workerVars
  <2>2. ThreadsInv'
    BY <1>1, <2>1 DEF ThreadsInv, Live
  <2>3. StreamsInv'
    BY <1>1, <2>1 DEF StreamsInv, Live
  <2>4. op.step = "retire"
    BY <1>1, <2>1 DEF OpInv
  <2>5. OpInv' /\ ShutdownInv'
    BY <1>1, <2>1, <2>4 DEF OpInv, ShutdownInv, Streaming, NoOp
  <2>6. QED BY <1>2, <2>2, <2>3, <2>5 DEF OwnershipInv
<1>5. ASSUME NEW m \in Monitors, StartStream(m) PROVE OwnershipInv'
  BY <1>2, <1>5, StartStreamOwnership DEF OwnershipInv
<1>6. CASE NotifyStopped
  <2>1. /\ op.step = "retire" /\ op.kind = "select" /\ retiring = {}
        /\ streams_client_id' = op.client /\ op' = [op EXCEPT !.step = "start"]
        /\ UNCHANGED <<conn, main, retiring, active_streams, started, pc, mon, client, stop,
                       displays, graveyard>>
    BY <1>6 DEF NotifyStopped, Notify, Retired, serverVars, workerVars
  <2>2. op' \in Ops /\ op'.step = "start" /\ op'.kind = op.kind /\ op'.client = op.client
        /\ op'.ids = op.ids /\ op'.remove = op.remove
    BY <1>1, <2>1 DEF TypeOK, Ops
  <2>3. Streaming # {} => streams_client_id' = streams_client_id
    BY <1>1, <2>1 DEF OpInv
  <2>4. StreamsInv'
    BY <1>1, <2>1, <2>3 DEF StreamsInv, Streaming, Live
  <2>5. ThreadsInv'
    BY <1>1, <2>1 DEF ThreadsInv, Live
  <2>6. OpInv'
    BY <1>1, <2>1, <2>2 DEF OpInv
  <2>7. ShutdownInv'
    BY <1>1, <2>1, <2>2 DEF ShutdownInv, Streaming, NoOp
  <2>8. QED BY <1>2, <2>4, <2>5, <2>6, <2>7 DEF OwnershipInv
<1>7. CASE EndOp
  <2>1. /\ op.step = "start" /\ op' = NoOp /\ displays' = displays \ op.remove
        /\ UNCHANGED <<conn, main, retiring, active_streams, streams_client_id, started, pc,
                       mon, client, stop, graveyard>>
    BY <1>7 DEF EndOp, serverVars, ownerVars, workerVars
  <2>2. ThreadsInv'
    BY <1>1, <2>1 DEF ThreadsInv, Live
  <2>3. StreamsInv'
    BY <1>1, <2>1 DEF StreamsInv, OpInv, Live
  <2>4. OpInv'
    BY <1>1, <2>1 DEF OpInv, NoOp
  <2>5. ShutdownInv'
    BY <1>1, <2>1 DEF ShutdownInv, OpInv, NoOp, Streaming
  <2>6. QED BY <1>2, <2>2, <2>3, <2>4, <2>5 DEF OwnershipInv
<1>8. CASE OwnerLeft \/ StreamsStopped
  <2>1. /\ op.step = "retire" /\ op.kind \in {"disconnect", "quit"} /\ retiring = {} /\ op' = NoOp
        /\ UNCHANGED <<retiring, active_streams, streams_client_id, started, pc, mon, client,
                       stop, displays, graveyard>>
    BY <1>8 DEF OwnerLeft, StreamsStopped, Retired, ownerVars, workerVars, sharedVars
  <2>2. Streaming = {} /\ \A m \in Monitors : active_streams[m] = NoWorker
    BY <1>1, <2>1 DEF OpInv, Streaming
  <2>3. ThreadsInv' /\ StreamsInv' /\ OpInv'
    BY <1>1, <2>1, <2>2 DEF ThreadsInv, StreamsInv, OpInv, NoOp, Live
  <2>4. CASE OwnerLeft
    <3>1. main' = main /\ main \notin {"stopStreams", "reap", "exited"}
          /\ conn' = [conn EXCEPT ![op.client] = "gone"]
      BY <1>1, <2>4 DEF OwnerLeft, Retired, ShutdownInv, NoOp
    <3>2. QED BY <1>2, <2>1, <2>3, <3>1 DEF ShutdownInv, OwnershipInv, NoOp
  <2>5. CASE StreamsStopped
    <3>1. op.kind = "quit" /\ main' = "reap" /\ conn' = conn
      BY <2>5 DEF StreamsStopped, Retired
    <3>2. QED BY <1>1, <1>2, <2>1, <2>2, <2>3, <3>1 DEF ShutdownInv, OwnershipInv, NoOp, Streaming
  <2>6. QED BY <1>8, <2>4, <2>5
<1>9. QED
  BY <1>3, <1>4, <1>5, <1>6, <1>7, <1>8 DEF OpStep

LEMMA MainStepOwnership ==
  ASSUME OwnershipInv, MainStep
  PROVE  OwnershipInv'
<1>1. TypeOK /\ ThreadsInv /\ StreamsInv /\ OpInv /\ ShutdownInv
  BY DEF OwnershipInv
<1>2. TypeOK'
  BY <1>1, MainStepType
<1>3. ASSUME NEW w \in Workers, Reap(w) PROVE OwnershipInv'
  <2>1. w \notin retiring /\ w \in graveyard
    BY <1>1, <1>3 DEF Reap, JoinParked, ThreadsInv
  <2>2. /\ pc[w] = "done" /\ pc' = [pc EXCEPT ![w] = "joined"]
        /\ retiring' = retiring \ {w} /\ graveyard' = graveyard \ {w}
        /\ UNCHANGED <<conn, main, op, active_streams, streams_client_id, started, mon,
                       client, stop, displays>>
    BY <1>3, <2>1 DEF Reap, JoinParked, Goto, hostVars, serverVars, opVars, ownerVars
  <2>3. QED BY <1>2, <2>1, <2>2, JoinOwnership DEF OwnershipInv
<1>4. CASE Quit \/ StopServer \/ ExitMain
  <2>1. UNCHANGED <<conn, op, retiring, active_streams, streams_client_id, started, pc, mon,
                    client, stop, displays, graveyard>>
    BY <1>4 DEF Quit, StopServer, ExitMain, opVars, ownerVars, workerVars, sharedVars
  <2>2. ThreadsInv' /\ StreamsInv' /\ OpInv'
    BY <1>1, <2>1 DEF ThreadsInv, StreamsInv, OpInv, Live, Streaming
  <2>3. ShutdownInv'
    BY <1>1, <1>4, <2>1 DEF ShutdownInv, Quit, StopServer, ExitMain, Streaming, NoOp
  <2>4. QED BY <1>2, <2>2, <2>3 DEF OwnershipInv
<1>5. QED
  BY <1>3, <1>4, BeginningsOwnership DEF MainStep

LEMMA NextOwnership == OwnershipInv /\ [Next]_vars => OwnershipInv'
<1>1. ASSUME OwnershipInv, UNCHANGED vars PROVE OwnershipInv'
  <2>1. TypeOK'
    BY <1>1, NextType DEF OwnershipInv
  <2>2. UNCHANGED <<conn, main, op, retiring, active_streams, streams_client_id, started, pc,
                    mon, client, stop, displays, graveyard>>
    BY <1>1 DEF vars, serverVars, opVars, ownerVars, workerVars, sharedVars
  <2>3. QED
    BY <1>1, <2>1, <2>2 DEF OwnershipInv, ThreadsInv, StreamsInv, OpInv, ShutdownInv, Live,
       Streaming
<1>2. ASSUME OwnershipInv, Next PROVE OwnershipInv'
  BY <1>1, <1>2, ClientStepOwnership, WorkerStepOwnership, OpStepOwnership,
     MainStepOwnership DEF Next, Done
<1>3. QED BY <1>1, <1>2

LEMMA OwnershipConsequences ==
  ASSUME OwnershipInv
  PROVE  StreamsBelongToOwner /\ OneStreamPerMonitor /\ NoThreadLost
<1>1. TypeOK /\ ThreadsInv /\ StreamsInv /\ OpInv /\ ShutdownInv
  BY DEF OwnershipInv
<1>2. StreamsBelongToOwner
  BY <1>1 DEF StreamsBelongToOwner, StreamsInv
<1>3. OneStreamPerMonitor
  <2>1. \A w \in Workers : pc[w] \in Running => Live(w)
    BY <1>1 DEF ThreadsInv, Live, Running, TypeOK
  <2>2. QED BY <1>1, <2>1 DEF OneStreamPerMonitor, ThreadsInv
<1>4. ASSUME NEW w \in Workers, Live(w) PROVE w \in Held
  <2>1. CASE stop[w]
    BY <1>1, <1>4, <2>1 DEF ThreadsInv, Held
  <2>2. CASE ~stop[w]
    BY <1>1, <1>4, <2>2 DEF ThreadsInv, Held, TypeOK
  <2>3. QED BY <2>1, <2>2
<1>5. main = "exited" => Held = {NoWorker}
  <2>1. main = "exited" => Streaming = {} /\ retiring = {} /\ graveyard = {}
    BY <1>1 DEF ShutdownInv, OpInv, NoOp
  <2>2. QED BY <1>1, <2>1 DEF Held, Streaming
<1>6. NoThreadLost
  <2>1. \A w \in 1..started : w \in Workers
    BY <1>1 DEF TypeOK
  <2>2. \A w \in 1..started : pc[w] # "joined" => w \in Held
    BY <1>4, <2>1 DEF Live
  <2>3. ASSUME main = "exited", NEW w \in Workers PROVE pc[w] \in {"free", "joined"}
    <3>1. ~Live(w)
      BY <1>4, <1>5, <2>3
    <3>2. QED BY <1>1, <3>1 DEF Live, ThreadsInv, TypeOK
  <2>4. QED BY <2>2, <2>3 DEF NoThreadLost
<1>7. QED BY <1>2, <1>3, <1>6

LEMMA OwnershipInvariant == Spec => []OwnershipInv
  BY InitOwnership, NextOwnership, PTL DEF Spec

(* Every stream belongs to the client that owns the streams, and none      *)
(* outlives it: whatever the clients do and whichever calls of a worker    *)
(* block.                                                                  *)
THEOREM StreamsOwned == Spec => []StreamsBelongToOwner
  BY OwnershipInvariant, OwnershipConsequences, PTL

(* A monitor has at most one worker that was not asked to stop. *)
THEOREM OneStreamEach == Spec => []OneStreamPerMonitor
  BY OwnershipInvariant, OwnershipConsequences, PTL

(* Every worker thread is held until it is joined, and main() returns over *)
(* none that is still to be joined.                                        *)
THEOREM ThreadsKept == Spec => []NoThreadLost
  BY OwnershipInvariant, OwnershipConsequences, PTL

-----------------------------------------------------------------------------
(* What is seen and sent.  The inductive invariants of the rest.           *)

(* A worker that an operation still waits for, or that streams. *)
Current(w) == Live(w) /\ w \notin graveyard
Unannounced == {"capture", "encoder", "announce"}

(* A monitor gets a new worker only when the last one is joined or parked. *)
SuccessorsInv ==
  \A v, w \in Workers : v < w /\ w <= started /\ mon[v] = mon[w] => ~Current(v)

(* The workers of an operation that is under way are still the owner's,    *)
(* and on the monitors it will report as stopped.                          *)
CurrentInv ==
  \A w \in Workers : Current(w) =>
    /\ client[w] = streams_client_id /\ client[w] \in Clients
    /\ stop[w] => op.step = "retire" /\ mon[w] \in op.stopped

(* Whom an operation is for. *)
KindInv ==
  /\ op.kind = "disconnect" =>
       op.client = streams_client_id /\ op.client \in Clients /\ conn[op.client] = "closed"
  /\ op.step = "retire" /\ op.kind = "select" => op.client \in Clients \cup {streams_client_id}

(* No parked worker can still do what the stages of S lead to. *)
ParkedNotIn(S) == \A w \in graveyard : pc[w] \notin S

(* Only the connected owner is shown streams, and each is in               *)
(* active_streams or about to be reported as stopped.                      *)
ShownInv ==
  \A c \in Clients, m \in Monitors : shown[c][m] # NoWorker =>
    /\ c = streams_client_id /\ conn[c] = "paired"
    /\ \/ active_streams[m] # NoWorker
       \/ op.step = "retire" /\ op.kind = "select" /\ m \in op.stopped

(* A worker still to be announced finds its monitor dark. *)
PendingInv ==
  \A w \in Workers : Current(w) /\ pc[w] \in Unannounced => shown[client[w]][mon[w]] = NoWorker

(* The stages between the capture and STREAM_START. *)
Mute == {"encoder", "announce"}
ViewInv == CurrentInv /\ KindInv /\ ShownInv /\ PendingInv

(* Numbers are at most Margin above the last one sent, and those still to  *)
(* be sent above it.                                                       *)
NumberOf(w) == LET high == frame_high_water[mon[w]] IN
  /\ first_frame[w] # 0 => w <= started /\ first_frame[w] <= high + Margin
  /\ frame_number[w] # 0 => first_frame[w] # 0
  /\ frame_number[w] <= high + Margin
  /\ pc[w] = "announce" \/ Announced(w) => first_frame[w] # 0
  /\ Current(w) /\ pc[w] = "announce" => high < first_frame[w]
  /\ Current(w) /\ Announced(w) => high < frame_number[w]
FirstsGrow ==
  \A v, w \in Workers :
    v < w /\ mon[v] = mon[w] /\ first_frame[v] # 0 /\ first_frame[w] # 0
      => first_frame[v] <= first_frame[w]
NumbersInv == (\A w \in Workers : NumberOf(w)) /\ FirstsGrow /\ FrameNumbersGrow

(* A worker told of settings and not yet retuned was told the last ones. *)
ConfigInv ==
  /\ \A w \in Workers : w > started => ~cfg_changed[w]
  /\ \A m \in Monitors : LET w == active_streams[m] IN
       w # NoWorker =>
         /\ cfg[w].picture = stream_cfg.picture
         /\ cfg_changed[w] \/ pc[w] = "copy" => new_cfg[w] = stream_cfg
         /\ cfg_changed[w] \/ pc[w] \in {"copy", "done"} \/ cfg[w] = stream_cfg

-----------------------------------------------------------------------------
(* The kinds of steps, told apart by what they leave alone. *)

Joins(w) == RetireJoin(w) \/ RetireTimeout(w) \/ Reap(w)

(* An operation begins. *)
Begins ==
  /\ op = NoOp /\ op' \in Ops /\ op'.step = "retire"
  /\ op'.stopped \subseteq Streaming /\ TakeOut(op'.stopped)
  /\ stream_cfg' = stream_cfg \/ op'.stopped = Streaming
  /\ op'.kind = "disconnect" =>
       op'.client = streams_client_id /\ op'.client \in Clients /\ conn[op'.client] = "closed"
  /\ op'.kind = "select" => op'.client \in Clients \cup {streams_client_id}
  /\ op'.kind = "quit" => \A c \in Clients : conn[c] \in {"new", "gone"}
  /\ UNCHANGED <<conn, late, streams_client_id, started, pc, mon, client, settings, numbers,
                 graveyard, frame_high_water, shown>>

(* Nothing of the streams, the operation or the connections changes. *)
Aside == UNCHANGED <<conn, op, late, ownerVars, workerVars, graveyard, frame_high_water, shown>>

ConnStep == \E c \in Clients : Connect(c) \/ Drop(c) \/ BystanderLeaves(c)
Retunes == \E c \in Clients : \E new \in ConfigsOf[c] : RetuneStreams(c, new)
OpMoves == NotifyStopped \/ EndOp \/ OwnerLeft \/ StreamsStopped
Elsewhere == Begins \/ ConnStep \/ Retunes \/ OpMoves \/ Aside

LEMMA BeginOpBegins ==
  ASSUME TypeOK', NEW by, NEW kind, NEW d, NEW ids, NEW drop \in SUBSET Streaming, NEW remove,
         BeginOp(by, kind, d, ids, drop, remove),
         stream_cfg' = stream_cfg \/ drop = Streaming,
         kind = "disconnect" => d = streams_client_id /\ d \in Clients /\ conn[d] = "closed",
         kind = "select" => d \in Clients \cup {streams_client_id},
         kind = "quit" => \A c \in Clients : conn[c] \in {"new", "gone"}
  PROVE  Begins
<1>1. /\ op'.step = "retire" /\ op'.kind = kind /\ op'.client = d /\ op'.stopped = drop
      /\ op = NoOp /\ TakeOut(drop)
      /\ UNCHANGED <<conn, late, streams_client_id, started, pc, mon, client, settings, numbers,
                     graveyard, frame_high_water, shown>>
  BY DEF BeginOp, sharedVars
<1>2. op' \in Ops
  BY DEF TypeOK
<1>3. QED BY <1>1, <1>2 DEF Begins

LEMMA StepKinds ==
  ASSUME TypeOK, [Next]_vars
  PROVE  \/ \E w \in Workers : WorkerStep(w) \/ Joins(w)
         \/ \E m \in Monitors : StartStream(m)
         \/ Elsewhere
<1>0. TypeOK'
  BY NextType
<1>1. ASSUME NEW c \in Clients, ClientStep(c) PROVE Elsewhere
  <2>1. CASE Connect(c) \/ Drop(c) \/ BystanderLeaves(c)
    BY <2>1 DEF ConnStep, Elsewhere
  <2>2. CASE OwnerLeaves(c)
    BY <1>0, <2>2, BeginOpBegins DEF OwnerLeaves, Elsewhere
  <2>3. ASSUME NEW ids \in SUBSET Monitors, Select(c, ids) PROVE Begins
    BY <1>0, <2>3, BeginOpBegins DEF Select, DropOnSelect
  <2>4. ASSUME NEW new \in ConfigsOf[c], RetuneStreams(c, new) PROVE Retunes
    BY <2>4 DEF Retunes
  <2>5. ASSUME NEW new \in ConfigsOf[c], RestartStreams(c, new) PROVE Begins
    BY <1>0, <2>5, BeginOpBegins DEF RestartStreams
  <2>6. ASSUME NEW m \in Virtual, CreateVirtual(c, m) PROVE Aside
    BY <2>6 DEF CreateVirtual, Aside, serverVars, opVars
  <2>7. ASSUME NEW m \in Virtual, RemoveVirtual(c, m) PROVE Begins
    BY <1>0, <2>7, BeginOpBegins DEF RemoveVirtual
  <2>8. QED BY <1>1, <2>1, <2>2, <2>3, <2>4, <2>5, <2>6, <2>7 DEF ClientStep, Elsewhere
<1>2. ASSUME MainStep PROVE Elsewhere \/ \E w \in Workers : Joins(w)
  <2>1. CASE Quit \/ StopServer \/ ExitMain
    BY <2>1 DEF Quit, StopServer, ExitMain, Aside, Elsewhere, opVars, sharedVars
  <2>2. CASE StopStreams
    BY <1>0, <2>2, BeginOpBegins DEF StopStreams, HandlersGone, Elsewhere
  <2>3. ASSUME NEW m \in Virtual, RemoveVirtual(None, m) PROVE Begins
    BY <1>0, <2>3, BeginOpBegins DEF RemoveVirtual
  <2>4. QED BY <1>2, <2>1, <2>2, <2>3 DEF MainStep, Joins, Elsewhere
<1>3. ASSUME OpStep
      PROVE  Elsewhere \/ (\E w \in Workers : Joins(w)) \/ \E m \in Monitors : StartStream(m)
  BY <1>3 DEF OpStep, Joins, OpMoves, Elsewhere
<1>4. UNCHANGED vars => Elsewhere
  BY DEF vars, Elsewhere, Aside, serverVars, opVars, sharedVars
<1>5. CASE Next
  BY <1>1, <1>2, <1>3, <1>4, <1>5 DEF Next, Done
<1>6. QED BY <1>4, <1>5

(* Other threads' steps leave the workers alone. *)
Steady == UNCHANGED <<late, started, pc, mon, client, numbers, graveyard, frame_high_water>>
LEMMA ElsewhereSteady == Elsewhere => Steady
<1> USE DEF Steady, serverVars, opVars, ownerVars, workerVars, sharedVars, settings, numbers
<1>1. Begins => Steady
  BY DEF Begins
<1>2. ConnStep => Steady
  BY DEF ConnStep, Connect, Drop, BystanderLeaves
<1>3. Retunes => Steady
  BY DEF Retunes, RetuneStreams, RetuneAmong
<1>4. OpMoves => Steady
  BY DEF OpMoves, NotifyStopped, Notify, EndOp, OwnerLeft, StreamsStopped
<1>5. Aside => Steady
  BY DEF Aside
<1>6. QED BY <1>1, <1>2, <1>3, <1>4, <1>5 DEF Elsewhere

(* Joining or parking a worker ends its being current, and nothing else. *)
LEMMA JoinsFrame ==
  ASSUME OwnershipInv, NEW w \in Workers, Joins(w)
  PROVE  /\ UNCHANGED <<conn, op, active_streams, streams_client_id, stream_cfg, started, mon,
                        client, stop, settings, numbers, frame_high_water, shown>>
         /\ retiring' \subseteq retiring
         /\ \A v \in Workers : pc'[v] = pc[v] \/ (pc[v] = "done" /\ pc'[v] = "joined")
         /\ \A v \in graveyard' : v \in graveyard \/ (pc[v] \in SlowStages /\ pc' = pc)
         /\ \A v \in Workers : Current(v)' => Current(v)
<1>1. TypeOK /\ ThreadsInv
  BY DEF OwnershipInv
<1> USE DEF TypeOK, serverVars, opVars, ownerVars, workerVars, sharedVars, hostVars, Current, Live
<1>2. CASE RetireJoin(w)
  BY <1>1, <1>2 DEF RetireJoin
<1>3. CASE RetireTimeout(w)
  BY <1>1, <1>3 DEF RetireTimeout
<1>4. CASE Reap(w)
  <2>1. w \notin retiring /\ w \in graveyard
    BY <1>1, <1>4 DEF Reap, JoinParked, ThreadsInv
  <2>2. QED BY <1>1, <1>4, <2>1 DEF Reap, JoinParked, Goto
<1>5. QED BY <1>2, <1>3, <1>4 DEF Joins

(* The worker StartStream starts. *)
LEMMA StartFrame ==
  ASSUME OwnershipInv, NEW m \in Monitors, StartStream(m), NEW w, w = started + 1
  PROVE  /\ w \in Workers /\ started' = w /\ op.step = "start" /\ active_streams[m] = NoWorker
         /\ pc[w] = "free" /\ ~stop[w]
         /\ pc'[w] = "capture" /\ mon'[w] = m /\ client'[w] = op.client /\ active_streams'[m] = w
         /\ cfg'[w] = stream_cfg
         /\ \A v \in Workers : v # w =>
              pc'[v] = pc[v] /\ mon'[v] = mon[v] /\ client'[v] = client[v] /\ cfg'[v] = cfg[v]
         /\ \A n \in Monitors : n # m => active_streams'[n] = active_streams[n]
         /\ UNCHANGED <<conn, op, retiring, streams_client_id, stream_cfg, stop, new_cfg,
                        cfg_changed, numbers, graveyard, frame_high_water, shown>>
         /\ \A v \in Workers : v # w => (Live(v)' <=> Live(v)) /\ (Current(v)' <=> Current(v))
<1>1. TypeOK /\ ThreadsInv
  BY DEF OwnershipInv
<1>2. /\ w \in Workers /\ started' = w /\ op.step = "start" /\ active_streams[m] = NoWorker
      /\ pc' = [pc EXCEPT ![w] = "capture"] /\ mon' = [mon EXCEPT ![w] = m]
      /\ client' = [client EXCEPT ![w] = op.client] /\ cfg' = [cfg EXCEPT ![w] = stream_cfg]
      /\ active_streams' = [active_streams EXCEPT ![m] = w]
      /\ UNCHANGED <<conn, op, retiring, streams_client_id, stream_cfg, stop, new_cfg,
                     cfg_changed, numbers, graveyard, frame_high_water, shown>>
  BY DEF StartStream, serverVars, opVars, sharedVars
<1>3. started \in Nat /\ w > started
  BY <1>1 DEF TypeOK
<1>4. pc[w] = "free" /\ ~stop[w]
  BY <1>1, <1>2, <1>3 DEF ThreadsInv
<1>5. /\ pc'[w] = "capture" /\ mon'[w] = m /\ client'[w] = op.client /\ active_streams'[m] = w
      /\ cfg'[w] = stream_cfg
  BY <1>1, <1>2 DEF TypeOK
<1>6. \A v \in Workers : v # w =>
        pc'[v] = pc[v] /\ mon'[v] = mon[v] /\ client'[v] = client[v] /\ cfg'[v] = cfg[v]
  BY <1>1, <1>2 DEF TypeOK
<1>7. \A v \in Workers : v # w => (v <= started' <=> v <= started)
  BY <1>2, <1>3
<1>8. \A v \in Workers : v # w => (Live(v)' <=> Live(v)) /\ (Current(v)' <=> Current(v))
  BY <1>2, <1>6, <1>7 DEF Live, Current
<1>9. \A n \in Monitors : n # m => active_streams'[n] = active_streams[n]
  BY <1>1, <1>2 DEF TypeOK
<1>10. QED BY <1>2, <1>4, <1>5, <1>6, <1>8, <1>9

(* A worker that follows another on a monitor finds it joined or parked. *)
LEMMA SuccessorsKept ==
  ASSUME OwnershipInv, SuccessorsInv, [Next]_vars
  PROVE  SuccessorsInv'
<1>1. TypeOK /\ ThreadsInv /\ OpInv
  BY DEF OwnershipInv
<1>2. ASSUME NEW w \in Workers, WorkerStep(w) PROVE SuccessorsInv'
  <2>1. /\ pc[w] # "joined" /\ \A v \in Workers : v # w => pc'[v] = pc[v]
        /\ UNCHANGED <<started, mon, graveyard>>
    <3>1. /\ pc[w] \in Running /\ pc' = [pc EXCEPT ![w] = pc'[w]]
          /\ UNCHANGED <<hostVars, graveyard>>
      BY <1>1, <1>2, WorkerFrame
    <3>2. QED BY <1>1, <3>1 DEF TypeOK, Running, hostVars, ownerVars
  <2>2. \A v \in Workers : Current(v)' => Current(v)
    BY <2>1 DEF Current, Live
  <2>3. QED BY <2>1, <2>2 DEF SuccessorsInv
<1>3. ASSUME NEW w \in Workers, Joins(w) PROVE SuccessorsInv'
  BY <1>3, JoinsFrame DEF SuccessorsInv
<1>4. ASSUME NEW m \in Monitors, StartStream(m) PROVE SuccessorsInv'
  <2>0. PICK w : w = started + 1
    OBVIOUS
  <2>1. /\ w \in Workers /\ started' = w /\ op.step = "start" /\ active_streams[m] = NoWorker
        /\ mon'[w] = m
        /\ \A v \in Workers : v # w => mon'[v] = mon[v] /\ (Current(v)' <=> Current(v))
    BY <1>4, <2>0, StartFrame
  <2>2. retiring = {}
    BY <1>1, <2>1 DEF OpInv
  <2>3. ASSUME NEW v \in Workers, Current(v), mon[v] = m PROVE FALSE
    BY <1>1, <2>1, <2>2, <2>3 DEF Current, ThreadsInv
  <2>4. \A v, u \in Workers : v < u /\ u <= w => v # w /\ (u # w => u <= started)
    BY <1>1, <2>0 DEF TypeOK
  <2>5. QED BY <2>1, <2>3, <2>4 DEF SuccessorsInv
<1>5. CASE Elsewhere
  BY <1>5, ElsewhereSteady DEF Steady, SuccessorsInv, Current, Live
<1>6. QED BY <1>1, <1>2, <1>3, <1>4, <1>5, StepKinds

(* A worker in the graveyard was asked to stop: it does not get any further *)
(* than its slow call.  What S asks of those parked earlier it asks of them *)
(* then, if retire() parks none in S now.                                   *)
LEMMA ParkedKept ==
  ASSUME OwnershipInv, NEW S \in {Mute, Senders}, ParkedNotIn(S), [Next]_vars,
         \A w \in graveyard' \ graveyard : pc[w] \notin S
  PROVE  ParkedNotIn(S)'
<1>1. TypeOK /\ ThreadsInv
  BY DEF OwnershipInv
<1>2. ASSUME NEW w \in Workers, WorkerStep(w) PROVE ParkedNotIn(S)'
  <2>1. /\ pc' = [pc EXCEPT ![w] = pc'[w]] /\ UNCHANGED graveyard
    BY <1>1, <1>2, WorkerFrame
  <2>2. ASSUME w \in graveyard PROVE pc'[w] \notin S
    <3>1. Stopping(w) /\ pc[w] \notin S
      BY <1>1, <2>2 DEF ThreadsInv, Stopping, ParkedNotIn
    <3> USE <3>1 DEF Mute, Senders, Goto, Move
    <3>2. CASE Captured(w) \/ NoEncoder(w) \/ Register(w) \/ Announce(w) \/ Continue(w)
      BY <1>1, <3>2 DEF Captured, NoEncoder, Register, RegisterAt, Announce, Continue, TypeOK
    <3>3. CASE Acquired(w) \/ Retune(w) \/ Exit(w) \/ RetuneFailed(w)
      BY <1>1, <3>3 DEF Acquired, Retune, Exit, RetuneFailed, LeaveLoop, Leave, TypeOK
    <3>4. CASE SendFrame(w) \/ StoreFrame(w) \/ NoFrame(w) \/ CaptureLost(w) \/ Recaptured(w)
      BY <1>1, <3>4 DEF SendFrame, StoreFrame, NoFrame, CaptureLost, Recaptured, TypeOK
    <3>5. QED BY <1>2, <3>2, <3>3, <3>4 DEF WorkerStep, WaitStep, WorkStep
  <2>3. QED BY <1>1, <2>1, <2>2 DEF ParkedNotIn, TypeOK
<1>3. ASSUME NEW w \in Workers, Joins(w) PROVE ParkedNotIn(S)'
  <2>1. /\ \A v \in graveyard' : v \in graveyard \/ (pc[v] \notin S /\ pc' = pc)
        /\ \A v \in Workers : pc'[v] = pc[v] \/ pc'[v] = "joined"
    BY <1>3, JoinsFrame
  <2>2. graveyard' \subseteq Workers
    BY <1>1, NextType DEF TypeOK
  <2>3. QED BY <2>1, <2>2 DEF ParkedNotIn, Mute, Senders
<1>4. ASSUME NEW m \in Monitors, StartStream(m) PROVE ParkedNotIn(S)'
  <2>0. PICK w : w = started + 1
    OBVIOUS
  <2>1. /\ \A v \in Workers : v # w => pc'[v] = pc[v]
        /\ pc'[w] = "capture" /\ UNCHANGED graveyard
    BY <1>4, <2>0, StartFrame
  <2>2. QED BY <1>1, <2>1 DEF ParkedNotIn, Mute, Senders, TypeOK
<1>5. CASE Elsewhere
  BY <1>5, ElsewhereSteady DEF Steady, ParkedNotIn
<1>6. QED BY <1>1, <1>2, <1>3, <1>4, <1>5, StepKinds

-----------------------------------------------------------------------------
(* The settings of the running streams. *)

(* A step that changes no settings, and ends or joins workers only. *)
LEMMA ConfigFrame ==
  ASSUME OwnershipInv', ConfigInv, UNCHANGED <<started, cfg, new_cfg, cfg_changed>>,
         \A m \in Monitors : active_streams'[m] \in {NoWorker, active_streams[m]},
         stream_cfg' = stream_cfg \/ \A m \in Monitors : active_streams'[m] = NoWorker,
         \A w \in Workers : pc'[w] \in {pc[w], "joined"}
  PROVE  ConfigInv'
<1>1. \A w \in Workers : (w > started => ~cfg_changed[w])'
  BY DEF ConfigInv
<1>2. ASSUME NEW m \in Monitors, active_streams'[m] # NoWorker
      PROVE  LET w == active_streams[m] IN
             (/\ cfg[w].picture = stream_cfg.picture
              /\ cfg_changed[w] \/ pc[w] = "copy" => new_cfg[w] = stream_cfg
              /\ cfg_changed[w] \/ pc[w] \in {"copy", "done"} \/ cfg[w] = stream_cfg)'
  <2>1. active_streams'[m] = active_streams[m] /\ stream_cfg' = stream_cfg
        /\ active_streams[m] # NoWorker
    BY <1>2
  <2>2. active_streams'[m] \in Workers /\ pc'[active_streams'[m]] # "joined"
    BY <1>2 DEF OwnershipInv, StreamsInv, Live, TypeOK
  <2>3. pc'[active_streams[m]] = pc[active_streams[m]]
    BY <2>1, <2>2
  <2>4. QED BY <2>1, <2>3 DEF ConfigInv
<1>3. QED BY <1>1, <1>2 DEF ConfigInv

LEMMA ConfigWorker ==
  ASSUME OwnershipInv, ConfigInv, NEW w \in Workers, WorkerStep(w)
  PROVE  ConfigInv'
<1>1. TypeOK /\ ThreadsInv /\ StreamsInv /\ OwnershipInv'
  BY WorkerStepOwnership DEF OwnershipInv
<1>2. /\ UNCHANGED <<active_streams, stream_cfg, started>>
      /\ pc[w] \in Running /\ \A v \in Workers : v # w => pc'[v] = pc[v]
  <2>1. pc[w] \in Running /\ pc' = [pc EXCEPT ![w] = pc'[w]] /\ UNCHANGED hostVars
    BY <1>1, WorkerFrame
  <2>2. QED BY <1>1, <2>1 DEF hostVars, ownerVars, TypeOK
<1>3. /\ new_cfg' = new_cfg
      /\ \A v \in Workers : v # w => cfg'[v] = cfg[v] /\ cfg_changed'[v] = cfg_changed[v]
      /\ \/ cfg'[w] = cfg[w] /\ cfg_changed'[w] = cfg_changed[w] /\ pc'[w] # "copy"
            /\ (pc[w] = "copy" => pc'[w] = "done")
         \/ cfg'[w] = cfg[w] /\ ~cfg_changed'[w] /\ pc[w] = "acquire"
            /\ (pc'[w] = "copy" <=> cfg_changed[w])
         \/ cfg'[w] = new_cfg[w] /\ cfg_changed'[w] = cfg_changed[w]
            /\ pc[w] = "copy" /\ pc'[w] = "frame"
  <2> USE <1>1 DEF TypeOK, Goto, Move, settings
  <2>1. CASE Captured(w) \/ NoEncoder(w) \/ Register(w) \/ Announce(w) \/ Continue(w)
    BY <2>1 DEF Captured, NoEncoder, Register, RegisterAt, Announce, Continue
  <2>2. CASE Acquired(w)
    BY <2>2 DEF Acquired
  <2>3. CASE Retune(w)
    BY <2>3 DEF Retune
  <2>4. CASE Exit(w) \/ RetuneFailed(w)
    BY <2>4 DEF Exit, RetuneFailed, LeaveLoop, Leave
  <2>5. CASE SendFrame(w) \/ StoreFrame(w) \/ NoFrame(w) \/ CaptureLost(w) \/ Recaptured(w)
    BY <2>5 DEF SendFrame, StoreFrame, NoFrame, CaptureLost, Recaptured
  <2>6. QED BY <2>1, <2>2, <2>3, <2>4, <2>5 DEF WorkerStep, WaitStep, WorkStep
<1>4. \A v \in Workers : (v > started => ~cfg_changed[v])'
  <2>1. pc[w] # "free" /\ ~(w > started)
    BY <1>1, <1>2 DEF Running, ThreadsInv
  <2>2. QED BY <1>2, <1>3, <2>1 DEF ConfigInv
<1>5. ASSUME NEW m \in Monitors, active_streams'[m] # NoWorker
      PROVE  LET v == active_streams[m] IN
             (/\ cfg[v].picture = stream_cfg.picture
              /\ cfg_changed[v] \/ pc[v] = "copy" => new_cfg[v] = stream_cfg
              /\ cfg_changed[v] \/ pc[v] \in {"copy", "done"} \/ cfg[v] = stream_cfg)'
  <2>1. PICK v \in Workers : v = active_streams[m] /\ active_streams'[m] = v /\ v # NoWorker
    BY <1>1, <1>2, <1>5 DEF TypeOK
  <2>2. /\ cfg[v].picture = stream_cfg.picture
        /\ cfg_changed[v] \/ pc[v] = "copy" => new_cfg[v] = stream_cfg
        /\ cfg_changed[v] \/ pc[v] \in {"copy", "done"} \/ cfg[v] = stream_cfg
    BY <2>1 DEF ConfigInv
  <2>3. CASE v # w
    BY <1>2, <1>3, <2>1, <2>2, <2>3
  <2>4. CASE v = w
    <3>1. pc[w] # "done"
      BY <1>2 DEF Running
    <3>2. QED BY <1>2, <1>3, <2>1, <2>2, <2>4, <3>1
  <2>5. QED BY <2>3, <2>4
<1>6. QED BY <1>4, <1>5 DEF ConfigInv

LEMMA ConfigRetunes ==
  ASSUME OwnershipInv, ConfigInv, Retunes
  PROVE  ConfigInv'
<1>1. TypeOK /\ ThreadsInv /\ StreamsInv
  BY DEF OwnershipInv
<1>2. PICK c \in Clients : \E new \in ConfigsOf[c] : RetuneStreams(c, new)
  BY DEF Retunes
<1>3. PICK new \in ConfigsOf[c] : RetuneStreams(c, new)
  BY <1>2
<1>4. PICK told : told = {active_streams[m] : m \in Streaming}
  OBVIOUS
<1>5. /\ new.picture = stream_cfg.picture /\ stream_cfg' = new
      /\ \A w \in Workers : new_cfg'[w] = (IF w \in told THEN new ELSE new_cfg[w])
      /\ \A w \in Workers : cfg_changed'[w] = (cfg_changed[w] \/ w \in told)
      /\ UNCHANGED <<active_streams, started, pc, cfg>>
  BY <1>3, <1>4 DEF RetuneStreams, RetuneAmong
<1>6. ASSUME NEW m \in Monitors, active_streams[m] # NoWorker
      PROVE  active_streams[m] \in told /\ active_streams[m] \in Workers
  BY <1>1, <1>4, <1>6 DEF Streaming, TypeOK
<1>7. ASSUME NEW w \in Workers, w > started PROVE ~cfg_changed'[w]
  <2>1. w \notin told
    BY <1>1, <1>4, <1>7 DEF Streaming, StreamsInv, Live, TypeOK
  <2>2. QED BY <1>5, <1>7, <2>1 DEF ConfigInv
<1>8. QED BY <1>5, <1>6, <1>7 DEF ConfigInv

LEMMA ConfigKept ==
  ASSUME OwnershipInv, ConfigInv, [Next]_vars
  PROVE  ConfigInv'
<1>1. TypeOK /\ ThreadsInv /\ StreamsInv /\ OwnershipInv'
  BY NextOwnership DEF OwnershipInv
<1>2. ASSUME NEW w \in Workers, Joins(w) PROVE ConfigInv'
  <2>1. UNCHANGED <<started, active_streams, stream_cfg, settings>>
        /\ \A v \in Workers : pc'[v] \in {pc[v], "joined"}
    BY <1>2, JoinsFrame
  <2>2. QED BY <1>1, <2>1, ConfigFrame DEF settings
<1>3. ASSUME NEW m \in Monitors, StartStream(m) PROVE ConfigInv'
  <2>0. PICK w : w = started + 1
    OBVIOUS
  <2>1. /\ w \in Workers /\ started' = w /\ active_streams'[m] = w
        /\ pc'[w] = "capture" /\ cfg'[w] = stream_cfg
        /\ \A v \in Workers : v # w => pc'[v] = pc[v] /\ cfg'[v] = cfg[v]
        /\ \A n \in Monitors : n # m => active_streams'[n] = active_streams[n]
        /\ UNCHANGED <<stream_cfg, new_cfg, cfg_changed>>
    BY <1>3, <2>0, StartFrame
  <2>2. ~cfg_changed[w] /\ w > started
    BY <1>1, <2>0, <2>1 DEF ConfigInv, TypeOK
  <2>3. \A v \in Workers : (v > started => ~cfg_changed[v])'
    BY <1>1, <2>0, <2>1 DEF ConfigInv, TypeOK
  <2>4. \A n \in Monitors : active_streams[n] # NoWorker
                            => active_streams[n] \in Workers /\ active_streams[n] # w
    BY <1>1, <2>2 DEF StreamsInv, Live, TypeOK
  <2>5. QED BY <2>1, <2>2, <2>3, <2>4 DEF ConfigInv
<1>4. CASE Begins
  <2>1. \A m \in Monitors : active_streams'[m] = IF m \in op'.stopped THEN NoWorker ELSE active_streams[m]
    BY <1>4 DEF Begins, TakeOut
  <2>2. op'.stopped = Streaming => \A m \in Monitors : active_streams'[m] = NoWorker
    BY <2>1 DEF Streaming
  <2>3. QED BY <1>1, <1>4, <2>1, <2>2, ConfigFrame DEF Begins, settings
<1>5. CASE ConnStep \/ OpMoves \/ Aside
  <2>1. UNCHANGED <<started, active_streams, stream_cfg, pc, cfg, new_cfg, cfg_changed>>
    <3> USE DEF serverVars, opVars, ownerVars, workerVars, settings
    <3>1. CASE ConnStep
      BY <3>1 DEF ConnStep, Connect, Drop, BystanderLeaves
    <3>2. CASE OpMoves
      BY <3>2 DEF OpMoves, NotifyStopped, Notify, EndOp, OwnerLeft, StreamsStopped
    <3>3. CASE Aside
      BY <3>3 DEF Aside
    <3>4. QED BY <1>5, <3>1, <3>2, <3>3
  <2>2. QED BY <1>1, <2>1, ConfigFrame
<1>6. QED
  BY <1>1, <1>2, <1>3, <1>4, <1>5, StepKinds, ConfigWorker, ConfigRetunes DEF Elsewhere

(* Every running stream has, or has been told, the last settings accepted, *)
(* and its codec and size are always theirs: STREAM_CONFIG reaches workers *)
(* that are still starting too.                                            *)
THEOREM ConfigsApplied == Spec => []ConfigApplied
<1>1. Init => ConfigInv
  BY DEF Init, ConfigInv
<1>2. OwnershipInv /\ ConfigInv /\ [Next]_vars => ConfigInv'
  BY ConfigKept
<1>3. ConfigInv => ConfigApplied
  BY DEF ConfigInv, ConfigApplied
<1>4. QED BY <1>1, <1>2, <1>3, OwnershipInvariant, PTL DEF Spec

-----------------------------------------------------------------------------
(* The frame numbers of a monitor's streams, until retire() gives up on a  *)
(* worker in one of Senders.                                               *)

(* What a worker's step does to the numbers. *)
LEMMA NumberSteps ==
  ASSUME TypeOK, NEW w \in Workers, WorkerStep(w)
  PROVE  /\ UNCHANGED <<started, mon, graveyard, conn, op, retiring, active_streams,
                        streams_client_id, client, stop>>
         /\ \A v \in Workers : v # w => pc'[v] = pc[v]
         /\ pc[w] \in Running /\ pc'[w] \in Running \cup {"done"}
         /\ \/ Register(w) \/ Announce(w) \/ StoreFrame(w)
            \/ /\ UNCHANGED <<numbers, frame_high_water, shown>>
               /\ pc'[w] # "announce" /\ (Announced(w)' => Announced(w))
               /\ pc'[w] = "store" => pc[w] = "frame"
               /\ pc[w] # "store"
               /\ pc'[w] \in Unannounced => pc[w] \in Unannounced
<1>1. pc[w] \in Running /\ pc' = [pc EXCEPT ![w] = pc'[w]] /\ pc'[w] \in Running \cup {"done"}
      /\ UNCHANGED <<hostVars, graveyard>>
  BY WorkerFrame
<1>2. /\ UNCHANGED <<started, mon, graveyard, conn, op, retiring, active_streams,
                     streams_client_id, client, stop>>
      /\ \A v \in Workers : v # w => pc'[v] = pc[v]
  BY <1>1 DEF hostVars, serverVars, opVars, ownerVars, TypeOK
<1>3. CASE Captured(w) \/ NoEncoder(w) \/ Continue(w) \/ Acquired(w) \/ Retune(w)
  <2>1. pc'[w] # "announce" /\ (Announced(w)' => Announced(w)) /\ pc'[w] # "store" /\ pc[w] # "store"
        /\ (pc'[w] \in Unannounced => pc[w] \in Unannounced)
    <3> USE DEF Goto, Move, Announced, Unannounced, TypeOK
    <3>1. CASE Captured(w) \/ NoEncoder(w) \/ Continue(w)
      BY <3>1 DEF Captured, NoEncoder, Continue
    <3>2. CASE Acquired(w) \/ Retune(w)
      BY <3>2 DEF Acquired, Retune
    <3>3. QED BY <1>3, <3>1, <3>2
  <2>2. UNCHANGED <<numbers, frame_high_water, shown>>
    BY <1>3 DEF Captured, NoEncoder, Continue, Acquired, Retune, Move, sharedVars
  <2>3. QED BY <1>1, <1>2, <2>1, <2>2
<1>4. CASE Exit(w) \/ RetuneFailed(w) \/ SendFrame(w) \/ NoFrame(w) \/ CaptureLost(w) \/ Recaptured(w)
  <2>1. pc'[w] # "announce" /\ (Announced(w)' => Announced(w)) /\ (pc'[w] = "store" => pc[w] = "frame")
        /\ pc[w] # "store" /\ (pc'[w] \in Unannounced => pc[w] \in Unannounced)
    BY <1>4 DEF Exit, RetuneFailed, LeaveLoop, Leave, SendFrame, NoFrame, CaptureLost, Recaptured,
       Goto, Move, Announced, Unannounced, TypeOK
  <2>2. UNCHANGED <<numbers, frame_high_water, shown>>
    BY <1>4 DEF Exit, RetuneFailed, LeaveLoop, Leave, SendFrame, NoFrame, CaptureLost, Recaptured,
       Move, sharedVars
  <2>3. QED BY <1>1, <1>2, <2>1, <2>2
<1>5. QED BY <1>1, <1>2, <1>3, <1>4 DEF WorkerStep, WaitStep, WorkStep

(* No worker moves on: the numbers stand as they do. *)
LEMMA NumbersFrame ==
  ASSUME TypeOK, NumbersInv, UNCHANGED <<mon, numbers, frame_high_water>>, started <= started',
         \A w \in Workers : pc'[w] = pc[w] \/ (pc[w] = "done" /\ pc'[w] = "joined"),
         \A w \in Workers : Current(w)' => Current(w), started' \in Nat
  PROVE  NumbersInv'
<1>1. first_frame' = first_frame /\ frame_number' = frame_number
  BY DEF numbers
<1>2. \A w \in Workers : LastUsed(w)' = LastUsed(w)
  BY <1>1 DEF LastUsed
<1>3. FirstsGrow' /\ FrameNumbersGrow'
  BY <1>1, <1>2 DEF NumbersInv, FirstsGrow, FrameNumbersGrow
<1>4. ASSUME NEW w \in Workers PROVE NumberOf(w)'
  <2>1. NumberOf(w) /\ started \in Nat
    BY DEF NumbersInv, TypeOK
  <2>2. (pc'[w] = "announce" => pc[w] = "announce") /\ (Announced(w)' => Announced(w))
    BY DEF Announced
  <2>3. w <= started => w <= started'
    BY <2>1
  <2>4. QED BY <1>1, <2>1, <2>2, <2>3 DEF NumberOf
<1>5. QED BY <1>3, <1>4 DEF NumbersInv

LEMMA NumbersWorker ==
  ASSUME OwnershipInv, SuccessorsInv, ParkedNotIn(Senders), NumbersInv,
         NEW w \in Workers, WorkerStep(w)
  PROVE  NumbersInv'
<1>1. TypeOK /\ ThreadsInv
  BY DEF OwnershipInv
<1>2. /\ UNCHANGED <<started, mon, graveyard>> /\ \A v \in Workers : v # w => pc'[v] = pc[v]
      /\ pc[w] \in Running /\ pc'[w] \in Running \cup {"done"}
  BY <1>1, NumberSteps
<1>3. Live(w) /\ Live(w)' /\ w <= started
  BY <1>1, <1>2 DEF Live, Running, ThreadsInv, TypeOK
<1>4. /\ \A v \in Workers : Current(v)' <=> Current(v)
      /\ pc[w] \in Senders => Current(w)
  BY <1>2, <1>3 DEF Current, Live, ParkedNotIn
<1>5. \A v \in Workers : v # w => (Announced(v)' <=> Announced(v))
  BY <1>2 DEF Announced
<1>6. started \in Nat /\ Margin \in Nat /\ Margin # 0 /\ mon[w] \in Monitors
      /\ frame_high_water[mon[w]] \in Nat
      /\ \A v \in Workers : first_frame[v] \in Nat /\ frame_number[v] \in Nat /\ mon[v] \in Monitors
  BY <1>1 DEF TypeOK
<1>7. /\ \A v \in Workers : NumberOf(v)
      /\ FirstsGrow /\ FrameNumbersGrow
  BY DEF NumbersInv
(* A worker that sends has no started successor, and no other current worker. *)
<1>8. ASSUME pc[w] \in Senders, NEW v \in Workers, v # w, mon[v] = mon[w], first_frame[v] # 0
      PROVE  v < w /\ ~Current(v)
  <2>1. v <= started /\ Current(w)
    BY <1>4, <1>7, <1>8 DEF NumberOf
  <2>2. ~(w < v)
    BY <1>8, <2>1 DEF SuccessorsInv
  <2>3. v < w
    BY <1>8, <2>2
  <2>4. QED BY <1>3, <1>8, <2>3 DEF SuccessorsInv
<1>9. CASE Register(w)
  <2>1. /\ pc[w] = "encoder" /\ pc'[w] = "announce"
        /\ first_frame'[w] = frame_high_water[mon[w]] + Margin
        /\ \A v \in Workers : v # w => first_frame'[v] = first_frame[v]
        /\ UNCHANGED <<frame_number, frame_high_water>>
    BY <1>1, <1>9 DEF Register, RegisterAt, Goto, TypeOK
  <2>2. pc[w] \in Senders
    BY <2>1 DEF Senders
  <2>3. ASSUME NEW v \in Workers PROVE NumberOf(v)'
    <3>1. CASE v # w
      BY <1>2, <1>4, <1>5, <1>7, <2>1, <3>1 DEF NumberOf
    <3>2. CASE v = w
      <4>1. ~Announced(w)'
        BY <2>1 DEF Announced
      <4>2. NumberOf(w)
        BY <1>7
      <4>3. QED BY <1>2, <1>3, <1>6, <2>1, <3>2, <4>1, <4>2 DEF NumberOf
    <3>3. QED BY <3>1, <3>2
  <2>4. \A v \in Workers : LastUsed(v)' = LastUsed(v)
    BY <1>2, <2>1 DEF LastUsed
  <2>5. ASSUME NEW v \in Workers, v # w, mon[v] = mon[w], first_frame[v] # 0
        PROVE  v < w /\ first_frame[v] <= first_frame'[w] /\ LastUsed(v) < first_frame'[w]
    <3>1. v < w /\ ~Current(v)
      BY <1>8, <2>2, <2>5
    <3>2. NumberOf(v)
      BY <1>7
    <3>3. first_frame[v] <= first_frame'[w] /\ frame_number[v] <= first_frame'[w]
      BY <1>6, <2>1, <2>5, <3>2 DEF NumberOf
    <3>4. pc[v] # "store"
      BY <1>1, <1>6, <3>1 DEF Current, Live, ParkedNotIn, Senders, ThreadsInv
    <3>5. QED BY <1>6, <2>1, <3>1, <3>3, <3>4 DEF LastUsed
  <2>6. FirstsGrow'
    <3>1. SUFFICES ASSUME NEW u \in Workers, NEW v \in Workers, u < v, mon[u] = mon[v],
                          first_frame'[u] # 0, first_frame'[v] # 0
                   PROVE  first_frame'[u] <= first_frame'[v]
      BY <1>2 DEF FirstsGrow
    <3>2. CASE u = w BY <2>1, <2>5, <3>1, <3>2
    <3>3. CASE v = w BY <2>1, <2>5, <3>1, <3>3
    <3>4. CASE u # w /\ v # w BY <1>7, <2>1, <3>1, <3>4 DEF FirstsGrow
    <3>5. QED BY <3>2, <3>3, <3>4
  <2>7. FrameNumbersGrow'
    <3>1. SUFFICES ASSUME NEW u \in Workers, NEW v \in Workers, u < v, mon[u] = mon[v],
                          first_frame'[u] # 0, first_frame'[v] # 0
                   PROVE  LastUsed(u) < first_frame'[v]
      BY <1>2, <2>4 DEF FrameNumbersGrow
    <3>2. CASE u = w BY <2>1, <2>5, <3>1, <3>2
    <3>3. CASE v = w BY <2>1, <2>5, <3>1, <3>3
    <3>4. CASE u # w /\ v # w BY <1>7, <2>1, <3>1, <3>4 DEF FrameNumbersGrow
    <3>5. QED BY <3>2, <3>3, <3>4
  <2>8. QED BY <2>3, <2>6, <2>7 DEF NumbersInv
<1>10. CASE Announce(w)
  <2>1. /\ pc[w] = "announce" /\ pc'[w] = "loop"
        /\ frame_number'[w] = first_frame[w]
        /\ \A v \in Workers : v # w => frame_number'[v] = frame_number[v]
        /\ UNCHANGED <<first_frame, frame_high_water>>
    BY <1>1, <1>10 DEF Announce, Goto, TypeOK
  <2>2. ASSUME NEW v \in Workers PROVE NumberOf(v)'
    <3>1. NumberOf(v)
      BY <1>7
    <3>2. CASE v # w
      BY <1>2, <1>4, <1>5, <2>1, <3>1, <3>2 DEF NumberOf
    <3>3. CASE v = w
      BY <1>2, <1>4, <2>1, <3>1, <3>3 DEF NumberOf
    <3>4. QED BY <3>2, <3>3
  <2>3. \A v \in Workers : LastUsed(v)' = IF v = w THEN first_frame[w] - 1 ELSE LastUsed(v)
    BY <1>2, <2>1 DEF LastUsed
  <2>4. FirstsGrow'
    BY <1>2, <1>7, <2>1 DEF FirstsGrow
  <2>5. FrameNumbersGrow'
    <3>1. SUFFICES ASSUME NEW u \in Workers, NEW v \in Workers, u < v, mon[u] = mon[v],
                          first_frame[u] # 0, first_frame[v] # 0
                   PROVE  LastUsed(u)' < first_frame[v]
      BY <1>2, <2>1 DEF FrameNumbersGrow
    <3>2. LastUsed(u) < first_frame[v] /\ first_frame[u] <= first_frame[v]
      BY <1>7, <3>1 DEF FirstsGrow, FrameNumbersGrow
    <3>3. QED BY <1>6, <2>3, <3>2
  <2>6. QED BY <2>2, <2>4, <2>5 DEF NumbersInv
<1>11. CASE StoreFrame(w)
  <2>1. /\ pc[w] = "store" /\ pc'[w] = "loop" /\ first_frame' = first_frame
        /\ frame_number'[w] = frame_number[w] + 1
        /\ \A v \in Workers : v # w => frame_number'[v] = frame_number[v]
        /\ frame_high_water'[mon[w]] = frame_number[w]
        /\ \A m \in Monitors : m # mon[w] => frame_high_water'[m] = frame_high_water[m]
    BY <1>1, <1>11 DEF StoreFrame, Goto, TypeOK
  <2>2. pc[w] \in Senders /\ Announced(w) /\ Announced(w)' /\ NumberOf(w)
    BY <1>7, <2>1 DEF Senders, Announced
  <2>3. frame_high_water[mon[w]] < frame_number[w] /\ first_frame[w] # 0
    BY <1>4, <2>2 DEF NumberOf
  <2>4. ASSUME NEW v \in Workers PROVE NumberOf(v)'
    <3>1. NumberOf(v)
      BY <1>7
    <3>2. CASE mon[v] # mon[w]
      BY <1>2, <1>4, <1>5, <1>6, <2>1, <3>1, <3>2 DEF NumberOf
    <3>3. CASE v # w /\ mon[v] = mon[w]
      <4>1. Current(v)' => first_frame[v] = 0
        BY <1>4, <1>8, <2>2, <3>3
      <4>2. (pc[v] = "announce" \/ Announced(v) => first_frame[v] # 0)
            /\ (first_frame[v] # 0 => v <= started)
            /\ (frame_number[v] # 0 => first_frame[v] # 0)
            /\ first_frame[v] <= frame_high_water[mon[w]] + Margin
            /\ frame_number[v] <= frame_high_water[mon[w]] + Margin
        BY <1>6, <3>1, <3>3 DEF NumberOf
      <4>3. first_frame[v] <= frame_number[w] + Margin /\ frame_number[v] <= frame_number[w] + Margin
        BY <1>6, <2>3, <4>2
      <4>4. QED BY <1>2, <1>5, <2>1, <3>3, <4>1, <4>2, <4>3 DEF NumberOf
    <3>4. CASE v = w
      BY <1>2, <1>3, <1>6, <2>1, <2>2, <2>3, <3>4 DEF NumberOf
    <3>5. QED BY <3>2, <3>3, <3>4
  <2>5. \A v \in Workers : LastUsed(v)' = LastUsed(v)
    BY <1>2, <1>6, <2>1 DEF LastUsed
  <2>6. FirstsGrow' /\ FrameNumbersGrow'
    BY <1>2, <1>7, <2>1, <2>5 DEF FirstsGrow, FrameNumbersGrow
  <2>7. QED BY <2>4, <2>6 DEF NumbersInv
<1>12. CASE ~Register(w) /\ ~Announce(w) /\ ~StoreFrame(w)
  <2>1. /\ UNCHANGED <<first_frame, frame_number, frame_high_water>>
        /\ pc'[w] # "announce" /\ (Announced(w)' => Announced(w))
        /\ pc'[w] = "store" => pc[w] = "frame"
        /\ pc[w] # "store"
    BY <1>1, <1>12, NumberSteps DEF numbers
  <2>2. ASSUME NEW v \in Workers PROVE NumberOf(v)'
    BY <1>2, <1>4, <1>5, <1>7, <2>1 DEF NumberOf
  <2>3. \A v \in Workers : v # w \/ pc'[w] # "store" => LastUsed(v)' = LastUsed(v)
    BY <1>2, <2>1 DEF LastUsed
  <2>4. FirstsGrow'
    BY <1>2, <1>7, <2>1 DEF FirstsGrow
  <2>5. FrameNumbersGrow'
    <3>1. SUFFICES ASSUME NEW u \in Workers, NEW v \in Workers, u < v, mon[u] = mon[v],
                          first_frame[u] # 0, first_frame[v] # 0
                   PROVE  LastUsed(u)' < first_frame[v]
      BY <1>2, <2>1 DEF FrameNumbersGrow
    <3>2. CASE u = w /\ pc'[w] = "store"
      BY <1>8, <2>1, <3>1, <3>2 DEF Senders
    <3>3. CASE u # w \/ pc'[w] # "store"
      BY <1>7, <2>3, <3>1, <3>3 DEF FrameNumbersGrow
    <3>4. QED BY <3>2, <3>3
  <2>6. QED BY <2>2, <2>4, <2>5 DEF NumbersInv
<1>13. QED BY <1>9, <1>10, <1>11, <1>12

LEMMA NumbersKept ==
  ASSUME OwnershipInv, SuccessorsInv, ParkedNotIn(Senders), NumbersInv, [Next]_vars
  PROVE  NumbersInv'
<1>1. TypeOK /\ TypeOK' /\ ThreadsInv
  BY NextType DEF OwnershipInv
<1>2. started \in Nat /\ started' \in Nat
  BY <1>1 DEF TypeOK
<1>3. ASSUME NEW w \in Workers, Joins(w) PROVE NumbersInv'
  BY <1>1, <1>2, <1>3, JoinsFrame, NumbersFrame
<1>4. ASSUME NEW m \in Monitors, StartStream(m) PROVE NumbersInv'
  <2>0. PICK w : w = started + 1
    OBVIOUS
  <2>1. /\ w \in Workers /\ started' = w /\ pc[w] = "free" /\ pc'[w] = "capture"
        /\ \A v \in Workers : v # w => /\ pc'[v] = pc[v] /\ mon'[v] = mon[v]
                                       /\ (Current(v)' <=> Current(v))
        /\ UNCHANGED <<numbers, frame_high_water>>
    BY <1>4, <2>0, StartFrame
  <2>2. /\ UNCHANGED <<first_frame, frame_number, frame_high_water>>
        /\ \A v \in Workers : NumberOf(v)
    BY <2>1 DEF numbers, NumbersInv
  <2>3. first_frame[w] = 0 /\ frame_number[w] = 0
    BY <1>2, <2>0, <2>1, <2>2 DEF NumberOf
  <2>4. ASSUME NEW v \in Workers PROVE NumberOf(v)'
    <3>1. CASE v # w
      <4>1. Announced(v)' = Announced(v)
        BY <2>1, <3>1 DEF Announced
      <4>2. v <= started => v <= started'
        BY <1>2, <2>0, <2>1
      <4>3. QED BY <2>1, <2>2, <3>1, <4>1, <4>2 DEF NumberOf
    <3>2. CASE v = w
      <4>1. pc'[w] # "announce" /\ ~Announced(w)'
        BY <2>1 DEF Announced
      <4>2. mon'[w] \in Monitors /\ frame_high_water'[mon'[w]] \in Nat
        BY <1>1, <2>1 DEF TypeOK
      <4>3. QED BY <2>2, <2>3, <3>2, <4>1, <4>2 DEF NumberOf
    <3>3. QED BY <3>1, <3>2
  <2>5. \A v \in Workers : v # w => LastUsed(v)' = LastUsed(v)
    BY <2>1, <2>2 DEF LastUsed
  <2>6. FirstsGrow' /\ FrameNumbersGrow'
    BY <2>1, <2>2, <2>3, <2>5 DEF NumbersInv, FirstsGrow, FrameNumbersGrow
  <2>7. QED BY <2>4, <2>6 DEF NumbersInv
<1>5. CASE Elsewhere
  BY <1>1, <1>2, <1>5, ElsewhereSteady, NumbersFrame DEF Steady, Current, Live
<1>6. QED BY <1>1, <1>3, <1>4, <1>5, StepKinds, NumbersWorker

(* Who was parked in one of Senders is remembered. *)
LEMMA LateKept ==
  ASSUME OwnershipInv, [Next]_vars
  PROVE  /\ late \subseteq late'
         /\ \A w \in graveyard' \ graveyard : pc[w] \in SlowStages
         /\ late' = {} => \A w \in graveyard' \ graveyard : pc[w] \notin Senders
<1>1. TypeOK /\ ThreadsInv
  BY DEF OwnershipInv
<1>2. ASSUME NEW w \in Workers, WorkerStep(w) PROVE UNCHANGED <<late, graveyard>>
  BY <1>1, <1>2, WorkerFrame DEF hostVars, opVars
<1>3. ASSUME NEW w \in Workers, RetireJoin(w) \/ Reap(w)
      PROVE  late' = late /\ graveyard' \subseteq graveyard
  BY <1>3 DEF RetireJoin, Reap, JoinParked, sharedVars, opVars, hostVars
<1>4. ASSUME NEW w \in Workers, RetireTimeout(w)
      PROVE  /\ graveyard' \ graveyard \subseteq {w} /\ pc[w] \in SlowStages
             /\ late \subseteq late' /\ (late' = {} => pc[w] \notin Senders)
  BY <1>4 DEF RetireTimeout
<1>5. ASSUME NEW m \in Monitors, StartStream(m) PROVE UNCHANGED <<late, graveyard>>
  BY <1>5 DEF StartStream, opVars, sharedVars
<1>6. CASE Elsewhere
  BY <1>6, ElsewhereSteady DEF Steady
<1>7. QED BY <1>1, <1>2, <1>3, <1>4, <1>5, <1>6, StepKinds DEF Joins

(* The frame numbers of a monitor never run backwards over a restart of    *)
(* its stream, late frames included, whichever calls are slow - until      *)
(* retire() gives up on a worker that may still send (HostStreams_late:    *)
(* from then on they may).                                                 *)
THEOREM NumbersGrow == Spec => []NumbersGrowUnlessLate
<1> DEFINE I == SuccessorsInv /\ (late = {} => ParkedNotIn(Senders) /\ NumbersInv)
<1>1. Init => I
  BY DEF Init, SuccessorsInv, Current, Live, ParkedNotIn, NumbersInv, NumberOf, FirstsGrow,
     FrameNumbersGrow, Announced
<1>2. OwnershipInv /\ I /\ [Next]_vars => I'
  <2>1. SUFFICES ASSUME OwnershipInv, I, [Next]_vars PROVE I'
    OBVIOUS
  <2>2. SuccessorsInv'
    BY <2>1, SuccessorsKept
  <2>3. ASSUME late' = {} PROVE (ParkedNotIn(Senders) /\ NumbersInv)'
    <3>1. ParkedNotIn(Senders) /\ NumbersInv
          /\ \A w \in graveyard' \ graveyard : pc[w] \notin Senders
      BY <2>1, <2>3, LateKept
    <3>2. ParkedNotIn(Senders)'
      BY <2>1, <3>1, ParkedKept
    <3>3. QED BY <2>1, <3>1, <3>2, NumbersKept
  <2>4. QED BY <2>2, <2>3
<1>3. I => NumbersGrowUnlessLate
  BY DEF NumbersInv, NumbersGrowUnlessLate
<1>4. QED BY <1>1, <1>2, <1>3, OwnershipInvariant, PTL DEF Spec

-----------------------------------------------------------------------------
(* What the clients are shown, where no stage of Mute is slow. *)

ViewKept == ViewInv' /\ [View!Next]_(View!viewVars)
ViewStill == UNCHANGED <<streams_client_id, shown>>

LEMMA StillView == ViewStill => [View!Next]_(View!viewVars)
  BY DEF ViewStill, View!viewVars

(* Workers that stay as they are or end; the rest stands still. *)
LEMMA ViewFrame ==
  ASSUME ViewInv, UNCHANGED <<conn, op, active_streams, streams_client_id, mon, client, stop, shown>>,
         \A w \in Workers : Current(w)' => Current(w),
         \A w \in Workers : pc'[w] \in Unannounced => pc[w] \in Unannounced
  PROVE  ViewKept
<1>1. CurrentInv'
  BY DEF ViewInv, CurrentInv
<1>2. KindInv' /\ ShownInv'
  BY DEF ViewInv, KindInv, ShownInv
<1>3. PendingInv'
  BY DEF ViewInv, PendingInv
<1>4. QED BY <1>1, <1>2, <1>3, StillView DEF ViewKept, ViewInv, ViewStill

LEMMA ViewWorker ==
  ASSUME OwnershipInv, SuccessorsInv, ParkedNotIn(Mute), ViewInv, NEW w \in Workers, WorkerStep(w)
  PROVE  ViewKept
<1>1. TypeOK /\ ThreadsInv /\ StreamsInv /\ ShutdownInv
  BY DEF OwnershipInv
<1>2. /\ UNCHANGED <<started, mon, graveyard, conn, op, retiring, active_streams,
                     streams_client_id, client, stop>>
      /\ pc[w] \in Running /\ pc'[w] \in Running \cup {"done"}
      /\ \A v \in Workers : v # w => pc'[v] = pc[v]
  BY <1>1, NumberSteps
<1>3. /\ Live(w) /\ \A v \in Workers : Current(v)' <=> Current(v)
  <2>1. Live(w) /\ Live(w)'
    BY <1>1, <1>2 DEF Live, Running, ThreadsInv, TypeOK
  <2>2. QED BY <1>2, <2>1 DEF Current, Live
<1>4. CASE Announce(w)
  <2>1. pc[w] = "announce" /\ pc'[w] = "loop"
        /\ shown' = IF conn[client[w]] = "paired"
                    THEN [shown EXCEPT ![client[w]][mon[w]] = w] ELSE shown
    BY <1>1, <1>4 DEF Announce, Goto, TypeOK
  <2>2. Current(w) /\ client[w] = streams_client_id /\ client[w] \in Clients /\ mon[w] \in Monitors
        /\ shown[client[w]][mon[w]] = NoWorker
        /\ (stop[w] => op.step = "retire" /\ mon[w] \in op.stopped)
    <3>1. Current(w)
      BY <1>3, <2>1 DEF Current, ParkedNotIn, Mute
    <3>2. QED BY <1>1, <2>1, <3>1 DEF ViewInv, CurrentInv, PendingInv, Unannounced, TypeOK
  <2>3. \A v \in Workers : pc'[v] \in Unannounced => v # w /\ pc[v] \in Unannounced
    BY <1>2, <2>1 DEF Unannounced
  <2>4. CASE conn[client[w]] # "paired"
    <3>1. shown' = shown
      BY <2>1, <2>4
    <3>2. QED BY <1>2, <1>3, <2>3, <3>1, ViewFrame
  <2>5. CASE conn[client[w]] = "paired"
    <3>1. shown' = [shown EXCEPT ![streams_client_id][mon[w]] = w]
      BY <2>1, <2>2, <2>5
    <3>2. /\ \A c \in Clients, m \in Monitors :
               shown'[c][m] = IF c = streams_client_id /\ m = mon[w] THEN w ELSE shown[c][m]
      BY <1>1, <2>2, <3>1 DEF TypeOK
    <3>3. active_streams[mon[w]] # NoWorker
          \/ (op.step = "retire" /\ op.kind = "select" /\ mon[w] \in op.stopped)
      <4>1. CASE ~stop[w]
        BY <1>1, <1>3, <4>1 DEF ThreadsInv
      <4>2. CASE stop[w]
        <5>1. op.kind # "disconnect"
          BY <2>2, <2>5 DEF ViewInv, KindInv
        <5>2. op.kind # "quit"
          BY <1>1, <2>2, <2>5 DEF ShutdownInv
        <5>3. op.kind = "select"
          BY <1>1, <5>1, <5>2 DEF TypeOK, Ops
        <5>4. QED BY <2>2, <4>2, <5>3
      <4>3. QED BY <4>1, <4>2
    <3>4. ShownInv'
      BY <1>2, <2>2, <2>5, <3>2, <3>3 DEF ViewInv, ShownInv
    <3>5. CurrentInv' /\ KindInv'
      BY <1>2, <1>3 DEF ViewInv, CurrentInv, KindInv
    <3>6. PendingInv'
      <4>1. SUFFICES ASSUME NEW v \in Workers, Current(v)', pc'[v] \in Unannounced
                     PROVE  shown'[client[v]][mon[v]] = NoWorker
        BY <1>2 DEF PendingInv
      <4>2. v # w /\ pc[v] \in Unannounced /\ Current(v)
        BY <1>3, <2>3, <4>1
      <4>3. mon[v] # mon[w]
        <5>1. v <= started /\ w <= started
          BY <1>3, <4>2 DEF Current, Live
        <5>2. v < w \/ w < v
          BY <4>2
        <5>3. QED BY <2>2, <4>2, <5>1, <5>2 DEF SuccessorsInv
      <4>4. client[v] \in Clients /\ mon[v] \in Monitors /\ shown[client[v]][mon[v]] = NoWorker
        BY <1>1, <4>2 DEF ViewInv, CurrentInv, PendingInv, TypeOK
      <4>5. QED BY <3>2, <4>3, <4>4
    <3>7. View!StreamStarts(mon[w], w)
      BY <1>2, <2>2, <3>1 DEF View!StreamStarts
    <3>8. View!Next
      BY <2>2, <3>7 DEF View!Next
    <3>9. QED BY <3>4, <3>5, <3>6, <3>8 DEF ViewKept, ViewInv
  <2>6. QED BY <2>4, <2>5
<1>5. CASE ~Announce(w)
  <2>1. shown' = shown /\ (pc'[w] \in Unannounced => pc[w] \in Unannounced)
    <3>1. CASE Register(w)
      BY <3>1 DEF Register, RegisterAt, Unannounced
    <3>2. CASE StoreFrame(w)
      BY <1>1, <3>2 DEF StoreFrame, Goto, Unannounced, TypeOK
    <3>3. QED BY <1>1, <1>5, <3>1, <3>2, NumberSteps
  <2>2. QED BY <1>2, <1>3, <2>1, ViewFrame
<1>6. QED BY <1>4, <1>5

LEMMA ViewStart ==
  ASSUME OwnershipInv, ViewInv, NEW m \in Monitors, StartStream(m)
  PROVE  ViewKept
<1>0. PICK w : w = started + 1
  OBVIOUS
<1>1. TypeOK /\ ThreadsInv /\ OpInv
  BY DEF OwnershipInv
<1>2. /\ w \in Workers /\ op.step = "start" /\ active_streams[m] = NoWorker /\ ~stop[w]
      /\ mon'[w] = m /\ client'[w] = op.client /\ active_streams'[m] = w
      /\ \A v \in Workers : v # w => /\ pc'[v] = pc[v] /\ mon'[v] = mon[v] /\ client'[v] = client[v]
                                     /\ (Current(v)' <=> Current(v))
      /\ \A n \in Monitors : n # m => active_streams'[n] = active_streams[n]
      /\ UNCHANGED <<conn, op, streams_client_id, stop, shown>>
  BY <1>0, StartFrame
<1>3. op.client = streams_client_id /\ op.client \in Clients
  <2>1. m \in op.ids
    BY DEF StartStream
  <2>2. QED BY <1>1, <1>2, <2>1 DEF OpInv
<1>4. CurrentInv' /\ KindInv'
  BY <1>2, <1>3 DEF ViewInv, CurrentInv, KindInv
<1>5. ShownInv'
  BY <1>2 DEF ViewInv, ShownInv
<1>6. shown[op.client][m] = NoWorker
  BY <1>2, <1>3 DEF ViewInv, ShownInv
<1>7. PendingInv'
  BY <1>2, <1>6 DEF ViewInv, PendingInv
<1>8. ViewStill
  BY <1>2 DEF ViewStill
<1>9. QED BY <1>4, <1>5, <1>7, <1>8, StillView DEF ViewKept, ViewInv

LEMMA ViewBegins ==
  ASSUME OwnershipInv, ViewInv, Begins
  PROVE  ViewKept
<1>1. TypeOK /\ StreamsInv
  BY DEF OwnershipInv
<1>2. /\ op.step = "idle" /\ op'.step = "retire" /\ op'.stopped \subseteq Streaming
      /\ op'.kind \in {"select", "disconnect", "quit"}
      /\ UNCHANGED <<conn, streams_client_id, started, pc, mon, client, graveyard, shown>>
  BY DEF Begins, NoOp, Ops
<1>3. /\ \A m \in Monitors : active_streams'[m] = IF m \in op'.stopped THEN NoWorker ELSE active_streams[m]
      /\ \A w \in Workers : stop'[w] => stop[w] \/ \E m \in op'.stopped : w = active_streams[m]
  BY DEF Begins, TakeOut
<1>4. \A w \in Workers : Current(w)' <=> Current(w)
  BY <1>2 DEF Current, Live
<1>5. ASSUME NEW w \in Workers, Current(w), stop'[w] PROVE mon[w] \in op'.stopped
  <2>1. ~stop[w]
    BY <1>2, <1>5 DEF ViewInv, CurrentInv
  <2>2. PICK m \in op'.stopped : w = active_streams[m]
    BY <1>3, <1>5, <2>1
  <2>3. m \in Monitors /\ active_streams[m] # NoWorker
    BY <1>2, <2>2 DEF Streaming
  <2>4. QED BY <1>1, <2>2, <2>3 DEF StreamsInv
<1>6. CurrentInv'
  BY <1>2, <1>4, <1>5 DEF ViewInv, CurrentInv
<1>7. KindInv'
  BY <1>2 DEF Begins, KindInv
<1>8. ShownInv'
  <2>1. SUFFICES ASSUME NEW c \in Clients, NEW m \in Monitors, shown[c][m] # NoWorker
                 PROVE  /\ c = streams_client_id /\ conn[c] = "paired"
                        /\ \/ active_streams'[m] # NoWorker
                           \/ op'.step = "retire" /\ op'.kind = "select" /\ m \in op'.stopped
    BY <1>2 DEF ShownInv
  <2>2. c = streams_client_id /\ conn[c] = "paired" /\ active_streams[m] # NoWorker
    BY <1>2, <2>1 DEF ViewInv, ShownInv
  <2>3. op'.kind = "select"
    BY <1>2, <2>2 DEF Begins
  <2>4. QED BY <1>2, <1>3, <2>2, <2>3
<1>9. PendingInv'
  BY <1>2, <1>4 DEF ViewInv, PendingInv
<1>10. QED BY <1>2, <1>6, <1>7, <1>8, <1>9, StillView DEF ViewKept, ViewInv, ViewStill

LEMMA ViewConn ==
  ASSUME OwnershipInv, ViewInv, NEW c \in Clients, Connect(c) \/ Drop(c) \/ BystanderLeaves(c)
  PROVE  ViewKept
<1>1. TypeOK /\ OpInv
  BY DEF OwnershipInv
<1>2. /\ UNCHANGED <<op, active_streams, streams_client_id, started, pc, mon, client, stop, graveyard>>
      /\ \A d \in Clients : d # c => conn'[d] = conn[d]
  BY <1>1 DEF Connect, Drop, BystanderLeaves, opVars, ownerVars, workerVars, sharedVars, TypeOK
<1>3. \A w \in Workers : Current(w)' <=> Current(w)
  BY <1>2 DEF Current, Live
<1>4. CurrentInv'
  BY <1>2, <1>3 DEF ViewInv, CurrentInv
<1>5. CASE Connect(c) \/ BystanderLeaves(c)
  <2>1. shown' = shown /\ conn[c] # "paired"
        /\ (conn[c] = "closed" => op.kind = "select")
    BY <1>5 DEF Connect, BystanderLeaves, sharedVars, NoOp
  <2>2. KindInv'
    BY <1>2, <2>1 DEF ViewInv, KindInv
  <2>3. ShownInv' /\ PendingInv'
    BY <1>2, <1>3, <2>1 DEF ViewInv, ShownInv, PendingInv
  <2>4. QED BY <1>2, <1>4, <2>1, <2>2, <2>3, StillView DEF ViewKept, ViewInv, ViewStill
<1>6. CASE Drop(c)
  <2>1. /\ conn[c] = "paired" /\ conn' = [conn EXCEPT ![c] = "closed"]
        /\ shown' = [shown EXCEPT ![c] = [m \in Monitors |-> NoWorker]]
    BY <1>6 DEF Drop
  <2>2. /\ conn'[c] = "closed"
        /\ \A d \in Clients, m \in Monitors :
             shown'[d][m] = IF d = c THEN NoWorker ELSE shown[d][m]
    BY <1>1, <2>1 DEF TypeOK
  <2>3. KindInv'
    BY <1>2, <2>2 DEF ViewInv, KindInv
  <2>4. ShownInv'
    BY <1>2, <2>2 DEF ViewInv, ShownInv
  <2>5. PendingInv'
    BY <1>1, <1>2, <1>3, <2>2 DEF ViewInv, CurrentInv, PendingInv, TypeOK
  <2>6. View!ClientLeaves(c)
    BY <1>2, <2>1 DEF View!ClientLeaves, View!Nothing
  <2>7. QED BY <1>4, <2>3, <2>4, <2>5, <2>6 DEF ViewKept, ViewInv, View!Next
<1>7. QED BY <1>5, <1>6

LEMMA ViewNotify ==
  ASSUME OwnershipInv, ViewInv, NotifyStopped
  PROVE  ViewKept
<1>1. TypeOK /\ ThreadsInv /\ OpInv
  BY DEF OwnershipInv
<1>2. /\ op.step = "retire" /\ op.kind = "select" /\ retiring = {}
      /\ shown' = [c \in Clients |-> [m \in Monitors |->
                    IF c = streams_client_id /\ m \in op.stopped THEN NoWorker ELSE shown[c][m]]]
      /\ streams_client_id' = op.client /\ op' = [op EXCEPT !.step = "start"]
      /\ UNCHANGED <<conn, active_streams, started, pc, mon, client, stop, graveyard>>
  BY DEF NotifyStopped, Notify, Retired, serverVars, workerVars
<1>3. op'.step = "start" /\ op'.kind = "select"
  BY <1>1, <1>2 DEF TypeOK, Ops
<1>4. /\ \A w \in Workers : Current(w)' <=> Current(w)
      /\ \A w \in Workers : Current(w) => ~stop[w] /\ active_streams[mon[w]] = w
  BY <1>1, <1>2 DEF ThreadsInv, Current, Live
<1>5. \A m \in Monitors : active_streams[m] # NoWorker => op.client = streams_client_id
  BY <1>1, <1>2 DEF OpInv, Streaming
<1>6. CurrentInv'
  BY <1>1, <1>2, <1>4, <1>5 DEF ViewInv, CurrentInv, TypeOK
<1>7. KindInv'
  BY <1>3 DEF KindInv
<1>8. /\ \A c \in Clients, m \in Monitors : shown'[c][m] # NoWorker =>
           /\ shown'[c][m] = shown[c][m] /\ c = streams_client_id /\ conn[c] = "paired"
           /\ active_streams[m] # NoWorker
  BY <1>2 DEF ViewInv, ShownInv
<1>9. ShownInv'
  BY <1>2, <1>5, <1>8 DEF ShownInv
<1>10. PendingInv'
  BY <1>1, <1>2, <1>4, <1>8 DEF ViewInv, CurrentInv, PendingInv, TypeOK
<1>11. CASE op.client # streams_client_id
  <2>1. op.client \in Clients
    BY <1>2, <1>11 DEF ViewInv, KindInv
  <2>2. shown' = [d \in Clients |-> IF d = streams_client_id THEN View!Nothing ELSE shown[d]]
    <3>1. \A m \in Monitors : active_streams[m] = NoWorker
      BY <1>5, <1>11
    <3>2. \A d \in Clients : shown[d] = [m \in Monitors |-> shown[d][m]]
      BY <1>1 DEF TypeOK
    <3>3. \A d \in Clients : d # streams_client_id => shown'[d] = shown[d]
      BY <1>2, <3>2
    <3>4. streams_client_id \in Clients => shown'[streams_client_id] = View!Nothing
      BY <1>2, <1>8, <3>1 DEF View!Nothing
    <3>5. QED BY <1>2, <3>3, <3>4
  <2>3. View!TakeOver(op.client)
    BY <1>2, <2>2 DEF View!TakeOver
  <2>4. QED BY <1>6, <1>7, <1>9, <1>10, <2>1, <2>3 DEF ViewKept, ViewInv, View!Next
<1>12. CASE op.client = streams_client_id /\ streams_client_id \in Clients
  <2>1. op.stopped \in SUBSET Monitors
    BY <1>1 DEF TypeOK, Ops
  <2>2. \A d \in Clients : shown[d] = [m \in Monitors |-> shown[d][m]]
    BY <1>1 DEF TypeOK
  <2>3. shown' = [shown EXCEPT ![streams_client_id] =
                    [m \in Monitors |-> IF m \in op.stopped THEN NoWorker ELSE @[m]]]
    BY <1>1, <1>2, <2>2 DEF TypeOK
  <2>4. View!StreamsStop(op.stopped)
    BY <1>2, <1>12, <2>3 DEF View!StreamsStop
  <2>5. QED BY <1>6, <1>7, <1>9, <1>10, <2>1, <2>4 DEF ViewKept, ViewInv, View!Next
<1>13. CASE op.client = streams_client_id /\ streams_client_id \notin Clients
  <2>1. \A d \in Clients : shown[d] = [m \in Monitors |-> shown[d][m]]
    BY <1>1 DEF TypeOK
  <2>2. shown' = shown
    BY <1>1, <1>2, <1>13, <2>1 DEF TypeOK
  <2>3. QED BY <1>2, <1>6, <1>7, <1>9, <1>10, <1>13, <2>2, StillView DEF ViewKept, ViewInv, ViewStill
<1>14. QED BY <1>11, <1>12, <1>13

LEMMA ViewEnds ==
  ASSUME OwnershipInv, ViewInv, EndOp \/ OwnerLeft \/ StreamsStopped
  PROVE  ViewKept
<1>1. TypeOK /\ ThreadsInv /\ OpInv /\ ShutdownInv
  BY DEF OwnershipInv
<1>2. /\ op' = NoOp /\ retiring = {}
      /\ UNCHANGED <<active_streams, streams_client_id, started, pc, mon, client, stop,
                     graveyard, shown>>
  BY <1>1 DEF EndOp, OwnerLeft, StreamsStopped, Retired, OpInv, ownerVars, workerVars, sharedVars
<1>3. /\ \A w \in Workers : Current(w)' <=> Current(w)
      /\ \A w \in Workers : Current(w) => ~stop[w]
  BY <1>1, <1>2 DEF ThreadsInv, Current, Live
<1>4. CurrentInv' /\ KindInv' /\ PendingInv'
  BY <1>2, <1>3 DEF ViewInv, CurrentInv, KindInv, PendingInv, NoOp
<1>5. ShownInv'
  <2>1. CASE EndOp
    BY <1>2, <2>1 DEF EndOp, ViewInv, ShownInv, serverVars
  <2>2. CASE OwnerLeft
    <3>1. op.kind = "disconnect" /\ op.step = "retire"
      BY <2>2 DEF OwnerLeft, Retired
    <3>2. \A c \in Clients, m \in Monitors : shown[c][m] = NoWorker
      BY <3>1 DEF ViewInv, KindInv, ShownInv
    <3>3. QED BY <1>2, <3>2 DEF ShownInv
  <2>3. CASE StreamsStopped
    <3>1. op.kind = "quit" /\ op.step = "retire"
      BY <2>3 DEF StreamsStopped, Retired
    <3>2. \A c \in Clients, m \in Monitors : shown[c][m] = NoWorker
      BY <1>1, <3>1 DEF ShutdownInv, ViewInv, ShownInv
    <3>3. QED BY <1>2, <3>2 DEF ShownInv
  <2>4. QED BY <2>1, <2>2, <2>3
<1>6. QED BY <1>2, <1>4, <1>5, StillView DEF ViewKept, ViewInv, ViewStill

LEMMA ViewNext ==
  ASSUME OwnershipInv, SuccessorsInv, ParkedNotIn(Mute), ViewInv, [Next]_vars
  PROVE  ViewKept
<1>1. TypeOK
  BY DEF OwnershipInv
<1>2. ASSUME NEW w \in Workers, Joins(w) PROVE ViewKept
  BY <1>2, JoinsFrame, ViewFrame DEF Unannounced
<1>3. CASE Retunes
  BY <1>3, ViewFrame DEF Retunes, RetuneStreams, RetuneAmong, serverVars, opVars, sharedVars,
     Current, Live
<1>4. CASE Aside
  BY <1>4, ViewFrame DEF Aside, ownerVars, workerVars, Current, Live
<1>5. CASE Elsewhere
  BY <1>3, <1>4, <1>5, ViewBegins, ViewConn, ViewNotify, ViewEnds DEF Elsewhere, ConnStep, OpMoves
<1>6. QED BY <1>1, <1>2, <1>5, StepKinds, ViewWorker, ViewStart

(* The host keeps the promise of ExclusiveViewing: one owner at a time is  *)
(* given streams, and is told of every stop before the next one takes over *)
(* - where retire() never gives up on a worker that is still to announce   *)
(* its stream (capture calls may be slow, before and after).               *)
THEOREM ViewRefined ==
  ASSUME SlowStages \cap Mute = {}
  PROVE  Spec => ExclusiveView
<1> DEFINE I == SuccessorsInv /\ ParkedNotIn(Mute) /\ ViewInv
<1>1. Init => I
  BY DEF Init, SuccessorsInv, Current, Live, ParkedNotIn, ViewInv, CurrentInv, KindInv, ShownInv,
     PendingInv, NoOp
<1>2. OwnershipInv /\ I /\ [Next]_vars => I' /\ [View!Next]_(View!viewVars)
  BY SuccessorsKept, ParkedKept, LateKept, ViewNext DEF ViewKept
<1>3. Init => View!Init
  BY DEF Init, View!Init, View!Nothing
<1>4. QED BY <1>1, <1>2, <1>3, OwnershipInvariant, PTL DEF Spec, ExclusiveView, View!Spec
=============================================================================
