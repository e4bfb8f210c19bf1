---------------------------- MODULE StreamPipeline ----------------------------
(* The loop of a stream worker (host/src/main.cpp, stream_worker): a picture *)
(* captured, the settings and the link's share applied to the encoder, the   *)
(* picture paced, encoded and sent, and a still screen's last picture sent   *)
(* again, with the capture in use (Capturing) and the encoder (Encoding).    *)
(* Between the loop's two steps the desktop changes, the client asks for         *)
(* keyframes and new settings, the link's share moves, and time passes.      *)
EXTENDS Capturing, Encoding

CONSTANTS
    Settings,      \* the client's settings: records of kbps and fps
    FirstSetting,  \* those of its START_STREAM
    RefineFrames,  \* kRefineFrames (30)
    Budget         \* bound: changes and faults from outside

ASSUME PipelineAssumption ==
    /\ Settings \subseteq [kbps : Nat \ {0}, fps : Nat \ {0}]
    /\ FirstSetting \in Settings
    /\ {RefineFrames, Budget} \subseteq Nat

VARIABLES
    pc,         \* "acquire", "send", "lost" (a second's pause), "gone"
    frame,      \* the picture acquired, or NoFrame
    lastFrame,  \* last_frame, NoFrame once moved from
    unsent,     \* last_frame_unsent
    refine,     \* refine_left
    force,      \* ctx->force_keyframe
    idrDue,     \* 200 ms (kIdrGap) have passed since last_idr
    sentAge,    \* since last_sent: "new", "due" (min_interval), "second"
    changed,    \* ctx->cfg_changed
    setting,    \* ctx->new_cfg
    ceiling,    \* ceil_kbps, fps_cap
    share,      \* link_rate_scale(), in halves
    encConfig,  \* enc_config
    autoTune,   \* auto_tune
    sent,       \* packets, which live as long as one turn of the loop
    asks,       \* (history) keyframes asked for
    answered,   \* (history) of which a keyframe sent carries a later picture
    shown,      \* (history) the picture last sent
    left        \* what is left of Budget

frames == <<frame, lastFrame, unsent, refine>>
idr == <<force, idrDue, asks>>
settings == <<changed, setting>>
tuning == <<ceiling, encConfig, autoTune>>
output == <<sent, answered, shown>>
pipelineVars == <<desktop, capture, enc, pc, frames, idr, sentAge, settings, tuning, share, output, left>>

PipelineTypeOK ==
    /\ CapturingTypeOK
    /\ enc \in Encoder(Inputs(Nat, 0..asks))
    /\ pc \in {"acquire", "send", "lost", "gone"}
    /\ frame \in Nat /\ lastFrame \in Nat /\ unsent \in BOOLEAN /\ refine \in 0..RefineFrames
    /\ force \in BOOLEAN /\ idrDue \in BOOLEAN /\ sentAge \in {"new", "due", "second"}
    /\ changed \in BOOLEAN /\ setting \in Settings /\ ceiling \in Settings /\ share \in {1, 2}
    /\ encConfig \in Configs /\ autoTune \in BOOLEAN
    /\ sent \in Seq(Units(Nat, 0..asks)) /\ asks \in Nat /\ answered \in 0..asks /\ shown \in Nat
    /\ left \in 0..Budget

PipelineInit ==
    /\ InitCapturing
    /\ setting = FirstSetting /\ ceiling = setting /\ encConfig = setting /\ share = 2
    /\ enc \in Encoders(IF source = "wgc" THEN "windows" ELSE "linux", encConfig)
    /\ pc = "acquire"
    /\ frame = NoFrame /\ lastFrame = NoFrame /\ unsent = FALSE /\ refine = 0
    /\ force = TRUE /\ idrDue = TRUE /\ asks = 1 /\ answered = 0
    /\ sentAge = "second" /\ changed = FALSE /\ autoTune = TRUE
    /\ sent = <<>> /\ shown = NoFrame /\ left = Budget

(***************************************************************************)
(* retune()                                                                *)
(***************************************************************************)
Wanted(c) == [kbps |-> (c.kbps * share) \div 2, fps |-> c.fps]

(* An automatic raise waits until it adds up.                               *)
Minor(c, top) ==
    LET cur == encConfig.kbps IN
    IF c.kbps >= cur THEN c.kbps = cur \/ (c.kbps * 4 < cur * 5 /\ c.kbps # top)
    ELSE c.kbps * 20 > cur * 19

Skipped(c, top, forced) ==
    \/ c.fps = encConfig.fps /\ (IF forced THEN c.kbps = encConfig.kbps ELSE Minor(c, top))
    \/ ~forced /\ ~autoTune

(* The outcomes with the settings that took effect, or none.                *)
Took(os, c) == {[enc |-> o.enc, cost |-> o.cost, ok |-> o.result, live |-> c] : o \in os}

Retry(c, o) ==
    IF o.ok \/ c.fps = encConfig.fps THEN {o}
    ELSE LET kept == [c EXCEPT !.fps = encConfig.fps] IN Took(Reconfigure(o.enc, kept), kept)

Reinitialized(c, o) == IF o.ok THEN {o} ELSE Took(MfInitialize(o.enc, c), c)

Retunes(c, forced) ==
    LET tried == UNION {Retry(c, o) : o \in Took(Reconfigure(enc, c), c)}
    IN  IF forced THEN UNION {Reinitialized(c, o) : o \in tried} ELSE tried

(* Only a forced retune that cannot re-open the encoder ends the stream.    *)
Retune(top, forced) ==
    LET c == Wanted(top) IN
    IF Skipped(c, top.kbps, forced)
    THEN pc' = "send" /\ UNCHANGED <<enc, encConfig, autoTune, left>>
    ELSE \E o \in Retunes(c, forced) :
            /\ o.cost <= left /\ left' = left - o.cost
            /\ enc' = o.enc
            /\ encConfig' = IF o.ok THEN o.live ELSE encConfig
            /\ autoTune' = (autoTune /\ (o.ok \/ forced))
            /\ pc' = IF forced /\ ~o.ok THEN "gone" ELSE "send"

TakeSettings ==
    /\ changed
    /\ changed' = FALSE
    /\ ceiling' = setting
    /\ Retune(setting, TRUE)
    /\ UNCHANGED setting

(* Every 500 ms, or not yet.                                                *)
Tune ==
    /\ ~changed
    /\ \/ Retune(ceiling, FALSE)
       \/ pc' = "send" /\ UNCHANGED <<enc, encConfig, autoTune, left>>
    /\ UNCHANGED <<settings, ceiling>>

(* The first half of a turn.                                                *)
Acquire ==
    /\ pc = "acquire"
    /\ AcquireFrame(frame')
    /\ sent' = <<>>
    /\ TakeSettings \/ Tune
    /\ UNCHANGED <<lastFrame, unsent, refine, idr, sentAge, share, answered, shown>>

(***************************************************************************)
(* What the loop does with the frame, or without one                       *)
(***************************************************************************)
Due == sentAge # "new"
Forcing == force /\ idrDue

OnlyHeld ==    \* mutant
    frame = NoFrame /\ IsCapturing /\ lastFrame # NoFrame /\ unsent /\ Due

(* An idle capture: the last frame is due again.                            *)
Again ==
    /\ frame = NoFrame /\ IsCapturing /\ lastFrame # NoFrame
    /\ \/ (unsent \/ refine > 0) /\ Due
       \/ Forcing
       \/ sentAge = "second"

Next2Send == IF Again THEN lastFrame ELSE frame

(* Nothing to send; a capture that stopped is started again after a second. *)
NothingToSend ==
    /\ pc = "send"
    /\ Next2Send = NoFrame
    /\ pc' = IF IsCapturing THEN "acquire" ELSE "lost"
    /\ UNCHANGED <<desktop, capture, enc, frames, idr, sentAge, settings, tuning, share, output, left>>

Recapture ==
    /\ pc = "lost"
    /\ StartCapture
    /\ pc' = "acquire"
    /\ UNCHANGED <<enc, frames, idr, sentAge, settings, tuning, share, output, left>>

(* Too soon after the last one: kept for later.                             *)
Hold ==
    /\ pc = "send"
    /\ Next2Send # NoFrame /\ ~Due
    /\ lastFrame' = Next2Send /\ unsent' = TRUE /\ frame' = NoFrame
    /\ pc' = "acquire"
    /\ UNCHANGED <<desktop, capture, enc, refine, idr, sentAge, settings, tuning, share, output, left>>

Refined(resend, isKey) ==
    IF enc.backend = "mjpeg" THEN 0
    ELSE IF ~resend \/ isKey THEN RefineFrames
    ELSE IF refine > 0 THEN refine - 1 ELSE 0

Keys(units) == {i \in DOMAIN units : units[i].key}

(* The units of one encode() call go out, under one frame number.           *)
SendUnits(units) ==
    /\ sent' = units
    /\ answered' = LET S == {answered} \cup {units[i].asks : i \in Keys(units)}
                   IN  CHOOSE n \in S : \A m \in S : m <= n
    /\ IF units = <<>> THEN UNCHANGED <<shown, sentAge>>
       ELSE shown' = units[Len(units)].picture /\ sentAge' = "new"

Forget ==    \* mutant
    force' = FALSE /\ idrDue' = (idrDue /\ ~force)

ForceKeyframe ==
    IF Forcing THEN force' = FALSE /\ idrDue' = FALSE ELSE UNCHANGED <<force, idrDue>>

EncodeAndSend ==
    /\ pc = "send"
    /\ Next2Send # NoFrame /\ Due
    /\ ForceKeyframe
    /\ \E o \in Encode(IF Forcing THEN RequestKeyframe(enc) ELSE enc,
                       [picture |-> Next2Send, asks |-> asks]) :
          /\ o.cost <= left /\ left' = left - o.cost
          /\ enc' = o.enc
          /\ SendUnits(o.result)
          /\ refine' = Refined(Again /\ ~unsent, Keys(o.result) # {})
    /\ lastFrame' = Next2Send /\ unsent' = FALSE /\ frame' = NoFrame
    /\ pc' = "acquire"
    /\ UNCHANGED <<desktop, capture, asks, settings, tuning, share>>

Loop == Acquire \/ NothingToSend \/ Recapture \/ Hold \/ EncodeAndSend

(* What a step of the loop does to pc: nothing else changes it, and there is *)
(* always such a step, for every call has an outcome without a fault.        *)
Turns ==
    \/ pc = "acquire" /\ pc' \in {"send", "gone"}
    \/ pc = "send" /\ pc' \in {"acquire", "lost"}
    \/ pc = "lost" /\ pc' = "acquire"

(***************************************************************************)
(* Around the worker                                                       *)
(***************************************************************************)
worker == <<pc, frames, force, idrDue, asks, sentAge, settings, tuning, share, output>>

Desktop ==
    /\ left > 0 /\ left' = left - 1
    /\ ScreenChanges \/ ModeChanges \/ Unplugged
    /\ UNCHANGED <<enc, worker>>

Plug == Replugged /\ UNCHANGED <<enc, worker, left>>

(* REQUEST_KEYFRAME                                                         *)
AskKeyframe ==
    /\ left > 0 /\ left' = left - 1
    /\ force' = TRUE /\ asks' = asks + 1
    /\ UNCHANGED <<desktop, capture, enc, pc, frames, idrDue, sentAge, settings, tuning, share, output>>

(* STREAM_CONFIG                                                            *)
NewSettings ==
    /\ left > 0 /\ left' = left - 1
    /\ setting' \in Settings \ {setting} /\ changed' = TRUE
    /\ UNCHANGED <<desktop, capture, enc, pc, frames, idr, sentAge, tuning, share, output>>

ShareMoves ==
    /\ left > 0 /\ left' = left - 1
    /\ share' = 3 - share
    /\ UNCHANGED <<desktop, capture, enc, pc, frames, idr, sentAge, settings, tuning, output>>

IntervalPasses ==
    /\ sentAge = "new" /\ sentAge' = "due"
    /\ UNCHANGED <<desktop, capture, enc, pc, frames, idr, settings, tuning, share, output, left>>

SecondPasses ==
    /\ sentAge = "due" /\ sentAge' = "second"
    /\ UNCHANGED <<desktop, capture, enc, pc, frames, idr, settings, tuning, share, output, left>>

IdrGapPasses ==
    /\ ~idrDue /\ idrDue' = TRUE
    /\ UNCHANGED <<desktop, capture, enc, pc, frames, force, asks, sentAge, settings, tuning, share,
                   output, left>>

Transform == MftWorks /\ UNCHANGED <<desktop, capture, worker, left>>
Backoff == BackoffEnds /\ UNCHANGED <<desktop, capture, worker, left>>

PipelineNext ==
    \/ Loop
    \/ Desktop \/ Plug
    \/ AskKeyframe \/ NewSettings \/ ShareMoves
    \/ IntervalPasses \/ SecondPasses \/ IdrGapPasses
    \/ Transform \/ Backoff

(* The worker runs, clocks go on, and the transform finishes its pictures.   *)
(* (WF_pc(Turns) is WF(Loop), which takes much longer to evaluate.)          *)
PipelineSpec ==
    /\ PipelineInit /\ [][PipelineNext]_pipelineVars
    /\ WF_pc(Turns)
    /\ WF_pipelineVars(IntervalPasses) /\ WF_pipelineVars(SecondPasses) /\ WF_pipelineVars(IdrGapPasses)
    /\ WF_pipelineVars(Transform) /\ WF_pipelineVars(Backoff)

(***************************************************************************)
(* Properties                                                              *)
(***************************************************************************)
Over == pc = "gone" \/ ~plugged

(* The picture on the screen reaches the client, also when it is the last    *)
(* for long: a frame held back by the pacing, dropped by the encoder, kept   *)
(* inside it, or lost with a capture or a session that failed is made up for *)
(* (main.cpp, the idle re-send, the refinement and the 1 s keepalive). Not   *)
(* when a fallback capture lost its monitor, which nobody notices: Frozen.   *)
StillScreenSent == []<>(shown = screen \/ Over \/ Frozen)

(* Every keyframe the client asks for comes, with a picture no older than    *)
(* the request: the gap between two IDRs delays a request, and a capture     *)
(* with nothing new, a full transform, a failed session or a re-opened one   *)
(* do not lose it.                                                           *)
IdrAnswered == []<>(answered = asks \/ Over \/ Frozen)

(* "Any frame the client happens to receive first can configure the        *)
(* decoder" (mf_encoder.cpp:804-805): each keyframe carries the parameter  *)
(* sets of the session that made it, never those of one before a re-open,  *)
(* a change of backend or a renegotiation, unless a transform had shown    *)
(* the host none to put into it.                                           *)
KeyframesSelfContained == \A i \in Keys(sent) : sent[i].params = sent[i].of \/ sent[i].withheld

(* Without parameter sets of its own a keyframe carries none:              *)
(* header_annexb_ is looked at again when they "may have changed"          *)
(* (mf_encoder.cpp:758) and is always the session's. Not so in the code:   *)
(* TLC refutes it.                                                         *)
ParametersNotStale == \A i \in Keys(sent) : sent[i].params \in {None, sent[i].of}
===============================================================================
