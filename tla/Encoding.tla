------------------------------- MODULE Encoding -------------------------------
(* One stream's video encoder (encoder/encoder.h): software MJPEG            *)
(* (encoder.cpp), FFmpeg on Linux (ffmpeg_encoder.cpp) or a Media Foundation *)
(* transform on Windows (mf_encoder.cpp). The encoder is a record; each of   *)
(* its calls is the set of its outcomes, a record with the encoder after the *)
(* call, what the call returns, and what it costs of the bound on faults.    *)
EXTENDS Naturals, Sequences

CONSTANT MftDepth   \* pictures a Media Foundation transform takes in at once

ASSUME EncodingAssumption == MftDepth \in Nat \ {0, 1}

VARIABLE enc
(* backend: "mjpeg", "libx264", "vaapi" or "mf"      config: config_           *)
(* session: the session, or since a renegotiation the parameter sets, in use; *)
(*          0 while there is none              opened: the last one           *)
(* fresh:   it produced no picture yet (frame_count_ = 0)                      *)
(* key:     force_keyframe_                    header: whose parameter sets    *)
(*          header_ or header_annexb_ holds, or 0                              *)
(* backoff: FFmpeg waits for next_reopen_                                      *)
(* MF: async and tunable (ICodecAPI takes a bitrate) of the transform, lag the *)
(* pictures it keeps until more come, forced its ForceKeyFrame, held its      *)
(* pictures, done how many of them it has encoded (METransformHaveOutput),    *)
(* stale (history): header is that of an output type before the last          *)
(* renegotiation, whose own type showed none                                  *)

None == 0

NewEncoder(b, c) ==
    [backend |-> b, config |-> c, session |-> 1, opened |-> 1, fresh |-> TRUE,
     key |-> TRUE, header |-> None, backoff |-> FALSE,
     async |-> FALSE, tunable |-> TRUE, lag |-> 0, forced |-> FALSE,
     held |-> <<>>, done |-> 0, stale |-> FALSE]

Configs == [kbps : Nat, fps : Nat]
Inputs(pictures, asked) == [picture : pictures, asks : asked]

(* Encoders whose pictures in progress are of the inputs given.             *)
Encoder(inputs) ==
    [backend : {"mjpeg", "libx264", "vaapi", "mf"}, config : Configs, session : Nat,
     opened : Nat \ {0}, fresh : BOOLEAN, key : BOOLEAN, header : Nat, backoff : BOOLEAN,
     async : BOOLEAN, tunable : BOOLEAN, lag : {0, 1}, forced : BOOLEAN,
     held : Seq([input : inputs, key : BOOLEAN]), done : Nat, stale : BOOLEAN]

(* FFmpeg's candidates: NVENC behaves as libx264 here.                      *)
Candidates == {"vaapi", "libx264"}

FfmpegInitialize(c) == {NewEncoder(b, c) : b \in Candidates}

(* The transforms found: hardware ones are asynchronous, and take a new     *)
(* bitrate while they run. Each has ICodecAPI.                              *)
Transforms ==
    [async : BOOLEAN, tunable : BOOLEAN, lag : {0, 1}] \ [async : {TRUE}, tunable : {FALSE}, lag : {0, 1}]

(* The header after _capture_sequence_header(): what it was, when the       *)
(* output type has no parameter sets (yet).                                 *)
CapturedFrom(h, s) == {h, s}
Negotiated(s) == CapturedFrom(None, s)

NewTransform(e, t, h) ==
    [e EXCEPT !.async = t.async, !.tunable = t.tunable, !.lag = t.lag, !.header = h]

NewTransforms(c) ==
    {NewTransform(NewEncoder("mf", c), t, h) : t \in Transforms, h \in Negotiated(1)}

(* The encoder the worker opens first, of those its platform has.           *)
Encoders(platform, c) ==
    {NewEncoder("mjpeg", c)} \cup
    (IF platform = "windows" THEN NewTransforms(c) ELSE FfmpegInitialize(c))

(* An access unit: its picture, whether it is a keyframe, the session it    *)
(* belongs to, the one whose parameter sets are in it, and (history) how    *)
(* many keyframes had been asked for when its picture came in, and whether  *)
(* it came without parameter sets and the transform had shown none to add.  *)
Unit(input, isKey, of, params, withheld) ==
    [picture |-> input.picture, asks |-> input.asks, key |-> isKey, of |-> of, params |-> params,
     withheld |-> withheld]

Units(pictures, asked) ==
    [picture : pictures, asks : asked, key : BOOLEAN, of : Nat, params : Nat, withheld : BOOLEAN]

Outcome(e, r, cost) == [enc |-> e, result |-> r, cost |-> cost]

RequestKeyframe(e) == IF e.backend = "mjpeg" THEN e ELSE [e EXCEPT !.key = TRUE]

(***************************************************************************)
(* MJPEG: every frame stands alone.                                        *)
(***************************************************************************)
MjpegEncode(e, input) ==
    {Outcome(e, <<Unit(input, TRUE, 1, 1, FALSE)>>, 0), Outcome(e, <<>>, 1)}

(***************************************************************************)
(* FFmpeg: a failed session is closed, and encode() opens another later.   *)
(***************************************************************************)
Open(e, b) ==
    [e EXCEPT !.backend = b, !.session = e.opened + 1, !.opened = @ + 1,
              !.fresh = TRUE, !.key = TRUE]

Fail(e) == [e EXCEPT !.session = None, !.backoff = TRUE]

(* The first candidate that opens, or none: the next try is 2 s away.       *)
Reopen(e) ==
    IF e.backoff THEN {Outcome(e, <<>>, 0)}
    ELSE {Outcome(Open(e, b), <<>>, 0) : b \in Candidates} \cup
         {Outcome([e EXCEPT !.backoff = TRUE], <<>>, 1)}

KeepFirst(e) == IF e.header = None THEN [e EXCEPT !.header = e.session] ELSE e    \* mutant

(* A driver may leave the parameter sets out of any keyframe but a          *)
(* session's first: ensure_parameter_sets() keeps them, and puts them in.   *)
KeepHeader(e) == [e EXCEPT !.header = e.session]

WithParameterSets(e, input, inBand) ==
    IF inBand THEN Outcome(KeepHeader(e), <<Unit(input, TRUE, e.session, e.session, FALSE)>>, 0)
    ELSE Outcome(e, <<Unit(input, TRUE, e.session, e.header, FALSE)>>, 0)

FfmpegPicture(e, input) ==
    LET sent == [e EXCEPT !.key = FALSE]     \* force_keyframe_ is spent before send_frame
        coded == [sent EXCEPT !.fresh = FALSE]
    IN  {Outcome(Fail(sent), <<>>, 1)} \cup
        (IF e.backend = "vaapi" THEN {Outcome(Fail(e), <<>>, 1)} ELSE {}) \cup   \* the GPU upload
        IF e.key
        THEN {WithParameterSets(coded, input, inBand) : inBand \in {TRUE, e.fresh}}
        ELSE {Outcome(coded, <<Unit(input, FALSE, e.session, None, FALSE)>>, 0)}

FfmpegEncode(e, input) ==
    IF e.session # None THEN FfmpegPicture(e, input)
    ELSE UNION {IF o.enc.session = None THEN {o} ELSE FfmpegPicture(o.enc, input) : o \in Reopen(e)}

(* VAAPI fixes the rate control when it opens.                              *)
FfmpegReconfigure(e, c) ==
    LET set == [e EXCEPT !.config = c] IN
    IF e.session = None \/ e.backend = "libx264" THEN {Outcome(set, TRUE, 0)}
    ELSE {Outcome(Open(set, "vaapi"), TRUE, 0), Outcome(Fail(set), TRUE, 1)}

(***************************************************************************)
(* Media Foundation                                                        *)
(***************************************************************************)
(* _shutdown(), then everything anew; the media type may already hold the   *)
(* parameter sets. A failure leaves no encoder.                             *)
MfInitialize(e, c) ==
    LET s == e.opened + 1 IN
    {Outcome([e EXCEPT !.config = c, !.session = s, !.opened = s, !.fresh = TRUE, !.key = TRUE,
                       !.header = h, !.forced = FALSE, !.held = <<>>, !.done = 0, !.stale = FALSE], TRUE, 0) :
        h \in Negotiated(s)} \cup
    {Outcome([e EXCEPT !.session = None], FALSE, 1)}

ForceKeyframeNow(e) ==
    IF e.key THEN [e EXCEPT !.forced = TRUE, !.key = FALSE] ELSE e

(* The transform takes the picture; the first, or a forced one, is an IDR.  *)
ProcessInput(e, input) ==
    LET isKey == e.forced \/ (e.fresh /\ e.held = <<>>) IN
    [e EXCEPT !.held = Append(@, [input |-> input, key |-> isKey]), !.forced = FALSE]

(* METransformNeedInput came within 100 ms.                                 *)
HasCredit(e) == Len(e.held) - e.done < MftDepth

(* MF_E_TRANSFORM_STREAM_CHANGE: another type, with its own parameter sets.  *)
(* If it does not show them, _capture_sequence_header() keeps the old ones,  *)
(* and nobody asks again: only an empty header_annexb_ is asked for.         *)
Renegotiated(e) ==
    LET s == e.opened + 1 IN
    {[e EXCEPT !.session = s, !.opened = s, !.header = h, !.stale = h \notin {None, s}] :
        h \in CapturedFrom(e.header, s)}

(* The parameter sets cached at the i-th output, when the type shows them   *)
(* from output number shows on.                                             *)
Captured(e, i, shows) == IF e.header = None /\ shows <= i THEN e.session ELSE e.header

(* What the i-th output becomes: parameter sets go in where the unit has    *)
(* none. Only a keyframe's are kept here.                                   *)
OutputUnit(e, i, inBand, shows) ==
    LET h == Captured(e, i, shows)
        key(params, withheld) == Unit(e.held[i].input, TRUE, e.session, params, withheld)
    IN  IF ~(e.held[i].key \/ (e.fresh /\ i = 1)) THEN Unit(e.held[i].input, FALSE, e.session, None, FALSE)
        ELSE IF inBand THEN key(e.session, FALSE) ELSE key(h, h = None \/ e.stale)

(* ProcessOutput n times.                                                   *)
AfterOutputs(e, n, shows) ==
    [e EXCEPT !.header = Captured(e, n, shows), !.held = SubSeq(@, n + 1, Len(@)),
              !.fresh = @ /\ n = 0, !.done = 0]

Outputs(e, n, inBand, shows) ==
    Outcome(AfterOutputs(e, n, shows), [i \in 1..n |-> OutputUnit(e, i, inBand, shows)], 0)

ProcessOutputs(e, n) == {Outputs(e, n, inBand, shows) : inBand \in BOOLEAN, shows \in 1..(n + 1)}

(* An asynchronous transform is left with what it has not finished in time. *)
Emissions(e) ==
    IF Len(e.held) <= e.lag THEN {0}
    ELSE IF e.async THEN e.done..(Len(e.held) - e.lag) ELSE {Len(e.held) - e.lag}

Emit(e, cost) ==
    {[o EXCEPT !.cost = cost] : o \in UNION {ProcessOutputs(e, n) : n \in Emissions(e)}}

Fed(e, input) ==
    {Outcome(IF HasCredit(e) THEN ProcessInput(e, input) ELSE e, <<>>, 0),
     Outcome(e, <<>>, 1)}

MfEncode(e, input) ==
    UNION {Emit(o.enc, o.cost) \cup (IF o.enc.held = <<>> THEN {} ELSE UNION {Emit(r, 1) : r \in Renegotiated(o.enc)}) :
              o \in Fed(ForceKeyframeNow(e), input)}

(* The bitrate changes while it runs, the frame rate does not.              *)
MfReconfigure(e, c) ==
    IF e.tunable /\ c.fps = e.config.fps
    THEN {Outcome([e EXCEPT !.config = c], TRUE, 0)}
    ELSE {Outcome(e, FALSE, 0)}

(* METransformHaveOutput                                                    *)
MftWorks ==
    /\ enc.backend = "mf" /\ enc.async
    /\ enc.done < Len(enc.held) - enc.lag
    /\ enc' = [enc EXCEPT !.done = @ + 1]

(* next_reopen_ has passed.                                                 *)
BackoffEnds ==
    /\ enc.backoff
    /\ enc' = [enc EXCEPT !.backoff = FALSE]

(***************************************************************************)
(* IVideoEncoder                                                           *)
(***************************************************************************)
Encode(e, input) ==
    CASE e.backend = "mjpeg" -> MjpegEncode(e, input)
      [] e.backend = "mf" -> MfEncode(e, input)
      [] OTHER -> FfmpegEncode(e, input)

Reconfigure(e, c) ==
    CASE e.backend = "mjpeg" -> {Outcome([e EXCEPT !.config = c], TRUE, 0)}
      [] e.backend = "mf" -> MfReconfigure(e, c)
      [] OTHER -> FfmpegReconfigure(e, c)
===============================================================================
