---------------------------- MODULE RateControl ----------------------------
(* Adaptive bitrate of one client (host/src/network/server.cpp, RateControl  *)
(* and rate_on_sent()): every sent frame and every FRAME_ACK feeds a window; *)
(* once a second the share of the configured bitrate the client gets is cut  *)
(* after losses, a queue or a stall, and raised slowly after a clean spell.  *)
(*                                                                           *)
(* The link is the environment: clean, losing frames, slow (a queue in front *)
(* of every frame) or dead. Time advances in ticks, a frame each at most;    *)
(* only the order of the delays matters.                                     *)
EXTENDS Integers, Sequences

CONSTANTS
    FullRate,    \* levels of the scale: 1 is kMinRateScale, FullRate the whole bitrate
    FrameDelay,  \* kMaxFrameDelay: an ACK later than this sat in a queue
    Second,      \* the window, the pace of cuts, an old ACK, an idle screen's frame
    Stall,       \* sending and no ACK for 1.5 s
    RaiseAfter,  \* no raise for 4 s after a cut
    LossPer,     \* more than one frame lost in LossPer is too many (20)
    MinSample,   \* frames a window needs for a raise (5)
    MaxOut       \* bound: frames sent and not acknowledged that are told apart

ASSUME RateAssumption ==
    /\ {FullRate, LossPer, MinSample, MaxOut} \subseteq Nat \ {0}
    /\ {FrameDelay, Second, Stall, RaiseAfter} \subseteq Nat
    /\ FrameDelay < Second /\ Second < Stall /\ Second < RaiseAfter

VARIABLES
    scale,     \* rate.scale
    sent, lost, late, stalled,  \* the window: frames sent and lost, a delay over
               \* kMaxFrameDelay, a stall
    window,    \* time since window_start
    cut,       \* time since last_cut
    acked,     \* time since rate.last_ack; -1 before the first ACK
    seen,      \* flow.ack_seen
    flowAck,   \* time since flow.last_ack_time
    out,       \* frames after the last acknowledged one: age, and lost or not
    streaming, \* the worker sends frames, one a second at least, ...
    capture,   \* ... unless its capture is "lost"; "back" until the window
               \* in which it lost it is over (history), then "on"
    busy,      \* it sends one every tick
    link,      \* "clean", "lossy", "slow", "dead"
    idle,      \* time since the last frame
    trouble    \* history: windows since the link was not clean, or an ACK late

rate == <<scale, sent, lost, late, stalled, window, cut>>
ack == <<acked, seen, flowAck>>
world == <<streaming, busy, link>>
rateVars == <<rate, ack, out, world, capture, idle, trouble>>

AtMost(n, max) == IF n > max THEN max ELSE n
MaxSent == Second + MinSample   \* bound: the window's counts saturate
MaxLost == 3
Forgiven == 2   \* bound: trouble longer ago is all the same

RateTypeOK ==
    /\ scale \in 1..FullRate
    /\ sent \in 0..MaxSent /\ lost \in 0..MaxLost /\ late \in BOOLEAN /\ stalled \in BOOLEAN
    /\ window \in 0..Second /\ cut \in 0..RaiseAfter
    /\ acked \in -1..Stall + 1 /\ seen \in BOOLEAN /\ flowAck \in 0..Second
    /\ out \in Seq([age : 0..FrameDelay + 1, lost : BOOLEAN]) /\ Len(out) <= MaxOut
    /\ streaming \in BOOLEAN /\ busy \in BOOLEAN /\ capture \in {"on", "lost", "back"}
    /\ link \in {"clean", "lossy", "slow", "dead"}
    /\ idle \in 0..Second /\ trouble \in 0..Forgiven

(* A client that paired: half the bitrate, or all of it over TCP.          *)
RateInit ==
    /\ scale \in {(FullRate + 1) \div 2, FullRate}
    /\ sent = 0 /\ lost = 0 /\ late = FALSE /\ stalled = FALSE
    /\ window = 0 /\ cut = 0 /\ acked = -1 /\ seen = FALSE /\ flowAck = 0
    /\ out = <<>> /\ streaming = FALSE /\ busy = FALSE /\ link = "clean"
    /\ capture = "on" /\ idle = 0 /\ trouble = Forgiven

(***************************************************************************)
(* rate_on_sent(): the decision a sent frame takes once a second           *)
(***************************************************************************)
(* x 0.7, not below kMinRateScale; x 1.1 + 0.02, not above 1.              *)
Less == IF scale > 2 THEN scale - 2 ELSE 1
More == AtMost(scale + 1, FullRate)

Lossy(n) == lost >= 2 /\ lost * LossPer > n
StallOfStream == seen /\ acked > Stall   \* mutant
StallSeen == acked > Stall

Decide(n, bad) ==
    \/ /\ bad /\ cut >= Second
       /\ scale' = Less /\ cut' = 0
    \/ /\ ~bad /\ n >= MinSample /\ cut >= RaiseAfter
       /\ scale' = More /\ UNCHANGED cut
    \/ /\ IF bad THEN cut < Second ELSE n < MinSample \/ cut < RaiseAfter
       /\ UNCHANGED <<scale, cut>>

WindowKeepsDelay == window' = 0 /\ sent' = 0 /\ lost' = 0 /\ late' = late /\ stalled' = FALSE   \* mutant
NewWindow == window' = 0 /\ sent' = 0 /\ lost' = 0 /\ late' = FALSE /\ stalled' = FALSE

RateOnSent ==
    LET n == AtMost(sent + 1, MaxSent)
        s == stalled \/ StallSeen
    IN  \/ /\ window < Second
           /\ sent' = n /\ stalled' = s
           /\ UNCHANGED <<scale, lost, late, window, cut>>
        \/ /\ window = Second
           /\ Decide(n, Lossy(n) \/ s \/ late)
           /\ NewWindow

(***************************************************************************)
(* send_video_packet(), FRAME_ACK and STREAM_START                         *)
(***************************************************************************)
(* A frame goes out whatever the client's state; the link may lose it.     *)
(* (Beyond MaxOut, two lost frames more or less make no difference.)       *)
Room == IF Len(out) < MaxOut THEN out ELSE Tail(out)

SendFrame ==
    /\ streaming /\ capture # "lost" /\ idle > 0
    /\ RateOnSent
    /\ \E gone \in BOOLEAN :
         /\ gone => link \in {"lossy", "dead"}
         /\ link = "dead" => gone
         /\ out' = Append(Room, [age |-> 0, lost |-> gone])
         /\ trouble' = IF gone THEN 0
                       ELSE IF window = Second THEN AtMost(trouble + 1, Forgiven) ELSE trouble
    /\ idle' = 0
    /\ capture' = IF window = Second THEN "on" ELSE capture
    /\ UNCHANGED <<ack, world>>

(* The oldest frame that arrives is acknowledged; those before it were     *)
(* lost, and count unless the last ACK is old.                             *)
Arriving == {i \in 1..Len(out) : ~out[i].lost}
Oldest == CHOOSE i \in Arriving : \A j \in Arriving : i <= j

CountLoss == seen /\ flowAck < Second

FrameAck ==
    /\ link # "dead" /\ Arriving # {}
    /\ link = "slow" => out[Oldest].age > FrameDelay
    /\ lost' = IF CountLoss THEN AtMost(lost + Oldest - 1, MaxLost) ELSE lost
    /\ late' = (late \/ out[Oldest].age > FrameDelay)
    /\ trouble' = IF out[Oldest].age > FrameDelay THEN 0 ELSE trouble
    /\ acked' = 0 /\ flowAck' = 0 /\ seen' = TRUE
    /\ out' = SubSeq(out, Oldest + 1, Len(out))
    /\ UNCHANGED <<scale, sent, stalled, window, cut, world, capture, idle>>

(* The stream of a monitor stops and starts again: its flow state is new,  *)
(* ACKs of frames before first_frame are ignored, and the pause is no      *)
(* stall.                                                                  *)
Pause ==
    /\ streaming
    /\ streaming' = FALSE
    /\ UNCHANGED <<rate, ack, out, busy, link, capture, idle, trouble>>

PauseCounts == acked   \* mutant
PauseOver == IF acked >= 0 THEN 0 ELSE acked

StreamStart ==
    /\ ~streaming
    /\ streaming' = TRUE /\ idle' = 1
    /\ seen' = FALSE /\ flowAck' = 0 /\ out' = <<>>
    /\ acked' = PauseOver
    /\ capture' = IF capture = "lost" THEN "back" ELSE capture
    /\ UNCHANGED <<rate, busy, link, trouble>>

(* The capture loses its source: the worker sends nothing until it could   *)
(* start it again, a second later at the earliest. (An encoder that gives  *)
(* nothing for a while looks the same from here.)                          *)
CaptureLost ==
    /\ streaming /\ capture # "lost"
    /\ capture' = "lost"
    /\ UNCHANGED <<rate, ack, out, world, idle, trouble>>

Recaptured ==
    /\ capture = "lost"
    /\ capture' = "back"
    /\ UNCHANGED <<rate, ack, out, world, idle, trouble>>

(***************************************************************************)
(* Time and the link                                                       *)
(***************************************************************************)
(* The worker sends frames.                                                *)
Sending == streaming /\ capture # "lost"

(* Time waits for the frame that is due (one a second, a tick if busy) and *)
(* for the ACKs a link that is up delivers: at once, or when the queue let *)
(* the frame through.                                                      *)
Due ==
    \/ Sending /\ idle >= (IF busy THEN 1 ELSE Second)
    \/ link \in {"clean", "lossy"} /\ Arriving # {}
    \/ link = "slow" /\ \E i \in Arriving : out[i].age > FrameDelay

Tick ==
    /\ ~Due
    /\ window' = AtMost(window + 1, Second) /\ cut' = AtMost(cut + 1, RaiseAfter)
    /\ acked' = IF acked < 0 THEN acked ELSE AtMost(acked + 1, Stall + 1)
    /\ flowAck' = AtMost(flowAck + 1, Second) /\ idle' = AtMost(idle + 1, Second)
    /\ out' = [i \in 1..Len(out) |-> [out[i] EXCEPT !.age = AtMost(@ + 1, FrameDelay + 1)]]
    /\ trouble' = IF link = "clean" THEN trouble ELSE 0
    /\ UNCHANGED <<scale, sent, lost, late, stalled, seen, world, capture>>

(* A dead link loses what is on its way.                                   *)
LinkChanges(l) ==
    /\ link # l /\ link' = l
    /\ out' = IF l = "dead" THEN [i \in 1..Len(out) |-> [out[i] EXCEPT !.lost = TRUE]] ELSE out
    /\ trouble' = IF l = "clean" THEN trouble ELSE 0
    /\ UNCHANGED <<rate, ack, streaming, capture, busy, idle>>

BusyChanges ==
    /\ busy' = ~busy
    /\ UNCHANGED <<rate, ack, out, streaming, link, capture, idle, trouble>>

RateNext ==
    \/ SendFrame \/ FrameAck \/ Pause \/ StreamStart \/ CaptureLost \/ Recaptured
    \/ Tick \/ BusyChanges
    \/ \E l \in {"clean", "lossy", "slow", "dead"} : LinkChanges(l)

(* Time passes, the worker sends, the client acknowledges.                 *)
RateSpec ==
    /\ RateInit /\ [][RateNext]_rateVars
    /\ WF_rateVars(Tick) /\ WF_rateVars(SendFrame) /\ WF_rateVars(FrameAck)

(***************************************************************************)
(* Properties                                                              *)
(***************************************************************************)
(* A link that stays dead or slow ends at the lowest bitrate, however it   *)
(* was before. (A client that never acknowledged anything is left alone.)  *)
BacksOff ==
    <>[](Sending /\ (link = "slow" \/ (link = "dead" /\ acked >= 0))) => <>[](scale = 1)

(* A link that stays clean gives a busy stream the whole bitrate again.    *)
Recovers == <>[](Sending /\ busy /\ link = "clean") => <>[](scale = FullRate)

(* The bitrate is only cut for trouble of this window or the last one: a   *)
(* worker that sends nothing has no ACKs to wait for, and an idle screen   *)
(* sends a frame a second (the comment at server.cpp:1061). Not so in the  *)
(* code: TLC refutes it.                                                   *)
CutHasCause == [][scale' < scale => trouble < Forgiven]_rateVars

(* It is cut for that, or for the capture: never for a restart, an idle    *)
(* screen or trouble long past, and a lost capture is forgotten with the   *)
(* first window after it.                                                  *)
CutHasCauseOrCapture ==
    [][scale' < scale => trouble < Forgiven \/ capture # "on"]_rateVars
=============================================================================
