--------------------------- MODULE VideoDelivery ---------------------------
(* The way of one monitor's frames from the worker to the headset.           *)
(* Over UDP (host/src/network/server.cpp, send_video_packet(); client        *)
(* network_client.gd) a frame is cut into chunks, followed by parity chunks  *)
(* that rebuild one lost chunk of their group each; packets are lost,        *)
(* duplicated and reordered, also against the control messages. Over TCP     *)
(* (USB) whole frames queue in order, and the host drops frames while the    *)
(* oldest unacknowledged one waits too long.                                 *)
(*                                                                           *)
(* A frame is a sequence of bits, one for each byte: XOR works bit by bit.   *)
EXTENDS Integers, Sequences, FiniteSets

CONSTANTS
    Frame,       \* the encoded frame of each number: a sequence of bits
    MaxPayload,  \* MAX_UDP_PAYLOAD
    FecPercent,  \* FEC_PERCENT
    Margin,      \* a new stream's numbers begin this far after the last (1000)
    MaxQueue,    \* kMaxTcpQueue, in ticks
    Slots,       \* sent_at.size() (128)
    MaxWire      \* bound: messages on the control socket

ASSUME VideoAssumption ==
    /\ {MaxPayload, FecPercent, MaxQueue, Slots, MaxWire} \subseteq Nat \ {0}
    /\ Margin \in Nat \ {0, 1}
    /\ DOMAIN Frame = 1..Len(Frame)
    /\ \A n \in DOMAIN Frame : Frame[n] \in Seq({0, 1}) \ {<<>>}

VARIABLES
    tcp,      \* tcp_media: HELLO_FLAG_TCP_MEDIA
    running,  \* the monitor's worker sends
    next,     \* its next frame number
    parked,   \* the number a stopped worker may still send, or 0
    high,     \* frame_high_water
    offered,  \* numbers sent so far; over UDP their packets are on the air
    wire,     \* the control socket, host to client
    first,    \* flow.first_frame
    lastAck,  \* flow.last_ack, 0 while ~flow.ack_seen
    sentAt,   \* flow.sent_at: ticks since the slot was written
    unacked,  \* tcp_unacked: numbers, and (history) how long each waits
    acks,     \* FRAME_ACKs on the way
    size,     \* _stream_size has the monitor
    last,     \* _last_completed_frame
    buffer,   \* _frame_buffer: the frames begun
    picture   \* the last video_frame_received, and whether frame_gap_detected

host == <<running, next, parked, high, offered>>
flow == <<first, lastAck, sentAt, unacked>>
client == <<size, last, buffer, picture>>
vars == <<tcp, host, wire, flow, acks, client>>

Least(a, b) == IF a < b THEN a ELSE b
Most(a, b) == IF a < b THEN b ELSE a
With(f, k, v) == [x \in DOMAIN f \cup {k} |-> IF x = k THEN v ELSE f[x]]

(***************************************************************************)
(* Chunks and parity                                                       *)
(***************************************************************************)
ChunkCount(n) == (Len(Frame[n]) + MaxPayload - 1) \div MaxPayload
ParityCount(n) == Most(1, (ChunkCount(n) * FecPercent + 99) \div 100)
Chunk(n, i) == SubSeq(Frame[n], i * MaxPayload + 1, Least((i + 1) * MaxPayload, Len(Frame[n])))

Group(total, step, g) == {i \in 0..total - 1 : i % step = g}
ByteAt(c, b) == IF b <= Len(c) THEN c[b] ELSE 0
Xor(S, c, len) == [b \in 1..len |-> Cardinality({i \in S : ByteAt(c[i], b) = 1}) % 2]

Parity(n, j) ==
    LET total == ChunkCount(n) IN
    Xor(Group(total, ParityCount(n), j), [i \in 0..total - 1 |-> Chunk(n, i)],
        Least(Len(Frame[n]), MaxPayload))

(***************************************************************************)
(* The host                                                                *)
(***************************************************************************)
Init ==
    /\ tcp \in BOOLEAN
    /\ running = FALSE /\ next = 1 /\ parked = 0 /\ high = 0 /\ offered = {}
    /\ wire = <<>> /\ acks = <<>>
    /\ first = 0 /\ lastAck = 0 /\ unacked = <<>>
    /\ sentAt = [s \in 0..Slots - 1 |-> MaxQueue + 1]
    /\ size = FALSE /\ last = 0 /\ buffer = <<>>
    /\ picture = [n |-> 0, data |-> <<>>, gap |-> FALSE]

(* send_stream_start(): the flow state begins anew. (tcp_unacked is left.) *)
StreamStart ==
    /\ ~running /\ Len(wire) < MaxWire
    /\ high + Margin \in DOMAIN Frame
    /\ next' = high + Margin /\ first' = high + Margin
    /\ wire' = Append(wire, [kind |-> "start", n |-> high + Margin])
    /\ running' = TRUE /\ lastAck' = 0
    /\ sentAt' = [s \in 0..Slots - 1 |-> MaxQueue + 1]
    /\ UNCHANGED <<tcp, parked, high, offered, unacked, acks, client>>

(* The worker ends, or is parked with its last frame; STREAM_STOP follows, *)
(* unless the worker failed.                                               *)
StreamEnds ==
    /\ running /\ running' = FALSE
    /\ parked' \in IF next \in DOMAIN Frame THEN {0, next} ELSE {0}
    /\ \/ Len(wire) < MaxWire /\ wire' = Append(wire, [kind |-> "stop", n |-> 0])
       \/ UNCHANGED wire
    /\ UNCHANGED <<tcp, next, high, offered, flow, acks, client>>

(* The next frame of the worker, or the last of a parked one. (Bound: not  *)
(* after a frame of the stream that follows.)                              *)
Encoded(n) ==
    /\ n \in DOMAIN Frame
    /\ \/ running /\ n = next /\ next' = n + 1 /\ UNCHANGED parked
       \/ n = parked /\ n > high /\ parked' = 0 /\ UNCHANGED next
    /\ high' = n /\ offered' = offered \cup {n}
    /\ UNCHANGED running

SendUdp ==
    /\ ~tcp
    /\ \E n \in {next, parked} : Encoded(n)
    /\ UNCHANGED <<tcp, wire, flow, acks, client>>

(* A frame of a stream before makes the next ACK the first.                *)
Acked(n) == IF n < lastAck THEN 0 ELSE lastAck

(* Acknowledged frames leave the queue; a stream's first ACK is awaited    *)
(* without a limit.                                                        *)
WaitingFrom(k) == SubSeq(unacked, k, Len(unacked))
Unacknowledged(i, ack) == unacked[i].n > ack
UnackedWithLast(ack) ==   \* mutant: the newest acknowledged frame stays
    IF ack = 0 THEN <<>>
    ELSE SelectSeq(unacked, LAMBDA u : u.n >= ack)
Unacked(ack) ==
    IF ack = 0 \/ \A i \in DOMAIN unacked : ~Unacknowledged(i, ack) THEN <<>>
    ELSE WaitingFrom(CHOOSE k \in DOMAIN unacked :
             Unacknowledged(k, ack) /\ \A i \in 1..k - 1 : ~Unacknowledged(i, ack))
Overdue(waiting, slots) == waiting # <<>> /\ slots[waiting[1].n % Slots] > MaxQueue

(* A worker sends at most one frame a tick.                                *)
SendTcp ==
    /\ tcp /\ sentAt[high % Slots] > 0
    /\ \E n \in {next, parked} :
         LET slots == [sentAt EXCEPT ![n % Slots] = 0]
             waiting == Unacked(Acked(n))
         IN  /\ Encoded(n)
             /\ lastAck' = Acked(n) /\ sentAt' = slots
             /\ \/ /\ Overdue(waiting, slots)
                   /\ unacked' = waiting /\ UNCHANGED wire
                \/ /\ ~Overdue(waiting, slots) /\ Len(wire) < MaxWire
                   /\ unacked' = Append(waiting, [n |-> n, age |-> 0])
                   /\ wire' = Append(wire, [kind |-> "frame", n |-> n])
    /\ UNCHANGED <<tcp, first, acks, client>>

AckOfStream(n) == n >= first
FrameAck ==
    /\ acks # <<>> /\ acks' = Tail(acks)
    /\ lastAck' = IF AckOfStream(Head(acks)) THEN Most(lastAck, Head(acks)) ELSE lastAck
    /\ UNCHANGED <<tcp, host, wire, first, sentAt, unacked, client>>

Older(t) == Least(t + 1, MaxQueue + 1)
Tick ==
    /\ tcp
    /\ sentAt' = [s \in 0..Slots - 1 |-> Older(sentAt[s])]
    /\ unacked' = [i \in 1..Len(unacked) |-> [unacked[i] EXCEPT !.age = Older(@)]]
    /\ UNCHANGED <<tcp, host, wire, first, lastAck, acks, client>>

(***************************************************************************)
(* The client                                                              *)
(***************************************************************************)
Without(n) == [k \in DOMAIN buffer \ {n} |-> buffer[k]]
AllBegun(n) == DOMAIN buffer   \* mutant: older frames stay
NotOlder(n) == {k \in DOMAIN buffer : k >= n}

(* _deliver_frame(): shown and acknowledged, or late and dropped.          *)
Late(n) == ~size \/ n <= last
Shown(n, data) ==
    LET gap == n > last + 1 IN
    /\ picture' = [n |-> n, data |-> data, gap |-> gap]
    /\ buffer' = [k \in (IF gap THEN NotOlder(n) ELSE DOMAIN buffer) \ {n} |-> buffer[k]]
    /\ last' = n
    /\ acks' = IF tcp THEN Append(acks, n) ELSE acks
Deliver(n, data) ==
    \/ ~Late(n) /\ Shown(n, data)
    \/ Late(n) /\ UNCHANGED <<last, buffer, picture, acks>>

NewEntry == [chunks |-> <<>>, parity |-> <<>>, groups |-> 0, size |-> 0]
Entry(n) == IF n \in DOMAIN buffer THEN buffer[n] ELSE NewEntry

(* A packet's content goes into the frame's entry.                         *)
WithChunk(e, n, i) == [e EXCEPT !.chunks = With(@, i, Chunk(n, i))]
WithParity(e, n, j) ==
    [chunks |-> e.chunks, parity |-> With(e.parity, j, Parity(n, j)),
     groups |-> ParityCount(n), size |-> Len(Frame[n])]

(* _rebuild_chunk(): the only chunk its group misses, from the parity.     *)
FullLen(e, total, m) == MaxPayload   \* mutant: a rebuilt last chunk keeps its padding
RebuiltLen(e, total, m) ==
    IF m < total - 1 THEN MaxPayload ELSE e.size - (total - 1) * MaxPayload
Rebuilt(e, total, g) ==
    LET group == Group(total, e.groups, g)
        missing == group \ DOMAIN e.chunks
        m == CHOOSE i \in missing : TRUE
        all == [i \in group |-> IF i = m THEN e.parity[g] ELSE e.chunks[i]]
        len == RebuiltLen(e, total, m)
    IN  IF g \in DOMAIN e.parity /\ Cardinality(missing) = 1 /\ len > 0 /\ len <= Len(e.parity[g])
        THEN [e EXCEPT !.chunks = With(@, m, SubSeq(Xor(group, all, Len(e.parity[g])), 1, len))]
        ELSE e

RebuiltByParityOnly(e, n, i) ==   \* mutant: not when the last chunk but one comes late
    IF i >= ChunkCount(n) THEN Rebuilt(e, ChunkCount(n), i - ChunkCount(n)) ELSE e
RebuiltBy(e, n, i) ==
    LET total == ChunkCount(n) IN
    CASE i >= total -> Rebuilt(e, total, i - total)
      [] i < total /\ e.groups > 0 -> Rebuilt(e, total, i % e.groups)
      [] OTHER -> e

Joined(chunks, total) ==
    LET upTo[k \in 0..total] == IF k = 0 THEN <<>> ELSE upTo[k - 1] \o chunks[k - 1]
    IN  upTo[total]

(* _on_video_packet(): packet i of frame n, of those sent so far, whenever *)
(* and however often the network delivers it. (No stream, or a frame that  *)
(* is not newer than the last: dropped at once.)                           *)
Packet(n, i) ==
    LET total == ChunkCount(n)
        e == RebuiltBy(IF i < total THEN WithChunk(Entry(n), n, i)
                                    ELSE WithParity(Entry(n), n, i - total), n, i)
    IN  /\ ~tcp /\ ~Late(n)
        /\ i < total + ParityCount(n)
        /\ \/ /\ Cardinality(DOMAIN e.chunks) < total
              /\ buffer' = With(buffer, n, e)
              /\ UNCHANGED <<last, picture, acks>>
           \/ /\ Cardinality(DOMAIN e.chunks) = total
              /\ Shown(n, Joined(e.chunks, total))
        /\ UNCHANGED <<tcp, host, wire, flow, size>>

(* _cleanup_old_frames(): a frame begun 5 s ago.                           *)
Cleanup(n) ==
    /\ n \in DOMAIN buffer /\ buffer' = Without(n)
    /\ UNCHANGED <<tcp, host, wire, flow, acks, size, last, picture>>

(* A message of the control socket.                                        *)
OnStart(n) == size' = TRUE /\ last' = n - 1 /\ buffer' = <<>> /\ UNCHANGED <<picture, acks>>
OnStop == size' = FALSE /\ last' = 0 /\ buffer' = <<>> /\ UNCHANGED <<picture, acks>>

Read ==
    /\ wire # <<>> /\ wire' = Tail(wire)
    /\ LET m == Head(wire) IN
         \/ m.kind = "start" /\ OnStart(m.n)
         \/ m.kind = "stop" /\ OnStop
         \/ m.kind = "frame" /\ Deliver(m.n, Frame[m.n]) /\ UNCHANGED size
    /\ UNCHANGED <<tcp, host, flow>>

Next ==
    \/ StreamStart \/ StreamEnds \/ SendUdp \/ SendTcp \/ FrameAck \/ Tick \/ Read
    \/ \E n \in offered :
         \/ Cleanup(n)
         \/ \E i \in 0..2 * ChunkCount(n) : Packet(n, i)

(* A client that goes on reading; the host's handler reads its ACKs.       *)
Spec == Init /\ [][Next]_vars /\ WF_vars(Read) /\ WF_vars(FrameAck)

(***************************************************************************)
(* Properties                                                              *)
(***************************************************************************)
Begun == {n \in DOMAIN buffer : n \in offered}
TypeOK ==
    /\ tcp \in BOOLEAN /\ running \in BOOLEAN
    /\ next \in 1..Len(Frame) + 1 /\ parked \in 0..Len(Frame) /\ high \in 0..Len(Frame)
    /\ offered \subseteq DOMAIN Frame
    /\ wire \in Seq([kind : {"start", "stop", "frame"}, n : 0..Len(Frame)]) /\ Len(wire) <= MaxWire
    /\ first \in 0..Len(Frame) /\ lastAck \in 0..Len(Frame)
    /\ sentAt \in [0..Slots - 1 -> 0..MaxQueue + 1]
    /\ unacked \in Seq([n : DOMAIN Frame, age : 0..MaxQueue + 1])
    /\ acks \in Seq(DOMAIN Frame)
    /\ size \in BOOLEAN /\ last \in 0..Len(Frame)
    /\ picture.n \in 0..Len(Frame) /\ picture.data \in Seq({0, 1}) /\ picture.gap \in BOOLEAN
    /\ \A n \in Begun : DOMAIN buffer[n].chunks \subseteq 0..ChunkCount(n) - 1

(* The client shows the frames the host encoded, unaltered by chunking and *)
(* rebuilding, in their order, each once, and knows of every gap.          *)
Feed == INSTANCE FrameFeed WITH on <- size, prev <- last
ShowsTheFeed == Feed!Spec

(* A frame in the buffer may still be shown, and none that the received    *)
(* chunks and parity determine waits there for more packets.               *)
Rebuildable(n) ==
    \E g \in DOMAIN buffer[n].parity :
        Cardinality(Group(ChunkCount(n), buffer[n].groups, g) \ DOMAIN buffer[n].chunks) <= 1
            /\ \A h \in 0..buffer[n].groups - 1 \ {g} :
                   Group(ChunkCount(n), buffer[n].groups, h) \subseteq DOMAIN buffer[n].chunks
NothingHeldBack ==
    \A n \in DOMAIN buffer : size /\ n > last /\ n \in offered /\ ~Rebuildable(n)

(* Over TCP every frame written is acknowledged in the end, or its stream  *)
(* is over: a queue that stopped the sending opens again.                  *)
Waits(n) == \E i \in DOMAIN Unacked(lastAck) : Unacked(lastAck)[i].n = n
QueueDrains == \A n \in DOMAIN Frame : running /\ Waits(n) ~> ~running \/ ~Waits(n)
=============================================================================
