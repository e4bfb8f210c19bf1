------------------------ MODULE ClientSession_proofs ------------------------
(* Theorems about ClientSession, for any PCs, monitors and budget.          *)
EXTENDS ClientSession, FiniteSetTheorems, SequenceTheorems, WellFoundedInduction, TLAPS

-----------------------------------------------------------------------------
(* Sequences.                                                               *)

LEMMA ToSetIs ==
  ASSUME NEW S, NEW s \in Seq(S)
  PROVE  /\ ToSet(s) \subseteq S
         /\ \A x : x \in ToSet(s) <=> \E i \in 1..Len(s) : x = s[i]
         /\ s # <<>> <=> ToSet(s) # {}
         /\ \A x : Contains(s, x) <=> x \in ToSet(s)
  BY DEF ToSet, Contains

LEMMA AppendToSet ==
  ASSUME NEW S, NEW s \in Seq(S), NEW x \in S
  PROVE  /\ Append(s, x) \in Seq(S) /\ Len(Append(s, x)) = Len(s) + 1
         /\ ToSet(Append(s, x)) = ToSet(s) \cup {x}
<1>1. DOMAIN s = 1..Len(s) /\ DOMAIN Append(s, x) = 1..(Len(s) + 1)
  OBVIOUS
<1>2. \A i \in 1..Len(s) : Append(s, x)[i] = s[i]
  OBVIOUS
<1>3. Append(s, x)[Len(s) + 1] = x
  OBVIOUS
<1>4. \A i \in 1..(Len(s) + 1) : i \in 1..Len(s) \/ i = Len(s) + 1
  OBVIOUS
<1>5. QED BY <1>1, <1>2, <1>3, <1>4 DEF ToSet

(* A finite set made a sequence has exactly its elements.                   *)
LEMMA SeqOfSet ==
  ASSUME NEW S, IsFiniteSet(S)
  PROVE  SetToSeq(S) \in Seq(S) /\ ToSet(SetToSeq(S)) = S
<1> DEFINE f == SetToSeq(S)
<1>1. Cardinality(S) \in Nat /\ ExistsBijection(1..Cardinality(S), S)
  BY FS_CardinalityType
<1>2. \E g \in [1..Cardinality(S) -> S] : IsInjective(g)
  BY <1>1 DEF ExistsBijection, Bijection, Injection
<1>3. f \in [1..Cardinality(S) -> S] /\ IsInjective(f)
  BY <1>2 DEF SetToSeq
<1>4. f \in Injection(1..Cardinality(S), S)
  BY <1>3 DEF Injection
<1>5. Cardinality(1..Cardinality(S)) = Cardinality(S)
  BY <1>1, FS_Interval
<1>6. f \in Surjection(1..Cardinality(S), S)
  BY <1>4, <1>5, FS_Injection
<1>7. \A x \in S : \E i \in 1..Cardinality(S) : f[i] = x
  BY <1>6 DEF Surjection
<1>8. QED BY <1>1, <1>3, <1>7 DEF ToSet

(* What is kept of a selection.                                             *)
LEMMA KeptIs ==
  ASSUME NEW S, NEW s \in Seq(S), NEW T
  PROVE  /\ Kept(s, T) \in Seq(S) /\ Len(Kept(s, T)) <= Len(s)
         /\ ToSet(Kept(s, T)) = ToSet(s) \cap T
<1> DEFINE P == {i \in DOMAIN s : s[i] \in T}
           n == Cardinality(P)
           Upto(i) == {j \in P : j <= i}
           Place(k) == CHOOSE i \in P : Cardinality(Upto(i)) = k
           r == [i \in P |-> Cardinality(Upto(i))]
<1>1. P \subseteq 1..Len(s) /\ Len(s) \in Nat
  OBVIOUS
<1>2. IsFiniteSet(P) /\ n \in Nat /\ n <= Len(s)
  <2>1. IsFiniteSet(1..Len(s)) /\ Cardinality(1..Len(s)) = Len(s)
    BY <1>1, FS_Interval, SMTT(40)
  <2>2. IsFiniteSet(P) /\ Cardinality(P) <= Len(s)
    BY <1>1, <2>1, FS_Subset
  <2>3. QED BY <2>2, FS_CardinalityType
<1>3. ASSUME NEW i \in P PROVE Cardinality(Upto(i)) \in 1..n /\ IsFiniteSet(Upto(i)) /\ i \in Upto(i)
  <2>1. Upto(i) \subseteq P /\ i \in Upto(i)
    BY <1>1
  <2>2. IsFiniteSet(Upto(i)) /\ Cardinality(Upto(i)) <= n
    BY <1>2, <2>1, FS_Subset
  <2>3. Cardinality(Upto(i)) \in Nat /\ Cardinality(Upto(i)) # 0
    BY <2>1, <2>2, FS_CardinalityType, FS_EmptySet
  <2>4. QED BY <1>2, <2>1, <2>2, <2>3
<1>4. ASSUME NEW i \in P, NEW j \in P, i < j PROVE Cardinality(Upto(i)) # Cardinality(Upto(j))
  <2>1. Upto(i) \subseteq Upto(j) /\ j \notin Upto(i) /\ j \in Upto(j)
    BY <1>1, <1>4
  <2>2. QED BY <1>3, <2>1, FS_Subset
<1>5. \A i, j \in P : Cardinality(Upto(i)) = Cardinality(Upto(j)) => i = j
  <2>1. \A i, j \in P : i < j \/ j < i \/ i = j
    BY <1>1
  <2>2. QED BY <1>4, <2>1
<1>6. r \in Injection(P, 1..n)
  <2>1. r \in [P -> 1..n]
    BY <1>3
  <2>2. IsInjective(r)
    BY <1>5 DEF IsInjective
  <2>3. QED BY <2>1, <2>2 DEF Injection
<1>7. r \in Surjection(P, 1..n)
  BY <1>2, <1>6, FS_Interval, FS_Injection
<1>8. \A k \in 1..n : Place(k) \in P /\ Cardinality(Upto(Place(k))) = k
  <2>1. ASSUME NEW k \in 1..n PROVE \E i \in P : Cardinality(Upto(i)) = k
    <3>1. \E i \in P : r[i] = k
      BY <1>7 DEF Surjection
    <3>2. QED BY <3>1
  <2>2. QED BY <2>1
<1>9. Kept(s, T) = [k \in 1..n |-> s[Place(k)]]
  BY DEF Kept
<1> HIDE DEF Upto, Place, r, n
<1>10. Kept(s, T) \in Seq(S) /\ Len(Kept(s, T)) = n
  BY <1>1, <1>2, <1>8, <1>9
<1>11. ToSet(Kept(s, T)) = {s[Place(k)] : k \in 1..n}
  BY <1>9 DEF ToSet
<1>12. \A i \in P : \E k \in 1..n : Place(k) = i
  BY <1>3, <1>5, <1>8
<1>13. {s[Place(k)] : k \in 1..n} = {s[i] : i \in P}
  BY <1>8, <1>12
<1>14. {s[i] : i \in P} = ToSet(s) \cap T
  BY DEF ToSet
<1>15. QED BY <1>2, <1>10, <1>11, <1>13, <1>14

-----------------------------------------------------------------------------
(* The inductive invariant.                                                 *)

Answers ==
  [type : {"MONITOR_LIST"}, ids : SUBSET Monitors]
    \cup [type : {"STREAM_START", "STREAM_STOP"}, id : Monitors]
    \cup {r \in [type : {"RESULT"}, ok : BOOLEAN, removed : BOOLEAN, id : Monitors \cup {Nil}] :
            r.ok => r.id # Nil}
Requests ==
  [type : {"SELECT"}, ids : SUBSET Monitors]
    \cup [type : {"CREATE"}] \cup [type : {"REMOVE", "REQUEST_KEYFRAME"}, id : Monitors]

WiresOK == toClient \in Seq(Answers) /\ toHost \in Seq(Requests)

(* What is still to be read, and the selections still to be applied.        *)
Unread == 1..Len(toClient)
Later(k) == (k + 1)..Len(toClient)
Lists(k) == toClient[k].type = "MONITOR_LIST"
Starts(k, m) == toClient[k].type = "STREAM_START" /\ toClient[k].id = m
Stopping(k, m) == toClient[k].type = "STREAM_STOP" /\ toClient[k].id = m
Drops(k, m) == Lists(k) /\ m \notin toClient[k].ids
Started(m) == \E k \in Unread : Starts(k, m)
Selects == {toHost[i].ids : i \in {j \in 1..Len(toHost) : toHost[j].type = "SELECT"}}
Keeping(m) == \E S \in Selects : m \in S
Dropping(m) == \E S \in Selects : m \notin S

(* v[k]: the monitors known once k messages are read.                       *)
View(v) ==
  /\ v \in [0..Len(toClient) -> SUBSET Monitors] /\ v[0] = available
  /\ \A k \in Unread : v[k] = IF Lists(k) THEN toClient[k].ids ELSE v[k - 1]

(* In the end they are the host's; a list takes one away at most, but for   *)
(* the first of a connection.                                               *)
ListsInv(v) ==
  /\ tcp = "open" => v[Len(toClient)] = monitors
  /\ tcp = "open" => \A k \in 0..Len(toClient), m \in Monitors :
       m \in v[k] /\ m \notin monitors => \E j \in Later(k) : Drops(j, m)
  /\ \A k \in Unread : Lists(k) =>
       \/ k = 1 /\ \A m \in Monitors : streams[m] = "live" => Started(m)
       \/ \E x : v[k - 1] \ {x} \subseteq v[k]

(* A stream starts on a monitor that is known, and what ended is started    *)
(* again if it streams, and the other way round.                            *)
OrderInv(v) ==
  \A m \in Monitors :
    /\ \A k \in Unread : Starts(k, m) => m \in v[k - 1]
    /\ \A k \in Unread : (Drops(k, m) \/ Stopping(k, m)) /\ streams[m] = "live" =>
         \E j \in Later(k) : Starts(j, m)
    /\ \A k \in Unread : Starts(k, m) =>
         streams[m] = "live" \/ \E j \in Later(k) : Stopping(j, m)
    /\ streams[m] # "none" => m \in monitors /\ tcp \in {"open", "cut"}
    /\ streams[m] = "live" => Started(m) \/ m \in available

UnreadInv == \E v : View(v) /\ ListsInv(v) /\ OrderInv(v)

SelectionInv ==
  /\ Len(active) <= MaxScreens /\ ToSet(active) \subseteq available
  /\ panels \subseteq available /\ pending \notin available
  /\ \A m \in Monitors : decoder[m] # "none" <=> m \in panels
  /\ tcp \notin {"open", "cut"} => toClient = <<>> /\ (panels = {} \/ pending = Nil)

(* A panel without a stream: a selection, a list or a stop comes, or the    *)
(* first list of the connection, which is answered by a selection.          *)
FrozenInv ==
  tcp = "open" => \A m \in panels :
    \/ streams[m] # "none" \/ Keeping(m)
    \/ \E k \in Unread : Stopping(k, m) \/ Drops(k, m)
    \/ pending = Nil /\ toClient # <<>> /\ Lists(1)

(* A stream the client knows of is selected and has its panel, or a         *)
(* selection without it is on its way; one pushed out of the selection by   *)
(* others leaves two there, of which a list takes away but one.             *)
Two == \E x, y \in ToSet(active) : x # y

StreamingInv ==
  tcp = "open" => \A m \in Monitors : streams[m] = "live" =>
    \/ Started(m) \/ Dropping(m)
    \/ m \in panels /\ (m \in ToSet(active) \/ Two)

ScreensInv ==
  ScreensTypeOK /\ WiresOK /\ UnreadInv /\ SelectionInv /\ FrozenInv /\ StreamingInv

LinkInv ==
  /\ LinkTypeOK
  /\ current_state = "DISCONNECTED" <=> tcp = "none"
  /\ current_state = "CONNECTING" <=> tcp = "connecting"
  /\ connect_after_probe => tcp = "none" /\ ~should_reconnect /\ wish = "in"
  /\ wish = "out" => tcp = "none" /\ ~should_reconnect /\ usb_paused /\ panels = {}

IInv == LinkInv /\ ScreensInv /\ left \in 0..Budget

-----------------------------------------------------------------------------
(* The connection.                                                          *)

(* What a step of the connection does, seen from the screens.               *)
LinkStep == Reconnect \/ Open \/ Accepted \/ Failed \/ Refused \/ Switch \/ Launch \/ Discovery

LEMMA LinkByLink ==
  ASSUME LinkInv, LinkStep
  PROVE  LinkInv'
<1> USE DEF LinkInv, LinkTypeOK, Dial, Disconnected, DiscoveryRestarts, OnUsb
<1>1. CASE Reconnect
  BY <1>1 DEF Reconnect, HandleReconnect, pairing, screenVars, pictures
<1>2. CASE Open
  BY <1>2 DEF Open, TcpOpens, address, intent, pairing, screenVars, pictures
<1>3. CASE Accepted
  BY <1>3 DEF Accepted, HelloAck, HostGreets, pictures
<1>4. CASE Failed
  BY <1>4 DEF Failed, TcpFails, ScreensStay, intent, pairing, pictures
<1>5. CASE Refused
  <2>1. panels' = panels
    BY <1>5 DEF Refused, ScreensStay, pictures
  <2>2. CASE RefusedPin
    BY <2>1, <2>2 DEF RefusedPin
  <2>3. CASE RefusedFull
    BY <2>1, <2>3 DEF RefusedFull, intent, pairing
  <2>4. QED BY <1>5, <2>2, <2>3 DEF Refused
<1>6. CASE Switch
  BY <1>6 DEF Switch, SwitchToUsb, ProbeEnabled, ScreensStay, pairing, screenVars, pictures
<1>7. CASE Launch
  BY <1>7 DEF Launch, LaunchOverNetwork, ProbeEnabled, pairing, screenVars, pictures
<1>8. CASE Discovery
  BY <1>8 DEF Discovery, HostAnswers, HostForgotten, FollowHost, intent, pairing, screenVars, pictures
<1>9. QED BY <1>1, <1>2, <1>3, <1>4, <1>5, <1>6, <1>7, <1>8 DEF LinkStep

LEMMA LinkByOthers ==
  ASSUME LinkInv, Client \/ Host \/ Outside
  PROVE  LinkInv'
<1> USE DEF LinkInv, LinkTypeOK
<1>1. CASE Client
  <2>1. tcp \in {"open", "cut"} \/ (current_state' = current_state /\ panels' = panels)
    BY <1>1 DEF Client, Frame, InOrder, ThrottleEnds
  <2>2. UNCHANGED <<net, address, intent, tcp, pairing>>
    BY <1>1 DEF Client
  <2>3. \/ current_state' = current_state
        \/ current_state' = "STREAMING"
        \/ current_state = "STREAMING" /\ current_state' = "CONNECTED"
    BY <1>1 DEF Client, Reads
  <2>4. wish # "out" \/ panels' = panels
    BY <2>1
  <2>5. QED BY <2>1, <2>2, <2>3, <2>4 DEF address, intent, pairing
<1>2. CASE Host
  BY <1>2 DEF Host, linkVars, address, intent, pairing
<1>3. CASE Outside /\ User
  <2>1. CASE UserDisconnects /\ ScreensCleared
    BY <2>1 DEF UserDisconnects, ScreensCleared, DiscoveryRestarts, pairing
  <2>2. ASSUME NEW ip \in Lan \cup {Usb}, UserConnects(ip), UNCHANGED screenVars PROVE LinkInv'
    BY <2>2 DEF UserConnects, Dial, pairing
  <2>3. ASSUME NEW right \in BOOLEAN, PinEntered(right), UNCHANGED screenVars PROVE LinkInv'
    BY <2>3 DEF PinEntered, Dial
  <2>4. CASE UNCHANGED linkVars /\ panels' = panels
    BY <2>4 DEF linkVars, address, intent, pairing
  <2>5. \/ UserDisconnects /\ ScreensCleared
        \/ \E ip \in Lan \cup {Usb} : UserConnects(ip) /\ UNCHANGED screenVars
        \/ \E right \in BOOLEAN : PinEntered(right) /\ UNCHANGED screenVars
        \/ UNCHANGED linkVars /\ panels' = panels
    BY <1>3 DEF User, CreateVirtual, SelectMonitor, RemoveVirtual, MatchVirtual, pictures
  <2>6. QED BY <2>1, <2>2, <2>3, <2>4, <2>5
<1>4. CASE Outside /\ World
  <2>1. panels' = panels /\ UNCHANGED <<current_state, address, intent>>
    BY <1>4 DEF World, WorldChanges, PinChanged, Closed, screenVars, pictures
  <2>2. net' \in [up : BOOLEAN, lan : Lan \cup {None}, cable : BOOLEAN, full : BOOLEAN]
    BY <1>4 DEF World, WorldChanges, PinChanged, Closed
  <2>3. /\ tcp' = tcp \/ (tcp \in {"hello", "open"} /\ tcp' = "cut")
        /\ pin' \in BOOLEAN /\ prompt' = prompt
    BY <1>4 DEF World, WorldChanges, PinChanged, Closed, pairing
  <2>4. QED BY <2>1, <2>2, <2>3 DEF address, intent
<1>5. CASE Outside /\ (Others \/ Lose)
  <2>1. UNCHANGED linkVars
    BY <1>5 DEF Others, Lose
  <2>2. panels' = panels
    BY <1>5 DEF Others, Lose, TakenOver, OthersCreate, OthersRemove, OthersChange, FrameLost,
                FrameRefused, Sends, pictures
  <2>3. QED BY <2>1, <2>2 DEF linkVars, address, intent, pairing
<1>6. QED BY <1>1, <1>2, <1>3, <1>4, <1>5 DEF Outside

-----------------------------------------------------------------------------
(* Messages.                                                                *)

LEMMA AnswerIs ==
  ASSUME NEW a \in Answers
  PROVE  /\ a.type \in {"MONITOR_LIST", "STREAM_START", "STREAM_STOP", "RESULT"}
         /\ a.type = "MONITOR_LIST" => a.ids \subseteq Monitors
         /\ a.type \in {"STREAM_START", "STREAM_STOP"} => a.id \in Monitors
         /\ a.type = "RESULT" => a.ok \in BOOLEAN /\ a.removed \in BOOLEAN /\ (a.ok => a.id \in Monitors)
  BY DEF Answers

LEMMA RequestIs ==
  ASSUME NEW r \in Requests
  PROVE  /\ r.type = "SELECT" => r.ids \subseteq Monitors
         /\ r.type \in {"REMOVE", "REQUEST_KEYFRAME"} => r.id \in Monitors
  BY DEF Requests

LEMMA AnswersAre ==
  /\ \A S \in SUBSET Monitors : List(S) \in Answers /\ List(S).type = "MONITOR_LIST" /\ List(S).ids = S
  /\ \A m \in Monitors :
       /\ About("STREAM_START", m) \in Answers /\ About("STREAM_START", m).type = "STREAM_START"
       /\ About("STREAM_START", m).id = m
       /\ About("STREAM_STOP", m) \in Answers /\ About("STREAM_STOP", m).type = "STREAM_STOP"
       /\ About("STREAM_STOP", m).id = m
  /\ \A removed \in BOOLEAN, m \in Monitors :
       /\ Result(TRUE, removed, m) \in Answers /\ Result(TRUE, removed, m).type = "RESULT"
       /\ Result(FALSE, removed, m) \in Answers /\ Result(FALSE, removed, m).type = "RESULT"
  /\ Result(FALSE, FALSE, Nil) \in Answers /\ Result(FALSE, FALSE, Nil).type = "RESULT"
<1>1. Nil \notin Monitors
  BY ScreensAssumption
<1>2. \A S \in SUBSET Monitors : List(S) \in Answers /\ List(S).type = "MONITOR_LIST" /\ List(S).ids = S
  BY DEF List, Answers
<1>3. \A m \in Monitors :
       /\ About("STREAM_START", m) \in Answers /\ About("STREAM_START", m).type = "STREAM_START"
       /\ About("STREAM_START", m).id = m
       /\ About("STREAM_STOP", m) \in Answers /\ About("STREAM_STOP", m).type = "STREAM_STOP"
       /\ About("STREAM_STOP", m).id = m
  BY DEF About, Answers
<1>4. \A removed \in BOOLEAN, m \in Monitors :
       /\ Result(TRUE, removed, m) \in Answers /\ Result(TRUE, removed, m).type = "RESULT"
       /\ Result(FALSE, removed, m) \in Answers /\ Result(FALSE, removed, m).type = "RESULT"
  BY <1>1 DEF Result, Answers
<1>5. Result(FALSE, FALSE, Nil) \in Answers /\ Result(FALSE, FALSE, Nil).type = "RESULT"
  BY DEF Result, Answers
<1>6. QED BY <1>2, <1>3, <1>4, <1>5

LEMMA RequestsAre ==
  /\ \A S \in SUBSET Monitors : Select(S) \in Requests /\ Select(S).type = "SELECT" /\ Select(S).ids = S
  /\ \A m \in Monitors :
       /\ About("REMOVE", m) \in Requests /\ About("REMOVE", m).type = "REMOVE"
       /\ About("REQUEST_KEYFRAME", m) \in Requests
       /\ About("REQUEST_KEYFRAME", m).type = "REQUEST_KEYFRAME"
  /\ [type |-> "CREATE"] \in Requests
  BY DEF Select, About, Requests

(* The client reads a message.                                              *)
LEMMA ReadOne ==
  ASSUME WiresOK, Reading, toClient' = Tail(toClient)
  PROVE  /\ Message = toClient[1] /\ toClient[1] \in Answers /\ 1 \in Unread
         /\ toClient' \in Seq(Answers) /\ Len(toClient') = Len(toClient) - 1
         /\ Len(toClient) \in Nat /\ Len(toClient) # 0
         /\ \A k \in 1..Len(toClient') : toClient'[k] = toClient[k + 1]
  BY DEF WiresOK, Reading, Message, Unread

(* The host sends some.                                                     *)
LEMMA Told ==
  ASSUME WiresOK, NEW more \in Seq(Answers), toClient' = toClient \o more
  PROVE  /\ toClient' \in Seq(Answers) /\ Len(toClient') = Len(toClient) + Len(more)
         /\ Len(toClient) \in Nat /\ Len(more) \in Nat
         /\ \A k \in 1..Len(toClient) : toClient'[k] = toClient[k]
         /\ \A i \in 1..Len(more) : toClient'[Len(toClient) + i] = more[i]
  BY ConcatProperties DEF WiresOK

LEMMA ToldOne ==
  ASSUME WiresOK, NEW x \in Answers
  PROVE  Append(toClient, x) = toClient \o <<x>> /\ <<x>> \in Seq(Answers)
<1>1. toClient \in Seq(Answers)
  BY DEF WiresOK
<1>2. <<x>> \in Seq(Answers)
  OBVIOUS
<1>3. Append(toClient, x) = toClient \o <<x>>
  BY <1>1, AppendIsConcat
<1>4. QED BY <1>2, <1>3

(* The client asks for something, and the host takes it up.                 *)
LEMMA SentOne ==
  ASSUME WiresOK, NEW r \in Requests, Send(r)
  PROVE  /\ toHost' \in Seq(Requests)
         /\ r.type = "SELECT" => Selects' = Selects \cup {r.ids}
         /\ r.type # "SELECT" => Selects' = Selects
<1>1. toHost \in Seq(Requests) /\ toHost' = Append(toHost, r) /\ Len(toHost) \in Nat
  BY DEF WiresOK, Send
<1>2. /\ toHost' \in Seq(Requests) /\ Len(toHost') = Len(toHost) + 1 /\ toHost'[Len(toHost) + 1] = r
      /\ \A i \in 1..Len(toHost) : toHost'[i] = toHost[i]
  BY <1>1
<1>3. \A i : i \in 1..Len(toHost') <=> i \in 1..Len(toHost) \/ i = Len(toHost) + 1
  BY <1>1, <1>2
<1>4. \A S : S \in Selects' <=> \E i \in 1..Len(toHost') : toHost'[i].type = "SELECT" /\ S = toHost'[i].ids
  BY DEF Selects
<1>5. \A S : S \in Selects <=> \E i \in 1..Len(toHost) : toHost[i].type = "SELECT" /\ S = toHost[i].ids
  BY DEF Selects
<1>6. \A S : S \in Selects' <=> S \in Selects \/ (r.type = "SELECT" /\ S = r.ids)
  BY <1>2, <1>3, <1>4, <1>5
<1>7. QED BY <1>2, <1>6

LEMMA HandledOne ==
  ASSUME WiresOK, toHost # <<>>, toHost' = Tail(toHost)
  PROVE  /\ toHost' \in Seq(Requests) /\ Head(toHost) \in Requests
         /\ Selects' \subseteq Selects
         /\ Head(toHost).type = "SELECT" => Selects \subseteq Selects' \cup {Head(toHost).ids}
         /\ Head(toHost).type # "SELECT" => Selects = Selects'
<1>1. /\ toHost \in Seq(Requests) /\ Len(toHost) \in Nat /\ Len(toHost') = Len(toHost) - 1
      /\ toHost' \in Seq(Requests) /\ Head(toHost) = toHost[1] /\ Head(toHost) \in Requests
      /\ \A i \in 1..Len(toHost') : toHost'[i] = toHost[i + 1]
  BY DEF WiresOK
<1>2. \A i \in 1..Len(toHost') : i + 1 \in 1..Len(toHost)
  BY <1>1
<1>3. \A i \in 1..Len(toHost) : i = 1 \/ (i - 1 \in 1..Len(toHost') /\ toHost'[i - 1] = toHost[i])
  BY <1>1
<1>4. \A S : S \in Selects' <=> \E i \in 1..Len(toHost') : toHost'[i].type = "SELECT" /\ S = toHost'[i].ids
  BY DEF Selects
<1>5. \A S : S \in Selects <=> \E i \in 1..Len(toHost) : toHost[i].type = "SELECT" /\ S = toHost[i].ids
  BY DEF Selects
<1>6. \A S : S \in Selects' => S \in Selects
  BY <1>1, <1>2, <1>4, <1>5
<1>7. \A S : S \in Selects => S \in Selects' \/ (toHost[1].type = "SELECT" /\ S = toHost[1].ids)
  BY <1>3, <1>4, <1>5
<1>8. QED BY <1>1, <1>6, <1>7

LEMMA StopsAre ==
  ASSUME NEW M \in SUBSET Monitors
  PROVE  /\ Stops(M) \in Seq(Answers) /\ Len(Stops(M)) \in Nat
         /\ \A k \in 1..Len(Stops(M)) : Stops(M)[k].type = "STREAM_STOP" /\ Stops(M)[k].id \in M
         /\ \A m \in M : \E k \in 1..Len(Stops(M)) :
              Stops(M)[k].type = "STREAM_STOP" /\ Stops(M)[k].id = m
<1> DEFINE S == {About("STREAM_STOP", m) : m \in M}
<1>1. IsFiniteSet(M)
  BY ScreensAssumption, FS_Subset
<1>2. IsFiniteSet(S)
  <2>1. [m \in M |-> About("STREAM_STOP", m)] \in Surjection(M, S)
    BY DEF Surjection
  <2>2. QED BY <1>1, <2>1, FS_Surjection
<1>3. Stops(M) \in Seq(S) /\ ToSet(Stops(M)) = S
  BY <1>2, SeqOfSet DEF Stops
<1>4. S \subseteq Answers
  BY AnswersAre
<1>5. Stops(M) \in Seq(Answers)
  BY <1>3, <1>4, SeqMonotonic
<1>6. \A x : x \in S <=> \E i \in 1..Len(Stops(M)) : x = Stops(M)[i]
  BY <1>3, ToSetIs
<1>7. Len(Stops(M)) \in Nat
  BY <1>5
<1>8. \A m \in M : About("STREAM_STOP", m).type = "STREAM_STOP" /\ About("STREAM_STOP", m).id = m
  BY AnswersAre
<1>9. \A x : x \in S <=> \E m \in M : x = About("STREAM_STOP", m)
  OBVIOUS
<1>10. \A x \in S : x.type = "STREAM_STOP" /\ x.id \in M
  BY <1>8, <1>9
<1>11. \A m \in M : \E x \in S : x.type = "STREAM_STOP" /\ x.id = m
  BY <1>8, <1>9
<1> HIDE DEF S
<1>12. \A k \in 1..Len(Stops(M)) : Stops(M)[k] \in S
  BY <1>6
<1>13. \A x \in S : \E k \in 1..Len(Stops(M)) : Stops(M)[k] = x
  BY <1>6
<1>14. QED BY <1>5, <1>7, <1>10, <1>11, <1>12, <1>13

-----------------------------------------------------------------------------
(* The host sends messages.                                                 *)

New == (Len(toClient) + 1)..Len(toClient')

(* What all its steps have in common, on a connection that is open.         *)
HostTells ==
  /\ tcp = "open" /\ UNCHANGED <<active, available, panels, pending, tcp>>
  /\ Len(toClient') \in Nat /\ Len(toClient) <= Len(toClient')
  /\ \A k \in Unread : toClient'[k] = toClient[k]
  /\ \A k \in New :
       \/ toClient'[k].type = "RESULT"
       \/ toClient'[k].type = "STREAM_STOP" /\ streams'[toClient'[k].id] # "live"
       \/ /\ toClient'[k].type = "STREAM_START" /\ k = Len(toClient')
          /\ streams'[toClient'[k].id] = "live" /\ toClient'[k].id \in monitors
       \/ toClient'[k].type = "MONITOR_LIST" /\ k = Len(toClient') /\ toClient'[k].ids = monitors'
  /\ monitors' # monitors => Len(toClient') \in New /\ toClient'[Len(toClient')].type = "MONITOR_LIST"
  /\ monitors' \subseteq Monitors /\ \E x : monitors \ {x} \subseteq monitors'
  /\ \A m \in Monitors :
       /\ streams[m] # "none" /\ streams'[m] = "none" => \E k \in New : Stopping(k, m)'
       /\ streams[m] # "live" /\ streams'[m] = "live" => \E k \in New : Starts(k, m)'
       /\ streams[m] = "live" => streams'[m] \in {"live", "none"}
       /\ streams'[m] # "none" => m \in monitors'
       /\ Keeping(m) => Keeping(m)' \/ streams'[m] # "none" \/ m \notin monitors
       /\ Dropping(m) => Dropping(m)' \/ streams'[m] # "live"

LEMMA TellsSplits ==
  ASSUME HostTells, Len(toClient) \in Nat
  PROVE  /\ \A k : k \in Unread' <=> k \in Unread \/ k \in New
         /\ \A k \in Unread, j \in New : j \in Later(k)'
         /\ \A k \in Unread : Later(k) \subseteq Later(k)'
         /\ \A k \in New : k \notin Unread
  BY DEF HostTells, Unread, New, Later

LEMMA TellsView ==
  ASSUME HostTells, WiresOK, NEW v, View(v), ListsInv(v)
  PROVE  \E w : /\ View(w)' /\ w[Len(toClient')] = monitors'
                /\ \A k \in 0..Len(toClient) : w[k] = v[k]
                /\ \A k \in New : w[k - 1] = monitors
<1> DEFINE N == Len(toClient)
           M == Len(toClient')
<1>1. N \in Nat /\ M \in Nat /\ N <= M /\ New = (N + 1)..M
  BY DEF WiresOK, HostTells, New
<1>2. PICK w : w = [k \in 0..M |-> IF k \in New /\ k = M THEN monitors' ELSE IF k <= N THEN v[k] ELSE monitors]
  OBVIOUS
<1>3. /\ v \in [0..N -> SUBSET Monitors] /\ v[0] = available /\ v[N] = monitors
      /\ \A k \in 1..N : v[k] = IF Lists(k) THEN toClient[k].ids ELSE v[k - 1]
  BY DEF View, ListsInv, HostTells, Unread
<1>4. monitors \subseteq Monitors /\ monitors' \subseteq Monitors
  BY <1>1, <1>3 DEF HostTells
<1>5. w \in [0..M -> SUBSET Monitors]
  BY <1>1, <1>2, <1>3, <1>4
<1>6. \A k \in 0..N : w[k] = v[k]
  BY <1>1, <1>2
<1>7. \A k \in New : w[k - 1] = monitors
  BY <1>1, <1>2, <1>3
<1>8. w[M] = monitors'
  <2>1. CASE M \in New
    BY <1>1, <1>2, <2>1
  <2>2. CASE M \notin New
    <3>1. M = N /\ monitors' = monitors
      BY <1>1, <2>2 DEF HostTells
    <3>2. QED BY <1>1, <1>3, <1>6, <3>1
  <2>3. QED BY <2>1, <2>2
<1>9. \A k \in 1..M : w[k] = IF Lists(k)' THEN toClient'[k].ids ELSE w[k - 1]
  <2>1. ASSUME NEW k \in 1..N PROVE w[k] = IF Lists(k)' THEN toClient'[k].ids ELSE w[k - 1]
    BY <1>1, <1>3, <1>6 DEF HostTells, Unread, Lists
  <2>2. ASSUME NEW k \in New PROVE w[k] = IF Lists(k)' THEN toClient'[k].ids ELSE w[k - 1]
    <3>1. CASE k = M
      <4>1. Lists(k)' => toClient'[k].ids = monitors'
        BY DEF HostTells, Lists
      <4>2. ~Lists(k)' => monitors' = monitors
        BY <3>1 DEF HostTells, Lists
      <4>3. QED BY <1>7, <1>8, <3>1, <4>1, <4>2
    <3>2. CASE k # M
      <4>1. ~Lists(k)'
        BY <3>2 DEF HostTells, Lists
      <4>2. w[k] = monitors
        BY <1>1, <1>2, <3>2
      <4>3. QED BY <1>7, <4>1, <4>2
    <3>3. QED BY <3>1, <3>2
  <2>3. QED BY <1>1, <2>1, <2>2
<1>10. View(w)'
  <2>1. w[0] = available'
    BY <1>1, <1>3, <1>6 DEF HostTells
  <2>2. QED BY <1>5, <1>9, <2>1 DEF View, Unread
<1>11. QED BY <1>6, <1>7, <1>8, <1>10

(* What was unread stays so, at its place.                                  *)
LEMMA TellsCarries ==
  ASSUME HostTells
  PROVE  /\ \A k \in Unread : /\ Lists(k)' = Lists(k) /\ toClient'[k] = toClient[k]
                              /\ \A m \in Monitors : /\ Starts(k, m)' = Starts(k, m)
                                                     /\ Stopping(k, m)' = Stopping(k, m)
                                                     /\ Drops(k, m)' = Drops(k, m)
  BY DEF HostTells, Lists, Starts, Stopping, Drops

(* What is new.                                                             *)
LEMMA TellsNews ==
  ASSUME HostTells, NEW m \in Monitors, NEW k \in New
  PROVE  /\ Starts(k, m)' => streams'[m] = "live" /\ m \in monitors
         /\ Stopping(k, m)' => streams'[m] # "live"
         /\ Lists(k)' => k = Len(toClient') /\ toClient'[k].ids = monitors'
  BY DEF HostTells, Lists, Starts, Stopping, Drops

LEMMA TellsStarted ==
  ASSUME HostTells, Len(toClient) \in Nat, NEW m \in Monitors
  PROVE  /\ Started(m) => Started(m)'
         /\ streams'[m] = "live" => streams[m] = "live" \/ Started(m)'
<1>1. \A k : k \in Unread' <=> k \in Unread \/ k \in New
  BY TellsSplits
<1>2. Started(m) => Started(m)'
  BY <1>1, TellsCarries DEF Started
<1>3. streams[m] # "live" /\ streams'[m] = "live" => \E k \in New : Starts(k, m)'
  BY DEF HostTells
<1>4. QED BY <1>1, <1>2, <1>3 DEF Started

LEMMA TellsUnread ==
  ASSUME HostTells, WiresOK, UnreadInv
  PROVE  UnreadInv'
<1> DEFINE N == Len(toClient)
           M == Len(toClient')
<1>1. PICK v : View(v) /\ ListsInv(v) /\ OrderInv(v)
  BY DEF UnreadInv
<1>2. PICK w : /\ View(w)' /\ w[M] = monitors'
               /\ \A k \in 0..N : w[k] = v[k]
               /\ \A k \in New : w[k - 1] = monitors
  BY <1>1, TellsView
<1>3. N \in Nat /\ M \in Nat /\ N <= M /\ New = (N + 1)..M /\ Unread = 1..N /\ Unread' = 1..M
  BY DEF WiresOK, HostTells, New, Unread
<1>4. tcp = "open" /\ tcp' = "open" /\ v[N] = monitors
  BY <1>1 DEF HostTells, ListsInv
<1>5. /\ \A k : k \in Unread' <=> k \in Unread \/ k \in New
      /\ \A k \in Unread, j \in New : j \in Later(k)'
      /\ \A k \in Unread : Later(k) \subseteq Later(k)' /\ Later(k) \subseteq Unread
  BY <1>3, TellsSplits DEF Later, Unread
<1>6. ListsInv(w)'
  <2>1. ASSUME NEW k \in 0..M, NEW m \in Monitors, m \in w[k], m \notin monitors'
        PROVE  \E j \in Later(k)' : Drops(j, m)'
    <3>1. k # M
      BY <1>2, <2>1
    <3>2. CASE m \in monitors
      <4>1. PICK j \in New : j = M /\ toClient'[j].type = "MONITOR_LIST"
        BY <2>1, <3>2 DEF HostTells
      <4>2. Drops(j, m)'
        BY <2>1, <4>1, TellsNews DEF Drops, Lists
      <4>3. j \in Later(k)'
        BY <1>3, <3>1, <4>1 DEF Later
      <4>4. QED BY <4>2, <4>3
    <3>3. CASE m \notin monitors
      <4>1. k \in 0..N
        <5>1. CASE k > N
          <6>1. k + 1 \in New /\ (k + 1) - 1 = k
            BY <1>3, <3>1, <5>1
          <6>2. w[k] = monitors
            BY <1>2, <6>1
          <6>3. QED BY <2>1, <3>3, <6>2
        <5>2. QED BY <1>3, <5>1
      <4>2. m \in v[k]
        BY <1>2, <2>1, <4>1
      <4>3. PICK j \in Later(k) : Drops(j, m)
        BY <1>1, <1>4, <3>3, <4>1, <4>2 DEF ListsInv
      <4>4. j \in Later(k)' /\ j \in Unread
        BY <1>3, <4>1 DEF Later
      <4>5. QED BY <4>3, <4>4, TellsCarries
    <3>4. QED BY <3>2, <3>3
  <2>2. ASSUME NEW k \in Unread', Lists(k)'
        PROVE  \/ k = 1 /\ \A m \in Monitors : streams'[m] = "live" => Started(m)'
               \/ \E x : w[k - 1] \ {x} \subseteq w[k]
    <3>1. CASE k \in New
      <4>1. k = M /\ w[k - 1] = monitors /\ w[k] = monitors'
        BY <1>2, <2>2, <3>1, TellsNews DEF HostTells, Lists
      <4>2. PICK x : monitors \ {x} \subseteq monitors'
        BY DEF HostTells
      <4>3. QED BY <4>1, <4>2
    <3>2. CASE k \in Unread
      <4>1. Lists(k)
        BY <2>2, <3>2, TellsCarries
      <4>2. w[k - 1] = v[k - 1] /\ w[k] = v[k]
        BY <1>2, <1>3, <3>2
      <4>3. \/ k = 1 /\ \A m \in Monitors : streams[m] = "live" => Started(m)
            \/ \E x : v[k - 1] \ {x} \subseteq v[k]
        BY <1>1, <3>2, <4>1 DEF ListsInv
      <4>4. QED BY <1>3, <4>2, <4>3, TellsStarted
    <3>3. QED BY <1>5, <2>2, <3>1, <3>2
  <2>3. QED BY <1>2, <2>1, <2>2 DEF ListsInv
<1>7. OrderInv(w)'
  <2> SUFFICES ASSUME NEW m \in Monitors
               PROVE  /\ \A k \in Unread' : Starts(k, m)' => m \in w[k - 1]
                      /\ \A k \in Unread' : (Drops(k, m)' \/ Stopping(k, m)') /\ streams'[m] = "live" =>
                           \E j \in Later(k)' : Starts(j, m)'
                      /\ \A k \in Unread' : Starts(k, m)' =>
                           streams'[m] = "live" \/ \E j \in Later(k)' : Stopping(j, m)'
                      /\ streams'[m] # "none" => m \in monitors' /\ tcp' \in {"open", "cut"}
                      /\ streams'[m] = "live" => Started(m)' \/ m \in available'
    BY DEF OrderInv
  <2>1. ASSUME NEW k \in Unread', Starts(k, m)' PROVE m \in w[k - 1]
    <3>1. CASE k \in New
      BY <1>2, <2>1, <3>1, TellsNews
    <3>2. CASE k \in Unread
      <4>1. k - 1 \in 0..N
        BY <1>3, <3>2
      <4>2. m \in v[k - 1]
        BY <1>1, <2>1, <3>2, TellsCarries DEF OrderInv
      <4>3. QED BY <1>2, <4>1, <4>2
    <3>3. QED BY <1>5, <2>1, <3>1, <3>2
  <2>2. ASSUME NEW k \in Unread', Drops(k, m)' \/ Stopping(k, m)', streams'[m] = "live"
        PROVE  \E j \in Later(k)' : Starts(j, m)'
    <3>1. k \in Unread
      <4>1. k \notin New
        <5>1. Drops(k, m)' /\ k \in New => m \notin monitors'
          BY TellsNews DEF Drops
        <5>2. m \in monitors'
          BY <2>2 DEF HostTells
        <5>3. QED BY <2>2, <5>1, <5>2, TellsNews
      <4>2. QED BY <1>5, <2>2, <4>1
    <3>2. CASE streams[m] = "live"
      <4>1. PICK j \in Later(k) : Starts(j, m)
        BY <1>1, <2>2, <3>1, <3>2, TellsCarries DEF OrderInv
      <4>2. QED BY <1>5, <3>1, <4>1, TellsCarries
    <3>3. CASE streams[m] # "live"
      <4>1. PICK j \in New : Starts(j, m)'
        BY <2>2, <3>3 DEF HostTells
      <4>2. QED BY <1>5, <3>1, <4>1
    <3>4. QED BY <3>2, <3>3
  <2>3. ASSUME NEW k \in Unread', Starts(k, m)', streams'[m] # "live"
        PROVE  \E j \in Later(k)' : Stopping(j, m)'
    <3>1. k \in Unread
      BY <1>5, <2>3, TellsNews
    <3>2. CASE streams[m] = "live"
      <4>1. streams'[m] = "none"
        BY <2>3, <3>2 DEF HostTells
      <4>2. PICK j \in New : Stopping(j, m)'
        BY <3>2, <4>1 DEF HostTells
      <4>3. QED BY <1>5, <3>1, <4>2
    <3>3. CASE streams[m] # "live"
      <4>1. PICK j \in Later(k) : Stopping(j, m)
        BY <1>1, <2>3, <3>1, <3>3, TellsCarries DEF OrderInv
      <4>2. QED BY <1>5, <3>1, <4>1, TellsCarries
    <3>4. QED BY <3>2, <3>3
  <2>4. streams'[m] # "none" => m \in monitors' /\ tcp' \in {"open", "cut"}
    BY <1>4 DEF HostTells
  <2>5. streams'[m] = "live" => Started(m)' \/ m \in available'
    <3>1. streams[m] = "live" => Started(m) \/ m \in available
      BY <1>1 DEF OrderInv
    <3>2. available' = available
      BY DEF HostTells
    <3>3. QED BY <1>3, <3>1, <3>2, TellsStarted
  <2>6. QED BY <2>1, <2>2, <2>3, <2>4, <2>5
<1>8. QED BY <1>2, <1>6, <1>7 DEF UnreadInv

LEMMA TellsPanels ==
  ASSUME HostTells, ScreensInv
  PROVE  FrozenInv' /\ StreamingInv'
<1>1. PICK v : View(v) /\ ListsInv(v) /\ OrderInv(v)
  BY DEF UnreadInv, ScreensInv
<1>2. Len(toClient) \in Nat /\ tcp = "open" /\ tcp' = "open" /\ panels' = panels /\ pending' = pending
  BY DEF WiresOK, HostTells, ScreensInv
<1>3. \A k : k \in Unread' <=> k \in Unread \/ k \in New
  BY <1>2, TellsSplits
<1>4. panels \subseteq Monitors /\ panels \subseteq available
  BY DEF ScreensInv, SelectionInv, ScreensTypeOK
<1>5. ASSUME NEW m \in panels
      PROVE  \/ streams'[m] # "none" \/ Keeping(m)'
             \/ \E k \in Unread' : Stopping(k, m)' \/ Drops(k, m)'
             \/ pending' = Nil /\ toClient' # <<>> /\ Lists(1)'
  <2>1. m \in Monitors
    BY <1>4
  <2>2. CASE streams[m] # "none" /\ streams'[m] = "none"
    BY <1>3, <2>1, <2>2 DEF HostTells
  <2>3. CASE Keeping(m)
    <3>1. CASE m \notin monitors
      <4>1. m \in v[0] /\ 0 \in 0..Len(toClient)
        BY <1>1, <1>2, <1>4 DEF View
      <4>2. PICK k \in Later(0) : Drops(k, m)
        BY <1>1, <1>2, <2>1, <3>1, <4>1 DEF ListsInv
      <4>3. k \in Unread
        BY DEF Later, Unread
      <4>4. QED BY <1>3, <2>1, <4>2, <4>3, TellsCarries
    <3>2. QED BY <2>1, <2>3, <3>1 DEF HostTells
  <2>4. CASE \E k \in Unread : Stopping(k, m) \/ Drops(k, m)
    BY <1>3, <2>1, <2>4, TellsCarries
  <2>5. CASE pending = Nil /\ toClient # <<>> /\ Lists(1)
    <3>1. 1 \in Unread /\ toClient' # <<>>
      BY <1>2, <2>5 DEF WiresOK, ScreensInv, Unread, HostTells
    <3>2. QED BY <1>2, <2>5, <3>1, TellsCarries
  <2>6. QED BY <1>2, <2>2, <2>3, <2>4, <2>5 DEF ScreensInv, FrozenInv
<1>6. ASSUME NEW m \in Monitors, streams'[m] = "live"
      PROVE  \/ Started(m)' \/ Dropping(m)'
             \/ m \in panels' /\ (m \in ToSet(active') \/ Two')
  <2>1. active' = active
    BY DEF HostTells
  <2>2. CASE streams[m] = "live"
    BY <1>2, <1>6, <2>1, <2>2, TellsStarted DEF ScreensInv, StreamingInv, HostTells, Two
  <2>3. CASE streams[m] # "live"
    BY <1>2, <1>6, <2>3, TellsStarted
  <2>4. QED BY <2>2, <2>3
<1>7. QED BY <1>2, <1>5, <1>6 DEF FrozenInv, StreamingInv

-----------------------------------------------------------------------------
(* Each step of the host.                                                   *)

LEMMA ToldNew ==
  ASSUME WiresOK, NEW more \in Seq(Answers), toClient' = toClient \o more
  PROVE  /\ toClient' \in Seq(Answers) /\ Len(toClient') \in Nat /\ Len(toClient) <= Len(toClient')
         /\ \A k \in Unread : toClient'[k] = toClient[k]
         /\ \A k \in New : \E i \in 1..Len(more) : toClient'[k] = more[i] /\ (i = Len(more) <=> k = Len(toClient'))
         /\ \A i \in 1..Len(more) : \E k \in New : toClient'[k] = more[i]
         /\ more # <<>> => Len(toClient') \in New /\ toClient'[Len(toClient')] = more[Len(more)]
<1>1. /\ toClient' \in Seq(Answers) /\ Len(toClient') = Len(toClient) + Len(more)
      /\ Len(toClient) \in Nat /\ Len(more) \in Nat
      /\ \A k \in 1..Len(toClient) : toClient'[k] = toClient[k]
      /\ \A i \in 1..Len(more) : toClient'[Len(toClient) + i] = more[i]
  BY Told
<1>2. \A k \in New : k - Len(toClient) \in 1..Len(more) /\ Len(toClient) + (k - Len(toClient)) = k
  BY <1>1 DEF New
<1>3. \A i \in 1..Len(more) : Len(toClient) + i \in New
  BY <1>1 DEF New
<1>4. \A k \in New : \E i \in 1..Len(more) : toClient'[k] = more[i] /\ (i = Len(more) <=> k = Len(toClient'))
  <2>1. ASSUME NEW k \in New
        PROVE  \E i \in 1..Len(more) : toClient'[k] = more[i] /\ (i = Len(more) <=> k = Len(toClient'))
    <3>1. toClient'[Len(toClient) + (k - Len(toClient))] = more[k - Len(toClient)]
      BY <1>1, <1>2
    <3>2. k \in Int /\ (k - Len(toClient) = Len(more) <=> k = Len(toClient'))
      BY <1>1 DEF New
    <3>3. QED BY <1>2, <3>1, <3>2
  <2>2. QED BY <2>1
<1>5. more # <<>> => Len(toClient') \in New /\ toClient'[Len(toClient')] = more[Len(more)]
  <2>1. more # <<>> => Len(more) \in 1..Len(more)
    BY <1>1
  <2>2. QED BY <1>1, <1>3, <2>1
<1>6. \A i \in 1..Len(more) : \E k \in New : toClient'[k] = more[i]
  BY <1>1, <1>3
<1>7. \A k \in Unread : toClient'[k] = toClient[k]
  BY <1>1 DEF Unread
<1>8. Len(toClient') \in Nat /\ Len(toClient) <= Len(toClient')
  BY <1>1
<1>9. QED BY <1>1, <1>4, <1>5, <1>6, <1>7, <1>8

(* What a step that leaves the requests alone, or takes up another one than *)
(* a selection, does to the selections: nothing.                            *)
LEMMA SelectsKept ==
  /\ UNCHANGED toHost => Selects' = Selects
  /\ WiresOK /\ toHost # <<>> /\ toHost' = Tail(toHost) /\ Head(toHost).type # "SELECT" => Selects' = Selects
  BY HandledOne DEF Selects

LEMMA RequestsKept ==
  ASSUME WiresOK
  PROVE  /\ UNCHANGED toHost => toHost' \in Seq(Requests)
         /\ toHost # <<>> /\ toHost' = Tail(toHost) => toHost' \in Seq(Requests)
  BY HandledOne DEF WiresOK

LEMMA StreamsInv ==
  ASSUME ScreensInv
  PROVE  /\ \A m \in Monitors : streams[m] # "none" => m \in monitors
         /\ streams \in [Monitors -> {"none", "starting", "live"}] /\ monitors \subseteq Monitors
         /\ WiresOK
  BY DEF ScreensInv, UnreadInv, OrderInv, ScreensTypeOK

LEMMA HostSelectsTells ==
  ASSUME ScreensInv, tcp = "open", UNCHANGED tcp, HostSelects
  PROVE  HostTells /\ WiresOK'
<1> DEFINE asked_ids == Head(toHost).ids
           R == Running(Monitors \ (asked_ids \cap monitors))
<1>1. R \in SUBSET Monitors /\ streams \in [Monitors -> {"none", "starting", "live"}] /\ WiresOK
  BY StreamsInv DEF Running
<1>2. /\ toHost # <<>> /\ toHost' = Tail(toHost) /\ Head(toHost).type = "SELECT"
      /\ streams' = [m \in Monitors |-> IF m \notin asked_ids \cap monitors THEN "none"
                                        ELSE IF streams[m] = "none" THEN "starting" ELSE streams[m]]
      /\ toClient' = toClient \o Stops(R)
      /\ UNCHANGED <<active, available, panels, pending, monitors>>
  BY DEF HostSelects, Request, selection, pictures
<1>3. /\ Stops(R) \in Seq(Answers) /\ Len(Stops(R)) \in Nat
      /\ \A i \in 1..Len(Stops(R)) : Stops(R)[i].type = "STREAM_STOP" /\ Stops(R)[i].id \in R
      /\ \A m \in R : \E i \in 1..Len(Stops(R)) : Stops(R)[i].type = "STREAM_STOP" /\ Stops(R)[i].id = m
  BY <1>1, StopsAre
<1>4. /\ toClient' \in Seq(Answers) /\ Len(toClient') \in Nat /\ Len(toClient) <= Len(toClient')
      /\ \A k \in Unread : toClient'[k] = toClient[k]
      /\ \A k \in New : \E i \in 1..Len(Stops(R)) : toClient'[k] = Stops(R)[i]
      /\ \A i \in 1..Len(Stops(R)) : \E k \in New : toClient'[k] = Stops(R)[i]
  BY <1>1, <1>2, <1>3, ToldNew, ZenonT(40)
<1> HIDE DEF R
<1>5. \A k \in New : toClient'[k].type = "STREAM_STOP" /\ toClient'[k].id \in R
  BY <1>3, <1>4
<1>6. ASSUME NEW m \in R PROVE \E k \in New : Stopping(k, m)'
  <2>1. PICK i \in 1..Len(Stops(R)) : Stops(R)[i].type = "STREAM_STOP" /\ Stops(R)[i].id = m
    BY <1>3
  <2>2. PICK k \in New : toClient'[k] = Stops(R)[i]
    BY <1>4
  <2>3. QED BY <2>1, <2>2 DEF Stopping
<1>7. \A m \in Monitors : m \in R <=> m \notin asked_ids \cap monitors /\ streams[m] # "none"
  BY DEF R, Running
<1>8. /\ toHost' \in Seq(Requests) /\ Selects \subseteq Selects' \cup {asked_ids}
  BY <1>1, <1>2, HandledOne
<1>9. ASSUME NEW m \in Monitors
      PROVE  /\ streams[m] # "none" /\ streams'[m] = "none" => \E k \in New : Stopping(k, m)'
             /\ streams[m] # "live" => streams'[m] # "live"
             /\ streams[m] = "live" => streams'[m] \in {"live", "none"}
             /\ streams'[m] # "none" => m \in monitors'
             /\ Keeping(m) => Keeping(m)' \/ streams'[m] # "none" \/ m \notin monitors
             /\ Dropping(m) => Dropping(m)' \/ streams'[m] # "live"
  <2>1. m \in asked_ids \cap monitors => streams'[m] # "none" /\ (streams[m] # "none" => streams'[m] = streams[m])
    BY <1>1, <1>2
  <2>2. m \notin asked_ids \cap monitors => streams'[m] = "none"
    BY <1>2
  <2>3. streams[m] = "none" => streams'[m] # "live"
    BY <1>1, <1>2
  <2>4. Keeping(m) => Keeping(m)' \/ m \in asked_ids
    BY <1>8 DEF Keeping
  <2>5. Dropping(m) => Dropping(m)' \/ m \notin asked_ids
    BY <1>8 DEF Dropping
  <2>6. QED BY <1>2, <1>6, <1>7, <2>1, <2>2, <2>3, <2>4, <2>5
<1>10. \A k \in New : toClient'[k].type = "STREAM_STOP" /\ streams'[toClient'[k].id] # "live"
  BY <1>1, <1>2, <1>5, <1>7
<1>11. monitors' \subseteq Monitors /\ monitors' = monitors /\ monitors \ {0} \subseteq monitors'
  BY <1>2, StreamsInv
<1>12. QED BY <1>2, <1>4, <1>8, <1>9, <1>10, <1>11 DEF HostTells, WiresOK

(* What the messages `more` tell of a step.                                 *)
Orderly(more) ==
  \A i \in 1..Len(more) :
    \/ more[i].type = "RESULT"
    \/ more[i].type = "STREAM_STOP" /\ streams'[more[i].id] # "live"
    \/ /\ more[i].type = "STREAM_START" /\ i = Len(more)
       /\ streams'[more[i].id] = "live" /\ more[i].id \in monitors
    \/ more[i].type = "MONITOR_LIST" /\ i = Len(more) /\ more[i].ids = monitors'
Listed(more) ==
  /\ monitors' # monitors => more # <<>> /\ more[Len(more)].type = "MONITOR_LIST"
  /\ monitors' \subseteq Monitors /\ \E x : monitors \ {x} \subseteq monitors'
Mentions(more, type, m) == \E i \in 1..Len(more) : more[i].type = type /\ more[i].id = m
Announced(more) ==
  \A m \in Monitors :
    /\ streams[m] # "none" /\ streams'[m] = "none" => Mentions(more, "STREAM_STOP", m)
    /\ streams[m] # "live" /\ streams'[m] = "live" => Mentions(more, "STREAM_START", m)
    /\ streams[m] = "live" => streams'[m] \in {"live", "none"}
    /\ streams'[m] # "none" => m \in monitors'

LEMMA TellsMore ==
  ASSUME ScreensInv, tcp = "open", UNCHANGED <<active, available, panels, pending, tcp>>,
         Selects' = Selects, NEW more \in Seq(Answers), toClient' = toClient \o more,
         Orderly(more), Listed(more), Announced(more)
  PROVE  HostTells /\ toClient' \in Seq(Answers)
<1>1. WiresOK
  BY DEF ScreensInv
<1>2. /\ toClient' \in Seq(Answers) /\ Len(toClient') \in Nat /\ Len(toClient) <= Len(toClient')
      /\ \A k \in Unread : toClient'[k] = toClient[k]
      /\ \A k \in New : \E i \in 1..Len(more) : toClient'[k] = more[i] /\ (i = Len(more) <=> k = Len(toClient'))
      /\ \A i \in 1..Len(more) : \E k \in New : toClient'[k] = more[i]
      /\ more # <<>> => Len(toClient') \in New /\ toClient'[Len(toClient')] = more[Len(more)]
  BY <1>1, ToldNew
<1>3. ASSUME NEW k \in New
      PROVE  \/ toClient'[k].type = "RESULT"
             \/ toClient'[k].type = "STREAM_STOP" /\ streams'[toClient'[k].id] # "live"
             \/ /\ toClient'[k].type = "STREAM_START" /\ k = Len(toClient')
                /\ streams'[toClient'[k].id] = "live" /\ toClient'[k].id \in monitors
             \/ toClient'[k].type = "MONITOR_LIST" /\ k = Len(toClient') /\ toClient'[k].ids = monitors'
  <2>1. PICK i \in 1..Len(more) : toClient'[k] = more[i] /\ (i = Len(more) <=> k = Len(toClient'))
    BY <1>2
  <2>2. QED BY <2>1 DEF Orderly
<1>4. ASSUME NEW m \in Monitors
      PROVE  /\ streams[m] # "none" /\ streams'[m] = "none" => \E k \in New : Stopping(k, m)'
             /\ streams[m] # "live" /\ streams'[m] = "live" => \E k \in New : Starts(k, m)'
             /\ Keeping(m) => Keeping(m)' \/ streams'[m] # "none" \/ m \notin monitors
             /\ Dropping(m) => Dropping(m)' \/ streams'[m] # "live"
  <2>1. ASSUME streams[m] # "none", streams'[m] = "none" PROVE \E k \in New : Stopping(k, m)'
    <3>1. PICK i \in 1..Len(more) : more[i].type = "STREAM_STOP" /\ more[i].id = m
      BY <2>1 DEF Announced, Mentions
    <3>2. PICK k \in New : toClient'[k] = more[i]
      BY <1>2
    <3>3. QED BY <3>1, <3>2 DEF Stopping
  <2>2. ASSUME streams[m] # "live", streams'[m] = "live" PROVE \E k \in New : Starts(k, m)'
    <3>1. PICK i \in 1..Len(more) : more[i].type = "STREAM_START" /\ more[i].id = m
      BY <2>2 DEF Announced, Mentions
    <3>2. PICK k \in New : toClient'[k] = more[i]
      BY <1>2
    <3>3. QED BY <3>1, <3>2 DEF Starts
  <2>3. Keeping(m)' = Keeping(m) /\ Dropping(m)' = Dropping(m)
    BY DEF Keeping, Dropping
  <2>4. QED BY <2>1, <2>2, <2>3
<1>5. monitors' # monitors => Len(toClient') \in New /\ toClient'[Len(toClient')].type = "MONITOR_LIST"
  BY <1>2 DEF Listed
<1>6. QED BY <1>2, <1>3, <1>4, <1>5 DEF HostTells, Listed, Announced

LEMMA OneTells ==
  ASSUME NEW x \in Answers
  PROVE  <<x>> \in Seq(Answers) /\ Len(<<x>>) = 1 /\ <<x>>[1] = x /\ <<x>> # <<>>
  OBVIOUS

LEMMA TwoTell ==
  ASSUME NEW x \in Answers, NEW y \in Answers
  PROVE  <<x, y>> \in Seq(Answers) /\ Len(<<x, y>>) = 2 /\ <<x, y>>[1] = x /\ <<x, y>>[2] = y /\ <<x, y>> # <<>>
  OBVIOUS

(* The place of a single message, and of two.                               *)
LEMMA Places ==
  /\ \A n \in Nat : n = 1 => \A i \in 1..n : i = 1
  /\ \A n \in Nat : n = 2 => \A i \in 1..n : i = 1 \/ i = 2
  OBVIOUS

LEMMA HostStartsTells ==
  ASSUME ScreensInv, tcp = "open", UNCHANGED tcp, NEW m \in Monitors, HostStarts(m)
  PROVE  HostTells /\ WiresOK'
<1>1. /\ streams \in [Monitors -> {"none", "starting", "live"}] /\ WiresOK
      /\ \A n \in Monitors : streams[n] # "none" => n \in monitors
      /\ monitors \subseteq Monitors
  BY StreamsInv
<1>2. /\ streams[m] = "starting" /\ streams' = [streams EXCEPT ![m] = "live"]
      /\ toClient' = Append(toClient, About("STREAM_START", m))
      /\ UNCHANGED <<active, available, panels, pending, monitors, toHost>>
  BY DEF HostStarts, selection, pictures
<1>3. PICK a \in Answers : a = About("STREAM_START", m) /\ a.type = "STREAM_START" /\ a.id = m
  BY AnswersAre
<1>4. toClient' = toClient \o <<a>> /\ <<a>> \in Seq(Answers) /\ Len(<<a>>) = 1 /\ <<a>>[1] = a
  BY <1>1, <1>2, <1>3, ToldOne, OneTells
<1>5. HostTells /\ toClient' \in Seq(Answers)
  <2>1. Selects' = Selects
    BY <1>2, SelectsKept
  <2>2. \A i \in 1..Len(<<a>>) : <<a>>[i].type = "STREAM_START" /\ <<a>>[i].id = m /\ i = Len(<<a>>)
    BY <1>3, <1>4
  <2>3. streams'[m] = "live" /\ m \in monitors
    BY <1>1, <1>2
  <2>4. \A n \in Monitors : n # m => streams'[n] = streams[n]
    BY <1>1, <1>2
  <2>5. 1 \in 1..Len(<<a>>)
    BY <1>4
  <2>6. Orderly(<<a>>)
    BY <2>2, <2>3 DEF Orderly
  <2>7. Listed(<<a>>)
    BY <1>1, <1>2 DEF Listed
  <2>8. Announced(<<a>>)
    BY <1>1, <1>2, <2>2, <2>3, <2>4, <2>5 DEF Announced, Mentions
  <2>9. QED BY <1>1, <1>2, <1>4, <2>1, <2>6, <2>7, <2>8, TellsMore
<1>6. QED BY <1>1, <1>2, <1>5, RequestsKept DEF WiresOK

(* Steps without a change of streams.                                       *)
LEMMA SameStreams ==
  ASSUME ScreensInv, streams' = streams, monitors \subseteq monitors', NEW more
  PROVE  Announced(more)
<1>1. /\ \A m \in Monitors : streams[m] # "none" => m \in monitors
      /\ streams \in [Monitors -> {"none", "starting", "live"}]
  BY StreamsInv
<1>2. QED BY <1>1 DEF Announced

LEMMA HostCreatesTells ==
  ASSUME ScreensInv, tcp = "open", UNCHANGED tcp, HostCreates
  PROVE  HostTells /\ WiresOK'
<1>1. WiresOK /\ monitors \subseteq Monitors
  BY StreamsInv
<1>2. /\ toHost # <<>> /\ Head(toHost).type = "CREATE" /\ toHost' = Tail(toHost) /\ streams' = streams
      /\ UNCHANGED <<active, available, panels, pending>>
  BY DEF HostCreates, Request, selection, pictures
<1>3. Selects' = Selects /\ toHost' \in Seq(Requests)
  BY <1>1, <1>2, SelectsKept, RequestsKept
<1>4. ASSUME NEW m \in Virtual \ monitors, monitors' = monitors \cup {m},
             toClient' = toClient \o <<Result(TRUE, FALSE, m), List(monitors')>>
      PROVE  HostTells /\ WiresOK'
  <2>1. m \in Monitors /\ monitors' \in SUBSET Monitors
    BY <1>1, <1>4 DEF Monitors
  <2>2. PICK r \in Answers : r = Result(TRUE, FALSE, m) /\ r.type = "RESULT"
    BY <2>1, AnswersAre
  <2>3. PICK l \in Answers : l = List(monitors') /\ l.type = "MONITOR_LIST" /\ l.ids = monitors'
    BY <2>1, AnswersAre
  <2>4. PICK more \in Seq(Answers) : more = <<r, l>>
    BY TwoTell
  <2>5. /\ toClient' = toClient \o more /\ Len(more) = 2 /\ more[1] = r /\ more[2] = l /\ more # <<>>
    BY <1>4, <2>2, <2>3, <2>4
  <2>6. Orderly(more)
    BY <2>2, <2>3, <2>5, Places DEF Orderly
  <2>7. Listed(more)
    BY <1>4, <2>1, <2>3, <2>5 DEF Listed
  <2>8. Announced(more)
    BY <1>2, <1>4, SameStreams
  <2>9. QED BY <1>2, <1>3, <2>5, <2>6, <2>7, <2>8, TellsMore DEF WiresOK
<1>5. ASSUME monitors' = monitors, toClient' = Append(toClient, Result(FALSE, FALSE, Nil))
      PROVE  HostTells /\ WiresOK'
  <2>1. PICK r \in Answers : r = Result(FALSE, FALSE, Nil) /\ r.type = "RESULT"
    BY AnswersAre
  <2>2. PICK more \in Seq(Answers) : more = <<r>>
    BY OneTells
  <2>3. toClient' = toClient \o more /\ Len(more) = 1 /\ more[1] = r
    BY <1>1, <1>5, <2>1, <2>2, ToldOne, OneTells
  <2>4. Orderly(more)
    BY <2>1, <2>3, Places DEF Orderly
  <2>5. Listed(more)
    BY <1>1, <1>5 DEF Listed
  <2>6. Announced(more)
    BY <1>2, <1>5, SameStreams
  <2>7. QED BY <1>2, <1>3, <2>3, <2>4, <2>5, <2>6, TellsMore DEF WiresOK
<1>6. QED BY <1>4, <1>5 DEF HostCreates

LEMMA OthersCreateTells ==
  ASSUME ScreensInv, tcp = "open", UNCHANGED tcp, NEW m \in Virtual, OthersCreate(m)
  PROVE  HostTells /\ WiresOK'
<1>1. WiresOK /\ monitors \subseteq Monitors
  BY StreamsInv
<1>2. /\ monitors' = monitors \cup {m} /\ toClient' = Append(toClient, List(monitors'))
      /\ UNCHANGED <<active, available, panels, pending, toHost, streams>>
  BY DEF OthersCreate, selection, pictures
<1>3. monitors' \in SUBSET Monitors
  BY <1>1, <1>2 DEF Monitors
<1>4. PICK l \in Answers : l = List(monitors') /\ l.type = "MONITOR_LIST" /\ l.ids = monitors'
  BY <1>3, AnswersAre
<1>5. PICK more \in Seq(Answers) : more = <<l>>
  BY OneTells
<1>6. toClient' = toClient \o more /\ Len(more) = 1 /\ more[1] = l /\ more # <<>>
  BY <1>1, <1>2, <1>4, <1>5, ToldOne, OneTells
<1>7. Orderly(more)
  BY <1>4, <1>6 DEF Orderly
<1>8. Listed(more)
  BY <1>2, <1>3, <1>4, <1>6 DEF Listed
<1>9. Announced(more)
  BY <1>2, SameStreams
<1>10. Selects' = Selects /\ toHost' \in Seq(Requests)
  BY <1>1, <1>2, SelectsKept, RequestsKept
<1>11. QED BY <1>2, <1>6, <1>7, <1>8, <1>9, <1>10, TellsMore DEF WiresOK

LEMMA TakenOverTells ==
  ASSUME ScreensInv, tcp = "open", UNCHANGED tcp, TakenOver
  PROVE  HostTells /\ WiresOK'
<1> DEFINE R == Running(Monitors)
<1>1. WiresOK /\ monitors \subseteq Monitors /\ R \in SUBSET Monitors
  BY StreamsInv DEF Running
<1>2. /\ toClient' = toClient \o Stops(R) /\ streams' = [m \in Monitors |-> "none"]
      /\ UNCHANGED <<active, available, panels, pending, toHost, monitors>>
  BY DEF TakenOver, selection, pictures, Each
<1>3. PICK more \in Seq(Answers) : more = Stops(R)
  BY <1>1, StopsAre
<1>4. /\ \A k \in 1..Len(more) : more[k].type = "STREAM_STOP" /\ more[k].id \in R
      /\ \A m \in R : \E k \in 1..Len(more) : more[k].type = "STREAM_STOP" /\ more[k].id = m
  BY <1>1, <1>3, StopsAre
<1>5. Orderly(more)
  BY <1>1, <1>2, <1>4 DEF Orderly
<1>6. Listed(more)
  BY <1>1, <1>2 DEF Listed
<1>7. Announced(more)
  BY <1>2, <1>4 DEF Announced, Mentions, Running
<1>8. Selects' = Selects /\ toHost' \in Seq(Requests)
  BY <1>1, <1>2, SelectsKept, RequestsKept
<1>9. QED BY <1>2, <1>3, <1>5, <1>6, <1>7, <1>8, TellsMore DEF WiresOK

LEMMA AppendedTwice ==
  ASSUME NEW s \in Seq(Answers), NEW t \in Seq(Answers), NEW u \in Seq(Answers)
  PROVE  (s \o t) \o u = s \o (t \o u)
  BY ConcatAssociative

LEMMA RemovalTells ==
  ASSUME ScreensInv, tcp = "open", UNCHANGED <<active, available, panels, pending, tcp>>, Selects' = Selects,
         NEW m \in Monitors, NEW answer \in Seq(Answers),
         \A i \in 1..Len(answer) : answer[i].type = "RESULT",
         Removal(m, answer)
  PROVE  HostTells /\ toClient' \in Seq(Answers)
<1> DEFINE R == Running({m})
<1>1. /\ WiresOK /\ monitors \subseteq Monitors /\ R \in SUBSET Monitors
      /\ streams \in [Monitors -> {"none", "starting", "live"}]
      /\ \A n \in Monitors : streams[n] # "none" => n \in monitors
  BY StreamsInv DEF Running
<1>2. /\ monitors' = monitors \ {m} /\ streams' = [streams EXCEPT ![m] = "none"]
      /\ toClient' = ((toClient \o Stops(R)) \o answer) \o <<List(monitors')>>
  BY DEF Removal
<1>3. PICK l \in Answers : l = List(monitors') /\ l.type = "MONITOR_LIST" /\ l.ids = monitors'
  BY <1>1, <1>2, AnswersAre
<1>4. PICK st \in Seq(Answers) : st = Stops(R)
  BY <1>1, StopsAre
<1>5. /\ \A k \in 1..Len(st) : st[k].type = "STREAM_STOP" /\ st[k].id \in R
      /\ \A n \in R : \E k \in 1..Len(st) : st[k].type = "STREAM_STOP" /\ st[k].id = n
  BY <1>1, <1>4, StopsAre
<1>6. PICK more \in Seq(Answers) : more = (st \o answer) \o <<l>>
  BY OneTells, ConcatProperties
<1>7. toClient' = toClient \o more
  <2>1. <<l>> \in Seq(Answers) /\ toClient \in Seq(Answers) /\ toClient \o st \in Seq(Answers)
    BY <1>1, ConcatProperties DEF WiresOK
  <2>2. (toClient \o st) \o answer = toClient \o (st \o answer) /\ st \o answer \in Seq(Answers)
    BY <2>1, ConcatAssociative, ConcatProperties
  <2>3. PICK both \in Seq(Answers) : both = st \o answer
    BY <2>2
  <2>4. (toClient \o both) \o <<l>> = toClient \o (both \o <<l>>)
    <3>1. \A t, last \in Seq(Answers) : (t \o both) \o last = t \o (both \o last)
      BY AppendedTwice
    <3>2. QED BY <2>1, <3>1
  <2>5. QED BY <1>2, <1>3, <1>4, <1>6, <2>2, <2>3, <2>4
<1>8. /\ Len(more) = Len(st) + Len(answer) + 1 /\ Len(st) \in Nat /\ Len(answer) \in Nat
      /\ \A k \in 1..Len(st) : more[k] = st[k]
      /\ \A k \in (Len(st) + 1)..(Len(st) + Len(answer)) : more[k] = answer[k - Len(st)]
      /\ more[Len(more)] = l
  <2>1. PICK both \in Seq(Answers) : both = st \o answer
    BY ConcatProperties
  <2>2. /\ Len(both) = Len(st) + Len(answer) /\ Len(st) \in Nat /\ Len(answer) \in Nat
        /\ \A k \in 1..Len(st) : both[k] = st[k]
        /\ \A k \in (Len(st) + 1)..(Len(st) + Len(answer)) : both[k] = answer[k - Len(st)]
    BY <2>1
  <2>3. more = Append(both, l)
    BY <1>6, <2>1
  <2>4. /\ Len(more) = Len(both) + 1 /\ more[Len(both) + 1] = l
        /\ \A k \in 1..Len(both) : more[k] = both[k]
    BY <2>3
  <2>5. QED BY <2>2, <2>4
<1>9. \A k \in 1..Len(more) :
        \/ k \in 1..Len(st)
        \/ k \in (Len(st) + 1)..(Len(st) + Len(answer)) /\ k - Len(st) \in 1..Len(answer)
        \/ k = Len(more)
  BY <1>8
<1>10. R = {n \in {m} : streams[n] # "none"} /\ streams'[m] = "none"
  BY <1>1, <1>2 DEF Running
<1>11. Orderly(more)
  <2>1. ASSUME NEW k \in 1..Len(more)
        PROVE  \/ more[k].type = "RESULT"
               \/ more[k].type = "STREAM_STOP" /\ streams'[more[k].id] # "live"
               \/ more[k].type = "MONITOR_LIST" /\ k = Len(more) /\ more[k].ids = monitors'
    <3>1. CASE k \in 1..Len(st)
      <4>1. more[k] = st[k]
        BY <1>8, <3>1
      <4>2. st[k].type = "STREAM_STOP" /\ st[k].id = m
        BY <1>5, <1>10, <3>1, Zenon
      <4>3. QED BY <1>10, <4>1, <4>2, Zenon
    <3>2. CASE k \in (Len(st) + 1)..(Len(st) + Len(answer)) /\ k - Len(st) \in 1..Len(answer)
      BY <1>8, <3>2
    <3>3. CASE k = Len(more)
      BY <1>3, <1>8, <3>3
    <3>4. QED BY <1>9, <3>1, <3>2, <3>3
  <2>2. QED BY <2>1 DEF Orderly
<1>12. Listed(more)
  <2>1. more # <<>>
    BY <1>8
  <2>2. QED BY <1>1, <1>2, <1>3, <1>8, <2>1 DEF Listed
<1>13. Announced(more)
  <2>1. \A n \in Monitors : n # m => streams'[n] = streams[n]
    BY <1>1, <1>2
  <2>2. streams[m] # "none" => Mentions(more, "STREAM_STOP", m)
    <3>1. SUFFICES ASSUME streams[m] # "none" PROVE Mentions(more, "STREAM_STOP", m)
      OBVIOUS
    <3>2. PICK k \in 1..Len(st) : st[k].type = "STREAM_STOP" /\ st[k].id = m
      BY <1>5, <1>10, <3>1
    <3>3. k \in 1..Len(more)
      BY <1>8
    <3>4. QED BY <1>8, <3>2, <3>3 DEF Mentions
  <2>3. QED BY <1>1, <1>2, <1>10, <2>1, <2>2 DEF Announced
<1>14. QED BY <1>7, <1>11, <1>12, <1>13, TellsMore

LEMMA HostRemovesTells ==
  ASSUME ScreensInv, tcp = "open", UNCHANGED tcp, HostRemoves
  PROVE  HostTells /\ WiresOK'
<1> DEFINE m == Head(toHost).id
<1>1. WiresOK /\ monitors \subseteq Monitors
  BY StreamsInv
<1>2. /\ toHost # <<>> /\ Head(toHost).type = "REMOVE" /\ toHost' = Tail(toHost)
      /\ UNCHANGED <<active, available, panels, pending>>
  BY DEF HostRemoves, Request, selection, pictures
<1>3. Selects' = Selects /\ toHost' \in Seq(Requests) /\ m \in Monitors
  BY <1>1, <1>2, SelectsKept, HandledOne, RequestIs
<1>4. CASE m \in monitors
  <2>1. PICK r \in Answers : r = Result(TRUE, TRUE, m) /\ r.type = "RESULT"
    BY <1>3, AnswersAre
  <2>2. PICK answer \in Seq(Answers) : answer = <<r>> /\ Len(answer) = 1 /\ answer[1] = r
    BY OneTells
  <2>3. Removal(m, answer) /\ \A i \in 1..Len(answer) : answer[i].type = "RESULT"
    BY <1>4, <2>1, <2>2, Places DEF HostRemoves
  <2>4. QED BY <1>2, <1>3, <2>3, RemovalTells DEF WiresOK
<1>5. CASE m \notin monitors
  <2>1. PICK r \in Answers : r = Result(FALSE, TRUE, m) /\ r.type = "RESULT"
    BY <1>3, AnswersAre
  <2>2. toClient' = Append(toClient, r) /\ UNCHANGED <<monitors, streams>>
    BY <1>5, <2>1 DEF HostRemoves
  <2>3. PICK more \in Seq(Answers) : more = <<r>>
    BY OneTells
  <2>4. toClient' = toClient \o more /\ Len(more) = 1 /\ more[1] = r
    BY <1>1, <2>1, <2>2, <2>3, ToldOne, OneTells
  <2>5. Orderly(more)
    BY <2>1, <2>4, Places DEF Orderly
  <2>6. Listed(more)
    BY <1>1, <2>2 DEF Listed
  <2>7. Announced(more)
    BY <2>2, SameStreams
  <2>8. QED BY <1>2, <1>3, <2>4, <2>5, <2>6, <2>7, TellsMore DEF WiresOK
<1>6. QED BY <1>4, <1>5

LEMMA OthersRemoveTells ==
  ASSUME ScreensInv, tcp = "open", UNCHANGED tcp, NEW m \in Virtual, OthersRemove(m)
  PROVE  HostTells /\ WiresOK'
<1>1. UNCHANGED <<active, available, panels, pending, toHost>> /\ Removal(m, <<>>)
  BY DEF OthersRemove, selection, pictures
<1>2. <<>> \in Seq(Answers) /\ m \in Monitors /\ \A i \in 1..Len(<<>>) : <<>>[i].type = "RESULT"
  BY DEF Monitors
<1>3. WiresOK
  BY StreamsInv
<1>4. Selects' = Selects /\ toHost' \in Seq(Requests)
  BY <1>1, <1>3, SelectsKept, RequestsKept
<1>5. QED BY <1>1, <1>2, <1>4, RemovalTells DEF WiresOK

-----------------------------------------------------------------------------
(* The other steps: nothing read or sent but requests, the connection made, *)
(* and the connection gone.                                                 *)

PanelsOK == UnreadInv /\ SelectionInv /\ FrozenInv /\ StreamingInv

LEMMA UnreadKept ==
  ASSUME UnreadInv, UNCHANGED <<available, toClient, monitors, streams>>,
         tcp' = "open" => tcp = "open", tcp \in {"open", "cut"} => tcp' \in {"open", "cut"}
  PROVE  UnreadInv'
<1>1. PICK v : View(v) /\ ListsInv(v) /\ OrderInv(v)
  BY DEF UnreadInv
<1>2. View(v)'
  BY <1>1 DEF View, Unread, Lists
<1>3. ListsInv(v)'
  <2>1. /\ Unread' = Unread /\ \A k : Later(k)' = Later(k) /\ Lists(k)' = Lists(k)
        /\ \A m \in Monitors : Started(m)' = Started(m) /\ \A k : Drops(k, m)' = Drops(k, m)
    BY DEF Unread, Later, Lists, Drops, Started, Starts
  <2>2. QED BY <1>1, <2>1 DEF ListsInv
<1>4. OrderInv(v)'
  BY <1>1 DEF OrderInv, Unread, Later, Lists, Drops, Started, Starts, Stopping
<1>5. QED BY <1>2, <1>3, <1>4 DEF UnreadInv

LEMMA QuietKeeps ==
  ASSUME PanelsOK, UNCHANGED <<active, available, panels, pending, toClient, monitors, streams>>,
         Selects' = Selects, tcp' = "open" => tcp = "open",
         tcp \in {"open", "cut"} => tcp' \in {"open", "cut"},
         \A m \in Monitors : decoder'[m] # "none" <=> decoder[m] # "none"
  PROVE  PanelsOK'
<1>1. UnreadInv'
  BY UnreadKept DEF PanelsOK
<1>2. SelectionInv'
  BY DEF PanelsOK, SelectionInv
<1>3. FrozenInv'
  BY DEF PanelsOK, FrozenInv, Keeping, Unread, Stopping, Drops, Lists
<1>4. StreamingInv'
  BY DEF PanelsOK, StreamingInv, Dropping, Started, Starts, Unread, Two
<1>5. QED BY <1>1, <1>2, <1>3, <1>4 DEF PanelsOK

(* Without a connection.                                                    *)
LEMMA AwayKeeps ==
  ASSUME PanelsOK, available \subseteq Monitors, UNCHANGED available, tcp' \notin {"open", "cut"},
         toClient' = <<>>, \A m \in Monitors : streams'[m] = "none",
         \/ UNCHANGED <<active, panels, decoder, pending>> /\ tcp \notin {"open", "cut"}
         \/ UNCHANGED <<active, panels, decoder>> /\ pending' = Nil
         \/ active' = <<>> /\ panels' = {} /\ decoder' = Each("none") /\ UNCHANGED pending
  PROVE  PanelsOK'
<1>1. UnreadInv'
  <2>1. PICK v : v = [k \in 0..0 |-> available]
    OBVIOUS
  <2>2. Len(toClient') = 0 /\ Unread' = {}
    BY DEF Unread
  <2>3. View(v)'
    BY <2>1, <2>2 DEF View
  <2>4. ListsInv(v)'
    BY <2>2 DEF ListsInv
  <2>5. OrderInv(v)'
    BY <2>2 DEF OrderInv
  <2>6. QED BY <2>3, <2>4, <2>5 DEF UnreadInv
<1>2. SelectionInv'
  <2>1. Nil \notin available /\ MaxScreens \in Nat
    BY ScreensAssumption
  <2>2. CASE UNCHANGED <<active, panels, decoder, pending>> /\ tcp \notin {"open", "cut"}
    BY <2>2 DEF PanelsOK, SelectionInv
  <2>3. CASE UNCHANGED <<active, panels, decoder>> /\ pending' = Nil
    BY <2>1, <2>3 DEF PanelsOK, SelectionInv
  <2>4. CASE active' = <<>> /\ panels' = {} /\ decoder' = Each("none") /\ UNCHANGED pending
    BY <2>1, <2>4 DEF PanelsOK, SelectionInv, Each, ToSet
  <2>5. QED BY <2>2, <2>3, <2>4
<1>3. FrozenInv' /\ StreamingInv'
  BY DEF FrozenInv, StreamingInv
<1>4. QED BY <1>1, <1>2, <1>3 DEF PanelsOK

(* The host accepts the client and lists its monitors.                      *)
LEMMA GreetKeeps ==
  ASSUME PanelsOK, ScreensTypeOK, tcp = "hello", tcp' = "open", HostGreets
  PROVE  PanelsOK' /\ toClient' \in Seq(Answers)
<1>1. /\ toClient' = <<List(monitors)>>
      /\ UNCHANGED <<active, available, pending, panels, decoder, monitors, streams, toHost>>
      /\ available \subseteq Monitors /\ monitors \in SUBSET Monitors
  BY DEF HostGreets, selection, pictures, hostVars, ScreensTypeOK
<1>2. PICK l \in Answers : l = List(monitors) /\ l.type = "MONITOR_LIST" /\ l.ids = monitors
  BY <1>1, AnswersAre
<1>3. toClient' = <<l>> /\ toClient' \in Seq(Answers) /\ Len(toClient') = 1 /\ toClient'[1] = l /\ toClient' # <<>>
  BY <1>1, <1>2, OneTells
<1>4. Unread' = {1} /\ Later(0)' = {1} /\ Later(1)' = {}
  BY <1>3 DEF Unread, Later
<1>5. \A m \in Monitors : streams'[m] = "none"
  BY <1>1 DEF PanelsOK, UnreadInv, OrderInv
<1>6. Lists(1)' /\ \A m \in Monitors : ~Starts(1, m)' /\ (Drops(1, m)' <=> m \notin monitors)
  BY <1>2, <1>3 DEF Lists, Starts, Drops
<1>7. UnreadInv'
  <2>1. PICK v : v = [k \in 0..1 |-> IF k = 0 THEN available ELSE monitors]
    OBVIOUS
  <2>2. v[0] = available /\ v[1] = monitors /\ v \in [0..1 -> SUBSET Monitors]
    BY <1>1, <2>1
  <2>3. View(v)'
    BY <1>1, <1>2, <1>3, <1>4, <1>6, <2>2 DEF View
  <2>4. ListsInv(v)'
    <3>1. \A k \in 0..Len(toClient') : k = 0 \/ k = 1
      BY <1>3
    <3>2. QED BY <1>1, <1>3, <1>4, <1>5, <1>6, <2>2, <3>1 DEF ListsInv
  <2>5. OrderInv(v)'
    BY <1>4, <1>5, <1>6 DEF OrderInv
  <2>6. QED BY <2>3, <2>4, <2>5 DEF UnreadInv
<1>8. SelectionInv'
  BY <1>1 DEF PanelsOK, SelectionInv
<1>9. FrozenInv' /\ StreamingInv'
  BY <1>1, <1>3, <1>5, <1>6 DEF FrozenInv, StreamingInv, PanelsOK, SelectionInv
<1>10. QED BY <1>3, <1>7, <1>8, <1>9 DEF PanelsOK

(* The host's steps once more.                                              *)
LEMMA TellsKeeps ==
  ASSUME ScreensInv, HostTells, UNCHANGED decoder
  PROVE  PanelsOK'
<1>1. UnreadInv' /\ FrozenInv' /\ StreamingInv'
  BY TellsUnread, TellsPanels DEF ScreensInv
<1>2. SelectionInv'
  BY DEF ScreensInv, SelectionInv, HostTells
<1>3. QED BY <1>1, <1>2 DEF PanelsOK

-----------------------------------------------------------------------------
(* What is selected.                                                        *)

LEMMA LeastIs ==
  ASSUME NEW L, L \subseteq Monitors, L # {}
  PROVE  (CHOOSE m \in L : \A n \in L : m <= n) \in L
<1>1. L \subseteq Nat
  BY ScreensAssumption
<1>2. PICK m \in L : \A n \in L : <<n, m>> \notin OpToRel(<, Nat)
  BY <1>1, NatLessThanWellFounded, WFMin
<1>3. \A n \in L : ~(n < m)
  BY <1>1, <1>2 DEF OpToRel
<1>4. \A n \in L : m <= n
  BY <1>1, <1>3
<1>5. QED BY <1>4

LEMMA RestoredIs ==
  ASSUME NEW base \in Seq(Monitors), NEW L, L \subseteq Monitors
  PROVE  /\ Restored(base, L) \in Seq(Monitors) /\ ToSet(Restored(base, L)) \subseteq L
         /\ ToSet(base) \cap L # {} => /\ ToSet(Restored(base, L)) = ToSet(base) \cap L
                                      /\ Len(Restored(base, L)) <= Len(base)
<1>1. /\ Kept(base, L) \in Seq(Monitors) /\ Len(Kept(base, L)) <= Len(base)
      /\ ToSet(Kept(base, L)) = ToSet(base) \cap L
  BY KeptIs
<1>2. CASE Kept(base, L) = <<>> /\ L # {} /\ match = Nil
  <2>1. PICK f \in L : f = CHOOSE m \in L : \A n \in L : m <= n
    BY <1>2, LeastIs
  <2>2. Restored(base, L) = <<f>> /\ f \in Monitors
    BY <1>2, <2>1 DEF Restored
  <2>3. ToSet(<<f>>) = {f} /\ <<f>> \in Seq(Monitors)
    BY <2>2 DEF ToSet
  <2>4. ToSet(base) \cap L = {}
    BY <1>1, <1>2, ToSetIs
  <2>5. QED BY <2>2, <2>3, <2>4
<1>3. CASE ~(Kept(base, L) = <<>> /\ L # {} /\ match = Nil)
  <2>1. Restored(base, L) = Kept(base, L)
    BY <1>3 DEF Restored
  <2>2. QED BY <1>1, <2>1
<1>4. QED BY <1>2, <1>3

(* The first MaxScreens of them.                                            *)
LEMMA FirstIs ==
  ASSUME NEW s \in Seq(Monitors), NEW t, t = SubSeq(s, 1, IF Len(s) > MaxScreens THEN MaxScreens ELSE Len(s))
  PROVE  /\ t \in Seq(Monitors) /\ Len(t) <= MaxScreens /\ ToSet(t) \subseteq ToSet(s)
         /\ Len(s) <= MaxScreens => t = s
<1>1. MaxScreens \in Nat /\ Len(s) \in Nat
  BY ScreensAssumption
<1>2. PICK n \in Nat : n = (IF Len(s) > MaxScreens THEN MaxScreens ELSE Len(s)) /\ n <= Len(s) /\ n <= MaxScreens
  BY <1>1
<1>3. t = SubSeq(s, 1, n) /\ t \in Seq(Monitors) /\ Len(t) = n /\ \A i \in 1..n : t[i] = s[i]
  BY <1>1, <1>2
<1>4. ToSet(t) \subseteq ToSet(s)
  <2>1. \A i \in 1..n : i \in 1..Len(s)
    BY <1>1, <1>2
  <2>2. ASSUME NEW x \in ToSet(t) PROVE x \in ToSet(s)
    <3>1. PICK i \in 1..Len(t) : x = t[i]
      BY <1>3, <2>2, ToSetIs, ZenonT(40)
    <3>2. x = s[i] /\ i \in 1..Len(s)
      BY <1>3, <2>1, <3>1
    <3>3. QED BY <3>2, ToSetIs
  <2>3. QED BY <2>2
<1>5. Len(s) <= MaxScreens => t = s
  <2>1. SUFFICES ASSUME Len(s) <= MaxScreens PROVE t = s
    OBVIOUS
  <2>2. n = Len(s)
    BY <1>1, <1>2, <2>1
  <2>3. QED BY <1>3, <2>2, SeqEqual
<1>6. QED BY <1>2, <1>3, <1>4, <1>5

LEMMA AddedIs ==
  ASSUME NEW s \in Seq(Monitors), Len(s) <= MaxScreens, NEW m \in Monitors, m \notin ToSet(s)
  PROVE  /\ Added(s, m) \in Seq(Monitors) /\ Len(Added(s, m)) <= MaxScreens
         /\ ToSet(Added(s, m)) \subseteq ToSet(s) \cup {m} /\ m \in ToSet(Added(s, m))
         /\ \/ ToSet(s) \subseteq ToSet(Added(s, m))
            \/ \E y \in ToSet(Added(s, m)) : y # m
<1>1. MaxScreens \in Nat \ {0, 1} /\ Len(s) \in Nat
  BY ScreensAssumption
<1>2. CASE Len(s) < MaxScreens
  <2>1. Added(s, m) = Append(s, m)
    BY <1>1, <1>2 DEF Added
  <2>2. QED BY <1>1, <1>2, <2>1, AppendToSet
<1>3. CASE Len(s) >= MaxScreens
  <2>1. PICK t : t = Tail(s)
    OBVIOUS
  <2>2. Added(s, m) = Append(t, m)
    BY <1>1, <1>3, <2>1 DEF Added
  <2>3. /\ t \in Seq(Monitors) /\ Len(t) = Len(s) - 1 /\ \A i \in 1..Len(t) : t[i] = s[i + 1]
    BY <1>1, <1>3, <2>1
  <2>4. \A i \in 1..Len(t) : i + 1 \in 1..Len(s)
    BY <1>1, <2>3
  <2>5. ToSet(t) \subseteq ToSet(s)
    BY <2>3, <2>4, ToSetIs, SMTT(40)
  <2>6. 1 \in 1..Len(t)
    BY <1>1, <1>3, <2>3
  <2>7. t[1] \in ToSet(t)
    BY <2>3, <2>6, ToSetIs
  <2>8. /\ Append(t, m) \in Seq(Monitors) /\ Len(Append(t, m)) = Len(s)
        /\ ToSet(Append(t, m)) = ToSet(t) \cup {m}
    BY <1>1, <2>3, AppendToSet
  <2>9. QED BY <2>2, <2>5, <2>7, <2>8
<1>4. QED BY <1>1, <1>2, <1>3

(* A virtual screen shown, of those there are.                              *)
LEMMA ShowNewIs ==
  ASSUME WiresOK, NEW m \in Monitors, NEW ids \in Seq(Monitors), Len(ids) <= MaxScreens, ShowNew(m, ids)
  PROVE  /\ active' \in Seq(Monitors) /\ Len(active') <= MaxScreens
         /\ ToSet(ids) \subseteq ToSet(active') /\ ToSet(active') \subseteq ToSet(ids) \cup {m}
         /\ toHost' \in Seq(Requests) /\ Selects \subseteq Selects'
         /\ m \notin ToSet(ids) => ToSet(active') \in Selects'
<1>1. MaxScreens \in Nat /\ Len(ids) \in Nat
  BY ScreensAssumption
<1>2. Contains(ids, m) <=> m \in ToSet(ids)
  BY ToSetIs
<1>3. /\ active' \in Seq(Monitors) /\ Len(active') <= MaxScreens
      /\ ToSet(ids) \subseteq ToSet(active') /\ ToSet(active') \subseteq ToSet(ids) \cup {m}
  <2>1. CASE Contains(ids, m) \/ Len(ids) >= MaxScreens
    BY <2>1 DEF ShowNew
  <2>2. CASE ~(Contains(ids, m) \/ Len(ids) >= MaxScreens)
    <3>1. active' = Append(ids, m)
      BY <2>2 DEF ShowNew
    <3>2. QED BY <1>1, <2>2, <3>1, AppendToSet
  <2>3. QED BY <2>1, <2>2
<1>4. CASE Contains(ids, m)
  BY <1>2, <1>3, <1>4, SelectsKept, RequestsKept DEF ShowNew
<1>5. CASE ~Contains(ids, m)
  <2>1. ToSet(active') \in SUBSET Monitors
    BY <1>3, ToSetIs
  <2>2. PICK r \in Requests : r = Select(ToSet(active')) /\ r.type = "SELECT" /\ r.ids = ToSet(active')
    BY <2>1, RequestsAre
  <2>3. Send(r)
    BY <1>5, <2>2 DEF ShowNew, SendSelection
  <2>4. QED BY <1>3, <2>2, <2>3, SentOne
<1>6. QED BY <1>4, <1>5

LEMMA SendSelectionIs ==
  ASSUME WiresOK, NEW ids \in Seq(Monitors), SendSelection(ids)
  PROVE  toHost' \in Seq(Requests) /\ Selects' = Selects \cup {ToSet(ids)}
<1>1. ToSet(ids) \in SUBSET Monitors
  BY ToSetIs
<1>2. PICK r \in Requests : r = Select(ToSet(ids)) /\ r.type = "SELECT" /\ r.ids = ToSet(ids)
  BY <1>1, RequestsAre
<1>3. Send(r)
  BY <1>2 DEF SendSelection
<1>4. QED BY <1>2, <1>3, SentOne

-----------------------------------------------------------------------------
(* The client reads a message.                                              *)

LEMMA TailPlaces ==
  ASSUME WiresOK, Reading, toClient' = Tail(toClient)
  PROVE  /\ 1 \in Unread
         /\ \A k \in Unread' :
              /\ k + 1 \in Unread /\ (k + 1) - 1 = k /\ k \in Nat /\ k # 0
              /\ Lists(k)' = Lists(k + 1) /\ toClient'[k] = toClient[k + 1]
              /\ \A m \in Monitors : /\ Starts(k, m)' = Starts(k + 1, m)
                                    /\ Stopping(k, m)' = Stopping(k + 1, m)
                                    /\ Drops(k, m)' = Drops(k + 1, m)
         /\ \A k \in Unread : k # 1 =>
              /\ k - 1 \in Unread'
              /\ \A m \in Monitors : /\ Starts(k - 1, m)' = Starts(k, m)
                                    /\ Stopping(k - 1, m)' = Stopping(k, m)
                                    /\ Drops(k - 1, m)' = Drops(k, m)
         /\ \A k \in 0..Len(toClient') : \A j \in Later(k + 1) : j \in Unread /\ j # 1 /\ j - 1 \in Later(k)'
<1>1. /\ Len(toClient) \in Nat /\ Len(toClient) # 0 /\ Len(toClient') = Len(toClient) - 1
      /\ 1 \in Unread /\ \A k \in 1..Len(toClient') : toClient'[k] = toClient[k + 1]
  BY ReadOne
<1>2. \A k \in Unread' : k + 1 \in Unread /\ (k + 1) - 1 = k /\ k \in Nat /\ k # 0 /\ toClient'[k] = toClient[k + 1]
  BY <1>1 DEF Unread
<1>3. \A k \in Unread' :
        /\ Lists(k)' = Lists(k + 1)
        /\ \A m \in Monitors : /\ Starts(k, m)' = Starts(k + 1, m)
                              /\ Stopping(k, m)' = Stopping(k + 1, m)
                              /\ Drops(k, m)' = Drops(k + 1, m)
  BY <1>2 DEF Lists, Starts, Stopping, Drops
<1>4. \A k \in Unread : k # 1 => k - 1 \in Unread' /\ (k - 1) + 1 = k
  BY <1>1 DEF Unread
<1>5. \A k \in Unread : k # 1 =>
        \A m \in Monitors : /\ Starts(k - 1, m)' = Starts(k, m)
                             /\ Stopping(k - 1, m)' = Stopping(k, m)
                             /\ Drops(k - 1, m)' = Drops(k, m)
  <2>1. ASSUME NEW k \in Unread, k # 1 PROVE toClient'[k - 1] = toClient[k]
    BY <1>2, <1>4, <2>1
  <2>2. QED BY <2>1 DEF Starts, Stopping, Drops, Lists
<1>6. \A k \in 0..Len(toClient') : \A j \in Later(k + 1) : j \in Unread /\ j # 1 /\ j - 1 \in Later(k)'
  BY <1>1 DEF Unread, Later
<1>7. QED BY <1>1, <1>2, <1>3, <1>4, <1>5, <1>6

LEMMA ReadUnread ==
  ASSUME WiresOK, UnreadInv, Reading, toClient' = Tail(toClient), UNCHANGED <<monitors, streams, tcp>>,
         available' = IF Lists(1) THEN toClient[1].ids ELSE available
  PROVE  UnreadInv'
<1>1. PICK v : View(v) /\ ListsInv(v) /\ OrderInv(v)
  BY DEF UnreadInv
<1>2. PICK N \in Nat \ {0} : N = Len(toClient) /\ Len(toClient') = N - 1
  BY ReadOne
<1>3. PICK w : w = [k \in 0..N - 1 |-> v[k + 1]]
  OBVIOUS
<1>4. \A k \in 0..N - 1 : k + 1 \in 0..N /\ w[k] = v[k + 1]
  BY <1>2, <1>3
<1>5. /\ v \in [0..N -> SUBSET Monitors] /\ v[0] = available
      /\ \A k \in Unread : v[k] = IF Lists(k) THEN toClient[k].ids ELSE v[k - 1]
  BY <1>1, <1>2 DEF View
<1>6. 1 \in Unread /\ v[1] = available'
  BY <1>5, TailPlaces
<1>7. \A k \in Unread' : k \in 0..N - 1 /\ k - 1 \in 0..N - 1 /\ k + 1 \in Unread /\ w[k] = v[k + 1] /\ w[k - 1] = v[k]
  <2>1. \A k \in Unread' : k \in 0..N - 1 /\ k - 1 \in 0..N - 1 /\ k + 1 \in Unread /\ (k - 1) + 1 = k
    BY <1>2 DEF Unread
  <2>2. QED BY <1>4, <2>1
<1>8. View(w)'
  <2>1. w \in [0..N - 1 -> SUBSET Monitors]
    BY <1>3, <1>4, <1>5
  <2>2. w[0] = available'
    BY <1>2, <1>4, <1>6
  <2>3. ASSUME NEW k \in Unread' PROVE w[k] = IF Lists(k)' THEN toClient'[k].ids ELSE w[k - 1]
    <3>1. v[k + 1] = IF Lists(k + 1) THEN toClient[k + 1].ids ELSE v[k]
      BY <1>5, <2>3, TailPlaces
    <3>2. QED BY <1>7, <3>1, TailPlaces
  <2>4. QED BY <1>2, <2>1, <2>2, <2>3 DEF View
<1>9. ListsInv(w)'
  <2>1. tcp = "open" => w[N - 1] = monitors
    BY <1>1, <1>2, <1>4 DEF ListsInv
  <2>2. ASSUME tcp = "open", NEW k \in 0..N - 1, NEW m \in Monitors, m \in w[k], m \notin monitors
        PROVE  \E j \in Later(k)' : Drops(j, m)'
    <3>1. PICK j \in Later(k + 1) : Drops(j, m)
      BY <1>1, <1>2, <1>4, <2>2 DEF ListsInv
    <3>2. j \in Unread /\ j # 1 /\ j - 1 \in Later(k)'
      BY <1>2, TailPlaces
    <3>3. QED BY <3>1, <3>2, TailPlaces
  <2>3. ASSUME NEW k \in Unread', Lists(k)' PROVE \E x : w[k - 1] \ {x} \subseteq w[k]
    <3>1. Lists(k + 1) /\ k + 1 \in Unread /\ k + 1 # 1 /\ (k + 1) - 1 = k
      BY <2>3, TailPlaces
    <3>2. \E x : v[k] \ {x} \subseteq v[k + 1]
      BY <1>1, <3>1 DEF ListsInv
    <3>3. QED BY <1>7, <3>2
  <2>4. QED BY <1>2, <2>1, <2>2, <2>3 DEF ListsInv
<1>10. OrderInv(w)'
  <2> SUFFICES ASSUME NEW m \in Monitors
               PROVE  /\ \A k \in Unread' : Starts(k, m)' => m \in w[k - 1]
                      /\ \A k \in Unread' : (Drops(k, m)' \/ Stopping(k, m)') /\ streams[m] = "live" =>
                           \E j \in Later(k)' : Starts(j, m)'
                      /\ \A k \in Unread' : Starts(k, m)' =>
                           streams[m] = "live" \/ \E j \in Later(k)' : Stopping(j, m)'
                      /\ streams[m] # "none" => m \in monitors /\ tcp \in {"open", "cut"}
                      /\ streams[m] = "live" => Started(m)' \/ m \in available'
    BY DEF OrderInv
  <2>1. ASSUME NEW k \in Unread', Starts(k, m)' PROVE m \in w[k - 1]
    <3>1. k + 1 \in Unread /\ Starts(k + 1, m) /\ (k + 1) - 1 = k
      BY <2>1, TailPlaces
    <3>2. m \in v[k]
      BY <1>1, <3>1 DEF OrderInv
    <3>3. QED BY <1>7, <3>2
  <2>2. ASSUME NEW k \in Unread', Drops(k, m)' \/ Stopping(k, m)', streams[m] = "live"
        PROVE  \E j \in Later(k)' : Starts(j, m)'
    <3>1. k + 1 \in Unread /\ (Drops(k + 1, m) \/ Stopping(k + 1, m))
      BY <2>2, TailPlaces
    <3>2. PICK j \in Later(k + 1) : Starts(j, m)
      BY <1>1, <2>2, <3>1 DEF OrderInv
    <3>3. j \in Unread /\ j # 1 /\ j - 1 \in Later(k)'
      BY <1>2, <1>7, TailPlaces
    <3>4. QED BY <3>2, <3>3, TailPlaces
  <2>3. ASSUME NEW k \in Unread', Starts(k, m)', streams[m] # "live"
        PROVE  \E j \in Later(k)' : Stopping(j, m)'
    <3>1. k + 1 \in Unread /\ Starts(k + 1, m)
      BY <2>3, TailPlaces
    <3>2. PICK j \in Later(k + 1) : Stopping(j, m)
      BY <1>1, <2>3, <3>1 DEF OrderInv
    <3>3. j \in Unread /\ j # 1 /\ j - 1 \in Later(k)'
      BY <1>2, <1>7, TailPlaces
    <3>4. QED BY <3>2, <3>3, TailPlaces
  <2>4. streams[m] # "none" => m \in monitors /\ tcp \in {"open", "cut"}
    BY <1>1 DEF OrderInv
  <2>5. ASSUME streams[m] = "live" PROVE Started(m)' \/ m \in available'
    <3>1. ASSUME NEW k \in Unread, k # 1, Starts(k, m) PROVE Started(m)'
      BY <3>1, TailPlaces DEF Started
    <3>2. CASE Starts(1, m)
      <4>1. m \in v[1 - 1] /\ 1 - 1 = 0
        BY <1>1, <1>6, <3>2 DEF OrderInv
      <4>2. ~Lists(1)
        BY <3>2 DEF Lists, Starts
      <4>3. QED BY <1>5, <4>1, <4>2
    <3>3. CASE ~Started(m) /\ ~Lists(1)
      BY <1>1, <2>5, <3>3 DEF OrderInv
    <3>4. CASE Lists(1)
      <4>1. CASE Drops(1, m)
        <5>1. PICK j \in Later(1) : Starts(j, m)
          BY <1>1, <1>6, <2>5, <4>1 DEF OrderInv
        <5>2. j \in Unread /\ j # 1
          <6>1. 0 \in 0..Len(toClient') /\ 0 + 1 = 1
            BY <1>2
          <6>2. QED BY <6>1, TailPlaces
        <5>3. QED BY <3>1, <5>1, <5>2
      <4>2. QED BY <3>4, <4>1 DEF Drops
    <3>5. QED BY <3>1, <3>2, <3>3, <3>4 DEF Started
  <2>6. QED BY <2>1, <2>2, <2>3, <2>4, <2>5
<1>11. QED BY <1>8, <1>9, <1>10 DEF UnreadInv

(* What a list L, with `ids` selected of it, is answered with.              *)
ListAnswered(L, ids) ==
  /\ active' \in Seq(Monitors) /\ Len(active') <= MaxScreens
  /\ ToSet(ids) \subseteq ToSet(active') /\ ToSet(active') \subseteq ToSet(ids) \cup ({pending} \cap L)
  /\ toHost' \in Seq(Requests) /\ Selects \subseteq Selects'
  /\ pending' \in Monitors \cup {Nil} /\ pending' \notin L
  /\ ToSet(ids) # {} => pending \in ToSet(ids) \/ ToSet(active') \in Selects'

LEMMA ListAnsweredIs ==
  ASSUME WiresOK, NEW L \in SUBSET Monitors, NEW ids \in Seq(Monitors), Len(ids) <= MaxScreens,
         pending \in Monitors \cup {Nil},
         pending \in L => ShowNew(pending, ids) /\ pending' = Nil,
         pending \notin L => /\ active' = ids /\ pending' = pending
                             /\ ids # <<>> => SendSelection(ids)
                             /\ ids = <<>> => UNCHANGED toHost
  PROVE  ListAnswered(L, ids)
<1>1. CASE pending \in L
  <2>1. pending \in Monitors /\ ShowNew(pending, ids) /\ pending' = Nil
    BY <1>1
  <2>2. /\ active' \in Seq(Monitors) /\ Len(active') <= MaxScreens
        /\ ToSet(ids) \subseteq ToSet(active') /\ ToSet(active') \subseteq ToSet(ids) \cup {pending}
        /\ toHost' \in Seq(Requests) /\ Selects \subseteq Selects'
        /\ pending \notin ToSet(ids) => ToSet(active') \in Selects'
    BY <2>1, ShowNewIs
  <2>3. QED BY <1>1, <2>1, <2>2, ScreensAssumption DEF ListAnswered
<1>2. CASE pending \notin L /\ ids # <<>>
  <2>1. SendSelection(ids) /\ active' = ids /\ pending' = pending
    BY <1>2
  <2>2. toHost' \in Seq(Requests) /\ Selects' = Selects \cup {ToSet(ids)}
    BY <2>1, SendSelectionIs
  <2>3. QED BY <1>2, <2>1, <2>2 DEF ListAnswered
<1>3. CASE pending \notin L /\ ids = <<>>
  <2>1. ToSet(ids) = {} /\ active' = ids /\ pending' = pending
    BY <1>3, ToSetIs
  <2>2. toHost' \in Seq(Requests) /\ Selects' = Selects
    BY <1>3, SelectsKept, RequestsKept
  <2>3. QED BY <1>3, <2>1, <2>2 DEF ListAnswered
<1>4. QED BY <1>1, <1>2, <1>3

(* The lists: what is selected and shown is among the monitors there are.   *)
LEMMA MonitorListKeeps ==
  ASSUME ScreensInv, UNCHANGED tcp, OnMonitorList, tcp \in {"open", "cut"}
  PROVE  PanelsOK' /\ WiresOK' /\ active' \in Seq(Monitors) /\ panels' \subseteq panels
           /\ pending' \in Monitors \cup {Nil}
<1>1. /\ WiresOK /\ UnreadInv /\ SelectionInv /\ Reading /\ toClient' = Tail(toClient)
      /\ Message.type = "MONITOR_LIST" /\ available' = Message.ids
      /\ UNCHANGED <<monitors, streams>>
      /\ active \in Seq(Monitors) /\ decoder \in [Monitors -> {"none", "awaiting", "good", "broken"}]
      /\ pending \in Monitors \cup {Nil} /\ available \subseteq Monitors
  BY DEF ScreensInv, ScreensTypeOK, OnMonitorList, hostVars
<1>2. PICK L \in SUBSET Monitors : L = Message.ids /\ L = toClient[1].ids /\ Lists(1) /\ 1 \in Unread
  BY <1>1, ReadOne, AnswerIs DEF Lists
<1>3. available' = L /\ toClient' \in Seq(Answers)
  BY <1>1, <1>2, ReadOne
<1>4. UnreadInv'
  BY <1>1, <1>2, <1>3, ReadUnread
<1>5. PICK base \in Seq(Monitors) : base = IF active # <<>> THEN active ELSE Workspace
  BY <1>1, ScreensAssumption
<1>6. PICK wanted \in Seq(Monitors) : wanted = Restored(base, L)
  BY RestoredIs
<1>7. PICK ids \in Seq(Monitors) : ids = SubSeq(wanted, 1, IF Len(wanted) > MaxScreens THEN MaxScreens ELSE Len(wanted))
  <2>1. PICK t : t = SubSeq(wanted, 1, IF Len(wanted) > MaxScreens THEN MaxScreens ELSE Len(wanted))
    OBVIOUS
  <2>2. t \in Seq(Monitors)
    BY <2>1, FirstIs
  <2>3. QED BY <2>1, <2>2
<1>8. /\ Len(ids) <= MaxScreens /\ ToSet(ids) \subseteq L
      /\ ids # <<>> <=> ToSet(ids) # {}
  <2>1. Len(ids) <= MaxScreens /\ ToSet(ids) \subseteq ToSet(wanted)
    BY <1>7, FirstIs
  <2>2. ToSet(wanted) \subseteq L
    BY <1>6, RestoredIs
  <2>3. QED BY <2>1, <2>2, ToSetIs
<1>9. ToSet(active) \cap L # {} => ToSet(ids) = ToSet(active) \cap L
  <2>1. SUFFICES ASSUME ToSet(active) \cap L # {} PROVE ToSet(ids) = ToSet(active) \cap L
    OBVIOUS
  <2>2. base = active
    BY <1>1, <1>5, <2>1, ToSetIs
  <2>3. ToSet(wanted) = ToSet(active) \cap L /\ Len(wanted) <= Len(active)
    BY <1>6, <2>1, <2>2, RestoredIs
  <2>4. Len(wanted) <= MaxScreens
    BY <1>1, <1>6, <2>3, ScreensAssumption DEF SelectionInv
  <2>5. QED BY <1>7, <2>3, <2>4, FirstIs
<1>10. FrozenGo(ids)
  BY <1>2, <1>5, <1>6, <1>7 DEF OnMonitorList
<1>12. /\ pending \in L => ShowNew(pending, ids) /\ pending' = Nil
       /\ pending \notin L => /\ active' = ids /\ pending' = pending
                              /\ ids # <<>> => SendSelection(ids)
                              /\ ids = <<>> => UNCHANGED toHost
  BY <1>2, <1>5, <1>6, <1>7 DEF OnMonitorList
<1>13. ListAnswered(L, ids)
  BY <1>1, <1>8, <1>12, ListAnsweredIs
<1>14. /\ active' \in Seq(Monitors) /\ Len(active') <= MaxScreens
       /\ ToSet(ids) \subseteq ToSet(active') /\ ToSet(active') \subseteq ToSet(ids) \cup ({pending} \cap L)
       /\ toHost' \in Seq(Requests) /\ Selects \subseteq Selects'
       /\ pending' \in Monitors \cup {Nil} /\ pending' \notin L
       /\ ToSet(ids) # {} => pending \in ToSet(ids) \/ ToSet(active') \in Selects'
  BY <1>13 DEF ListAnswered
<1>15. panels' = panels \cap ToSet(ids)
  BY <1>10 DEF FrozenGo
<1>16. SelectionInv'
  <2>1. \A m \in Monitors : decoder'[m] # "none" <=> m \in panels'
    <3>1. \A m \in Monitors : decoder'[m] = IF m \in panels \ ToSet(ids) THEN "none" ELSE decoder[m]
      BY <1>10 DEF FrozenGo, Closing
    <3>2. \A m \in Monitors : decoder[m] # "none" <=> m \in panels
      BY <1>1 DEF SelectionInv
    <3>3. QED BY <1>15, <3>1, <3>2
  <2>2. QED BY <1>3, <1>8, <1>14, <1>15, <2>1 DEF SelectionInv
<1>17. \A k \in Unread, m \in Monitors :
         /\ Starts(k, m) => Started(m)'
         /\ (Stopping(k, m) \/ Drops(k, m)) /\ m \in L =>
              \E j \in Unread' : Stopping(j, m)' \/ Drops(j, m)'
  <2>1. ASSUME NEW k \in Unread, NEW m \in Monitors
        PROVE  /\ Starts(k, m) => Started(m)'
               /\ (Stopping(k, m) \/ Drops(k, m)) /\ m \in L =>
                    \E j \in Unread' : Stopping(j, m)' \/ Drops(j, m)'
    <3>1. CASE k = 1
      BY <1>2, <3>1 DEF Starts, Stopping, Drops, Lists
    <3>2. CASE k # 1
      BY <1>1, <2>1, <3>2, TailPlaces DEF Started
    <3>3. QED BY <3>1, <3>2
  <2>2. QED BY <2>1
<1>18. FrozenInv'
  <2>1. SUFFICES ASSUME tcp = "open", NEW m \in panels'
                 PROVE  \/ streams[m] # "none" \/ Keeping(m)'
                        \/ \E k \in Unread' : Stopping(k, m)' \/ Drops(k, m)'
    BY <1>1 DEF FrozenInv
  <2>2. m \in panels /\ m \in ToSet(ids) /\ m \in L /\ m \in Monitors
    BY <1>8, <1>15
  <2>3. CASE Keeping(m)
    BY <1>14, <2>3 DEF Keeping
  <2>4. CASE \E k \in Unread : Stopping(k, m) \/ Drops(k, m)
    BY <1>17, <2>2, <2>4
  <2>5. CASE pending = Nil
    <3>1. Nil \notin L
      BY ScreensAssumption
    <3>2. ToSet(active') \in Selects' /\ m \in ToSet(active')
      BY <1>8, <1>14, <2>2, <2>5, <3>1
    <3>3. QED BY <3>2 DEF Keeping
  <2>6. QED BY <2>1, <2>2, <2>3, <2>4, <2>5 DEF ScreensInv, FrozenInv
<1>19. StreamingInv'
  <2>1. SUFFICES ASSUME tcp = "open", NEW m \in Monitors, streams[m] = "live"
                 PROVE  \/ Started(m)' \/ Dropping(m)'
                        \/ m \in panels' /\ m \in ToSet(active')
    BY <1>1 DEF StreamingInv
  <2>2. Started(m) => Started(m)'
    BY <1>17 DEF Started
  <2>3. Dropping(m) => Dropping(m)'
    BY <1>14 DEF Dropping
  <2>4. PICK v : View(v) /\ ListsInv(v) /\ OrderInv(v)
    BY <1>1 DEF UnreadInv
  <2>5. CASE m \notin L
    <3>1. Drops(1, m)
      BY <1>2, <2>5 DEF Drops
    <3>2. PICK j \in Later(1) : Starts(j, m)
      BY <1>2, <2>1, <2>4, <3>1 DEF OrderInv
    <3>3. j \in Unread
      BY <1>1, <1>2, ReadOne DEF Later, Unread
    <3>4. QED BY <1>17, <3>2, <3>3
  <2>6. CASE m \in L /\ m \in panels /\ m \in ToSet(active)
    BY <1>9, <1>14, <1>15, <2>6
  <2>7. CASE m \in L /\ m \in panels /\ m \notin ToSet(active) /\ Two
    <3>1. ToSet(active) \subseteq available /\ panels \subseteq available /\ pending \notin available
      BY <1>1 DEF SelectionInv
    <3>2. v[0] = available /\ v[1] = L
      BY <1>2, <2>4 DEF View
    <3>3. CASE Started(m)
      BY <2>2, <3>3
    <3>4. CASE ~Started(m)
      <4>1. PICK x : v[0] \ {x} \subseteq v[1]
        <5>1. 1 - 1 = 0
          OBVIOUS
        <5>2. QED BY <1>2, <2>1, <2>4, <3>4, <5>1 DEF ListsInv
      <4>2. ToSet(active) \cap L # {}
        BY <2>7, <3>1, <3>2, <4>1 DEF Two
      <4>3. ToSet(ids) # {} /\ ToSet(ids) \subseteq ToSet(active)
        BY <1>9, <4>2
      <4>4. pending \notin ToSet(ids) /\ m \notin ToSet(active')
        BY <1>14, <2>7, <3>1, <4>3
      <4>5. QED BY <1>14, <4>3, <4>4 DEF Dropping
    <3>5. QED BY <3>3, <3>4
  <2>8. QED BY <2>1, <2>2, <2>3, <2>5, <2>6, <2>7 DEF ScreensInv, StreamingInv
<1>20. QED BY <1>3, <1>4, <1>14, <1>15, <1>16, <1>18, <1>19 DEF PanelsOK, WiresOK

(* What is read first is none of the later messages.                        *)
LEMMA ReadShifts ==
  ASSUME WiresOK, Reading, toClient' = Tail(toClient)
  PROVE  \A k \in Unread, m \in Monitors :
           /\ k # 1 /\ Starts(k, m) => Started(m)'
           /\ k # 1 /\ (Stopping(k, m) \/ Drops(k, m)) => \E j \in Unread' : Stopping(j, m)' \/ Drops(j, m)'
  BY TailPlaces DEF Started

LEMMA LaterIsUnread ==
  ASSUME WiresOK, Reading
  PROVE  \A j \in Later(1) : j \in Unread /\ j # 1
  BY DEF WiresOK, Reading, Later, Unread

LEMMA StreamStartedKeeps ==
  ASSUME ScreensInv, UNCHANGED tcp, OnStreamStarted, tcp \in {"open", "cut"}
  PROVE  PanelsOK' /\ WiresOK' /\ active' \in Seq(Monitors) /\ panels' \subseteq Monitors
           /\ Message.id \in Monitors
<1>1. /\ WiresOK /\ UnreadInv /\ SelectionInv /\ Reading /\ toClient' = Tail(toClient)
      /\ Message.type = "STREAM_START"
      /\ UNCHANGED <<monitors, streams, available, pending, toHost>>
      /\ active \in Seq(Monitors) /\ decoder \in [Monitors -> {"none", "awaiting", "good", "broken"}]
      /\ available \subseteq Monitors
  BY DEF ScreensInv, ScreensTypeOK, OnStreamStarted, hostVars
<1>2. PICK m \in Monitors : m = Message.id /\ Starts(1, m) /\ 1 \in Unread /\ ~Lists(1)
  BY <1>1, ReadOne, AnswerIs DEF Starts, Lists
<1>3. /\ active' = IF Contains(active, m) THEN active ELSE Added(active, m)
      /\ decoder' = [decoder EXCEPT ![m] = "awaiting"] /\ panels' = panels \cup {m}
  BY <1>2 DEF OnStreamStarted
<1>4. WiresOK'
  BY <1>1, ReadOne, RequestsKept DEF WiresOK
<1>5. UnreadInv'
  BY <1>1, <1>2, ReadUnread
<1>6. PICK v : View(v) /\ ListsInv(v) /\ OrderInv(v)
  BY <1>1 DEF UnreadInv
<1>7. m \in available
  <2>1. 1 - 1 = 0 /\ v[0] = available
    BY <1>6 DEF View
  <2>2. QED BY <1>2, <1>6, <2>1 DEF OrderInv
<1>8. /\ active' \in Seq(Monitors) /\ Len(active') <= MaxScreens /\ m \in ToSet(active')
      /\ ToSet(active') \subseteq ToSet(active) \cup {m}
      /\ ToSet(active) \subseteq ToSet(active') \/ \E y \in ToSet(active') : y # m
  <2>1. Len(active) <= MaxScreens /\ (Contains(active, m) <=> m \in ToSet(active))
    BY <1>1, ToSetIs DEF SelectionInv
  <2>2. CASE Contains(active, m)
    BY <1>1, <1>3, <2>1, <2>2
  <2>3. CASE ~Contains(active, m)
    BY <1>1, <1>3, <2>1, <2>3, AddedIs
  <2>4. QED BY <2>2, <2>3
<1>9. ToSet(active) \subseteq ToSet(active') \/ Two'
  BY <1>8 DEF Two
<1>10. SelectionInv'
  <2>1. \A n \in Monitors : decoder'[n] # "none" <=> n \in panels'
    BY <1>1, <1>3 DEF SelectionInv
  <2>2. QED BY <1>1, <1>3, <1>7, <1>8, <2>1 DEF SelectionInv
<1>11. FrozenInv'
  <2>1. SUFFICES ASSUME tcp = "open", NEW n \in panels'
                 PROVE  \/ streams[n] # "none" \/ Keeping(n)'
                        \/ \E k \in Unread' : Stopping(k, n)' \/ Drops(k, n)'
    BY <1>1 DEF FrozenInv
  <2>2. n \in Monitors
    BY <1>1, <1>3 DEF SelectionInv
  <2>3. CASE n = m /\ streams[m] # "live"
    <3>1. PICK j \in Later(1) : Stopping(j, m)
      BY <1>2, <1>6, <2>3 DEF OrderInv
    <3>2. QED BY <1>1, <2>2, <2>3, <3>1, LaterIsUnread, ReadShifts
  <2>4. CASE n # m
    <3>1. n \in panels
      BY <1>3, <2>4
    <3>2. \/ streams[n] # "none" \/ Keeping(n)
          \/ \E k \in Unread : Stopping(k, n) \/ Drops(k, n)
      BY <1>2, <2>1, <3>1 DEF ScreensInv, FrozenInv
    <3>3. Keeping(n)' = Keeping(n)
      BY <1>1 DEF Keeping, Selects
    <3>4. ~(Stopping(1, n) \/ Drops(1, n))
      BY <1>2 DEF Starts, Stopping, Drops
    <3>5. QED BY <1>1, <2>2, <3>2, <3>3, <3>4, ReadShifts
  <2>5. QED BY <2>3, <2>4
<1>12. StreamingInv'
  <2>1. SUFFICES ASSUME tcp = "open", NEW n \in Monitors, streams[n] = "live"
                 PROVE  \/ Started(n)' \/ Dropping(n)'
                        \/ n \in panels' /\ (n \in ToSet(active') \/ Two')
    BY <1>1 DEF StreamingInv
  <2>2. CASE n = m
    BY <1>3, <1>8, <2>2
  <2>3. CASE n # m
    <3>1. ~Starts(1, n)
      BY <1>2, <2>3 DEF Starts
    <3>2. Started(n) => Started(n)'
      BY <1>1, <3>1, ReadShifts DEF Started
    <3>3. Dropping(n)' = Dropping(n)
      BY <1>1 DEF Dropping, Selects
    <3>4. Two => Two'
      BY <1>9 DEF Two
    <3>5. QED BY <1>3, <1>9, <2>1, <3>2, <3>3, <3>4 DEF ScreensInv, StreamingInv
  <2>4. QED BY <2>2, <2>3
<1>13. QED BY <1>1, <1>2, <1>3, <1>4, <1>5, <1>8, <1>10, <1>11, <1>12 DEF PanelsOK, SelectionInv

LEMMA StreamStoppedKeeps ==
  ASSUME ScreensInv, UNCHANGED tcp, OnStreamStopped, tcp \in {"open", "cut"}
  PROVE  PanelsOK' /\ WiresOK' /\ Message.id \in Monitors
<1>1. /\ WiresOK /\ UnreadInv /\ SelectionInv /\ Reading /\ toClient' = Tail(toClient)
      /\ Message.type = "STREAM_STOP"
      /\ UNCHANGED <<monitors, streams, active, available, pending, toHost>>
      /\ decoder \in [Monitors -> {"none", "awaiting", "good", "broken"}] /\ available \subseteq Monitors
  BY DEF ScreensInv, ScreensTypeOK, OnStreamStopped, hostVars, selection
<1>2. PICK m \in Monitors : m = Message.id /\ Stopping(1, m) /\ 1 \in Unread /\ ~Lists(1)
  BY <1>1, ReadOne, AnswerIs DEF Stopping, Lists
<1>3. decoder' = [decoder EXCEPT ![m] = "none"] /\ panels' = panels \ {m}
  BY <1>2 DEF OnStreamStopped
<1>4. WiresOK'
  BY <1>1, ReadOne, RequestsKept DEF WiresOK
<1>5. UnreadInv'
  BY <1>1, <1>2, ReadUnread
<1>6. PICK v : View(v) /\ ListsInv(v) /\ OrderInv(v)
  BY <1>1 DEF UnreadInv
<1>7. SelectionInv'
  <2>1. \A n \in Monitors : decoder'[n] # "none" <=> n \in panels'
    BY <1>1, <1>3 DEF SelectionInv
  <2>2. QED BY <1>1, <1>3, <2>1 DEF SelectionInv
<1>8. FrozenInv'
  <2>1. SUFFICES ASSUME tcp = "open", NEW n \in panels'
                 PROVE  \/ streams[n] # "none" \/ Keeping(n)'
                        \/ \E k \in Unread' : Stopping(k, n)' \/ Drops(k, n)'
    BY <1>1 DEF FrozenInv
  <2>2. n \in Monitors /\ n \in panels /\ n # m
    BY <1>1, <1>3 DEF SelectionInv
  <2>3. \/ streams[n] # "none" \/ Keeping(n)
        \/ \E k \in Unread : Stopping(k, n) \/ Drops(k, n)
    BY <1>2, <2>1, <2>2 DEF ScreensInv, FrozenInv
  <2>4. Keeping(n)' = Keeping(n)
    BY <1>1 DEF Keeping, Selects
  <2>5. ~(Stopping(1, n) \/ Drops(1, n))
    BY <1>2, <2>2 DEF Stopping, Drops
  <2>6. QED BY <1>1, <2>2, <2>3, <2>4, <2>5, ReadShifts
<1>9. StreamingInv'
  <2>1. SUFFICES ASSUME tcp = "open", NEW n \in Monitors, streams[n] = "live"
                 PROVE  \/ Started(n)' \/ Dropping(n)'
                        \/ n \in panels' /\ (n \in ToSet(active') \/ Two')
    BY <1>1 DEF StreamingInv
  <2>2. CASE n = m
    <3>1. PICK j \in Later(1) : Starts(j, m)
      BY <1>2, <1>6, <2>1, <2>2 DEF OrderInv
    <3>2. QED BY <1>1, <2>2, <3>1, LaterIsUnread, ReadShifts
  <2>3. CASE n # m
    <3>1. ~Starts(1, n)
      BY <1>2 DEF Starts, Stopping
    <3>2. Started(n) => Started(n)'
      BY <1>1, <3>1, ReadShifts DEF Started
    <3>3. Dropping(n)' = Dropping(n)
      BY <1>1 DEF Dropping, Selects
    <3>4. Two' = Two
      BY <1>1 DEF Two
    <3>5. QED BY <1>1, <1>3, <2>1, <2>3, <3>2, <3>3, <3>4 DEF ScreensInv, StreamingInv
  <2>4. QED BY <2>2, <2>3
<1>10. QED BY <1>2, <1>4, <1>5, <1>7, <1>8, <1>9 DEF PanelsOK

(* A result selects more at most, of the monitors known.                    *)
ResultAnswered ==
  /\ active' \in Seq(Monitors) /\ Len(active') <= MaxScreens
  /\ ToSet(active) \subseteq ToSet(active') /\ ToSet(active') \subseteq available
  /\ toHost' \in Seq(Requests) /\ Selects \subseteq Selects'
  /\ pending' \in Monitors \cup {Nil} /\ pending' \notin available

LEMMA ResultKeeps ==
  ASSUME ScreensInv, UNCHANGED tcp, OnResult, tcp \in {"open", "cut"}
  PROVE  /\ PanelsOK' /\ WiresOK' /\ active' \in Seq(Monitors) /\ pending' \in Monitors \cup {Nil}
         /\ match' = Nil \/ match' \in [old : Monitors, creating : BOOLEAN]
<1>1. /\ WiresOK /\ UnreadInv /\ SelectionInv /\ Reading /\ toClient' = Tail(toClient)
      /\ Message.type = "RESULT"
      /\ UNCHANGED <<monitors, streams, available, panels, decoder>>
      /\ active \in Seq(Monitors) /\ available \subseteq Monitors /\ pending \in Monitors \cup {Nil}
      /\ match = Nil \/ match \in [old : Monitors, creating : BOOLEAN]
  BY DEF ScreensInv, ScreensTypeOK, OnResult, hostVars, pictures
<1>2. /\ 1 \in Unread /\ ~Lists(1) /\ \A m \in Monitors : ~Starts(1, m) /\ ~Stopping(1, m) /\ ~Drops(1, m)
      /\ Message.ok => Message.id \in Monitors
  BY <1>1, ReadOne, AnswerIs DEF Starts, Stopping, Drops, Lists
<1>3. toClient' \in Seq(Answers)
  BY <1>1, ReadOne
<1>4. UnreadInv'
  BY <1>1, <1>2, ReadUnread
<1>5. Len(active) <= MaxScreens /\ ToSet(active) \subseteq available /\ pending \notin available
  BY <1>1 DEF SelectionInv
<1>6. ResultAnswered
  <2>1. CASE UNCHANGED <<active, pending, toHost>>
    BY <1>1, <1>5, <2>1, SelectsKept, RequestsKept DEF ResultAnswered
  <2>2. CASE UNCHANGED <<active, pending>> /\ Send([type |-> "CREATE"])
    <3>1. PICK r \in Requests : r = [type |-> "CREATE"] /\ r.type = "CREATE"
      BY RequestsAre
    <3>2. toHost' \in Seq(Requests) /\ Selects' = Selects
      BY <1>1, <2>2, <3>1, SentOne
    <3>3. QED BY <1>1, <1>5, <2>2, <3>2 DEF ResultAnswered
  <2>3. ASSUME NEW m \in Monitors, Shown(m), m \in available
        PROVE  ResultAnswered
    <3>1. ShowNew(m, active) /\ pending' = Nil
      BY <2>3 DEF Shown
    <3>2. /\ active' \in Seq(Monitors) /\ Len(active') <= MaxScreens
          /\ ToSet(active) \subseteq ToSet(active') /\ ToSet(active') \subseteq ToSet(active) \cup {m}
          /\ toHost' \in Seq(Requests) /\ Selects \subseteq Selects'
      BY <1>1, <1>5, <3>1, ShowNewIs
    <3>3. QED BY <1>1, <1>5, <2>3, <3>1, <3>2, ScreensAssumption DEF ResultAnswered
  <2>4. ASSUME NEW m \in Monitors, Shown(m), m \notin available
        PROVE  ResultAnswered
    <3>1. pending' = m /\ UNCHANGED <<active, toHost>>
      BY <2>4 DEF Shown
    <3>2. QED BY <1>1, <1>5, <2>4, <3>1, SelectsKept, RequestsKept DEF ResultAnswered
  <2>5. \/ UNCHANGED <<active, pending, toHost>>
        \/ UNCHANGED <<active, pending>> /\ Send([type |-> "CREATE"])
        \/ Message.ok /\ Shown(Message.id)
    BY DEF OnResult
  <2>6. QED BY <1>2, <2>1, <2>2, <2>3, <2>4, <2>5
<1>7. /\ active' \in Seq(Monitors) /\ Len(active') <= MaxScreens
      /\ ToSet(active) \subseteq ToSet(active') /\ ToSet(active') \subseteq available
      /\ toHost' \in Seq(Requests) /\ Selects \subseteq Selects'
      /\ pending' \in Monitors \cup {Nil} /\ pending' \notin available
  BY <1>6 DEF ResultAnswered
<1>8. match' = Nil \/ match' \in [old : Monitors, creating : BOOLEAN]
  <2>1. \/ match' = match \/ match' = Nil
        \/ match # Nil /\ match' = [match EXCEPT !.creating = TRUE]
    BY DEF OnResult
  <2>2. QED BY <1>1, <2>1
<1>9. SelectionInv'
  BY <1>1, <1>7 DEF SelectionInv
<1>10. FrozenInv'
  <2>1. SUFFICES ASSUME tcp = "open", NEW m \in panels
                 PROVE  \/ streams[m] # "none" \/ Keeping(m)'
                        \/ \E k \in Unread' : Stopping(k, m)' \/ Drops(k, m)'
    BY <1>1 DEF FrozenInv
  <2>2. m \in Monitors
    BY <1>1 DEF SelectionInv
  <2>3. \/ streams[m] # "none" \/ Keeping(m)
        \/ \E k \in Unread : Stopping(k, m) \/ Drops(k, m)
    BY <1>2, <2>1 DEF ScreensInv, FrozenInv
  <2>4. Keeping(m) => Keeping(m)'
    BY <1>7 DEF Keeping
  <2>5. QED BY <1>1, <1>2, <2>2, <2>3, <2>4, ReadShifts
<1>11. StreamingInv'
  <2>1. SUFFICES ASSUME tcp = "open", NEW m \in Monitors, streams[m] = "live"
                 PROVE  \/ Started(m)' \/ Dropping(m)'
                        \/ m \in panels /\ (m \in ToSet(active') \/ Two')
    BY <1>1 DEF StreamingInv
  <2>2. Started(m) => Started(m)'
    BY <1>1, <1>2, ReadShifts DEF Started
  <2>3. Dropping(m) => Dropping(m)'
    BY <1>7 DEF Dropping
  <2>4. Two => Two'
    BY <1>7 DEF Two
  <2>5. QED BY <1>7, <2>1, <2>2, <2>3, <2>4 DEF ScreensInv, StreamingInv
<1>12. QED BY <1>3, <1>4, <1>7, <1>8, <1>9, <1>10, <1>11 DEF PanelsOK, WiresOK

-----------------------------------------------------------------------------
(* The user selects.                                                        *)

LEMMA SelectKeeps ==
  ASSUME ScreensInv, UNCHANGED tcp, NEW m \in Monitors, SelectMonitor(m)
  PROVE  PanelsOK' /\ WiresOK' /\ active' \in Seq(Monitors)
<1>1. /\ WiresOK /\ UnreadInv /\ SelectionInv
      /\ UNCHANGED <<monitors, streams, available, panels, decoder, pending, toClient>>
      /\ active \in Seq(Monitors) /\ available \subseteq Monitors /\ m \in available
      /\ active' = IF Contains(active, m) THEN Kept(active, Monitors \ {m}) ELSE Added(active, m)
      /\ SendSelection(active')
  BY DEF ScreensInv, ScreensTypeOK, SelectMonitor, hostVars, pictures
<1>2. UnreadInv'
  BY <1>1, UnreadKept
<1>3. Len(active) <= MaxScreens /\ ToSet(active) \subseteq available
  BY <1>1 DEF SelectionInv
<1>4. active' \in Seq(Monitors) /\ Len(active') <= MaxScreens /\ ToSet(active') \subseteq available
  <2>1. CASE Contains(active, m)
    <3>1. /\ Kept(active, Monitors \ {m}) \in Seq(Monitors)
          /\ Len(Kept(active, Monitors \ {m})) <= Len(active)
          /\ ToSet(Kept(active, Monitors \ {m})) = ToSet(active) \cap (Monitors \ {m})
      BY <1>1, KeptIs
    <3>2. active' = Kept(active, Monitors \ {m})
      BY <1>1, <2>1
    <3>3. active' \in Seq(Monitors) /\ Len(active') <= Len(active) /\ ToSet(active') \subseteq ToSet(active)
      BY <3>1, <3>2
    <3>4. Len(active) \in Nat /\ MaxScreens \in Nat /\ Len(active') \in Nat
      BY <1>1, <3>3, ScreensAssumption
    <3>5. QED BY <1>3, <3>3, <3>4
  <2>2. CASE ~Contains(active, m)
    <3>1. m \notin ToSet(active)
      BY <1>1, <2>2, ToSetIs
    <3>2. /\ Added(active, m) \in Seq(Monitors) /\ Len(Added(active, m)) <= MaxScreens
          /\ ToSet(Added(active, m)) \subseteq ToSet(active) \cup {m}
      BY <1>1, <1>3, <3>1, AddedIs
    <3>3. QED BY <1>1, <1>3, <2>2, <3>2
  <2>3. QED BY <2>1, <2>2
<1>5. toHost' \in Seq(Requests) /\ Selects' = Selects \cup {ToSet(active')}
  <2>1. PICK ids \in Seq(Monitors) : ids = active'
    BY <1>4
  <2>2. toHost' \in Seq(Requests) /\ Selects' = Selects \cup {ToSet(ids)}
    BY <1>1, <2>1, SendSelectionIs
  <2>3. QED BY <2>1, <2>2
<1>6. SelectionInv'
  BY <1>1, <1>4 DEF SelectionInv
<1>7. FrozenInv'
  BY <1>1, <1>5 DEF ScreensInv, FrozenInv, Keeping, Unread, Stopping, Drops, Lists
<1>8. StreamingInv'
  <2>1. SUFFICES ASSUME tcp = "open", NEW n \in Monitors, streams[n] = "live"
                 PROVE  \/ Started(n)' \/ Dropping(n)'
                        \/ n \in panels /\ n \in ToSet(active')
    BY <1>1 DEF StreamingInv
  <2>2. Started(n)' = Started(n)
    BY <1>1 DEF Started, Starts, Unread
  <2>3. Dropping(n) \/ n \notin ToSet(active') => Dropping(n)'
    BY <1>5 DEF Dropping
  <2>4. QED BY <2>1, <2>2, <2>3 DEF ScreensInv, StreamingInv
<1>9. QED BY <1>1, <1>2, <1>4, <1>5, <1>6, <1>7, <1>8 DEF PanelsOK, WiresOK

-----------------------------------------------------------------------------
(* Each step keeps the invariant of the screens.                            *)

LEMMA ReadsKeep ==
  ASSUME ScreensInv, UNCHANGED tcp, tcp \in {"open", "cut"}, Reads
  PROVE  ScreensInv'
<1> USE DEF ScreensTypeOK
<1>1. ScreensTypeOK /\ WiresOK
  BY DEF ScreensInv
<1>2. CASE OnMonitorList
  <2>1. PanelsOK' /\ WiresOK' /\ active' \in Seq(Monitors) /\ panels' \subseteq panels /\ pending' \in Monitors \cup {Nil}
    BY <1>2, MonitorListKeeps
  <2>2. available' \subseteq Monitors
    <3>1. available' = Message.ids /\ Message.type = "MONITOR_LIST" /\ Reading /\ toClient' = Tail(toClient)
      BY <1>2 DEF OnMonitorList
    <3>2. QED BY <1>1, <3>1, ReadOne, AnswerIs
  <2>3. decoder' \in [Monitors -> {"none", "awaiting", "good", "broken"}]
    <3>1. PICK ids : FrozenGo(ids)
      BY <1>2 DEF OnMonitorList
    <3>2. decoder' = [m \in Monitors |-> IF m \in panels \ ToSet(ids) THEN "none" ELSE decoder[m]]
      BY <3>1 DEF FrozenGo, Closing
    <3>3. QED BY <1>1, <3>2
  <2>4. UNCHANGED <<match, asked, sized, skipped, monitors, streams, keyframe, air>>
    BY <1>2 DEF OnMonitorList, received, hostVars
  <2>5. ScreensTypeOK'
    BY <1>1, <2>1, <2>2, <2>3, <2>4
  <2>6. QED BY <2>1, <2>5 DEF ScreensInv, PanelsOK
<1>3. CASE OnStreamStarted
  <2>1. PanelsOK' /\ WiresOK' /\ active' \in Seq(Monitors) /\ panels' \subseteq Monitors /\ Message.id \in Monitors
    BY <1>3, StreamStartedKeeps
  <2>2. /\ sized' = sized \cup {Message.id} /\ skipped' = skipped \ {Message.id}
        /\ decoder' = [decoder EXCEPT ![Message.id] = "awaiting"]
        /\ UNCHANGED <<available, pending, match, asked, monitors, streams, keyframe, air>>
    BY <1>3 DEF OnStreamStarted, hostVars
  <2>3. ScreensTypeOK'
    BY <1>1, <2>1, <2>2
  <2>4. QED BY <2>1, <2>3 DEF ScreensInv, PanelsOK
<1>4. CASE OnStreamStopped
  <2>1. PanelsOK' /\ WiresOK' /\ Message.id \in Monitors
    BY <1>4, StreamStoppedKeeps
  <2>2. /\ sized' = sized \ {Message.id} /\ skipped' = skipped \ {Message.id}
        /\ decoder' = [decoder EXCEPT ![Message.id] = "none"] /\ panels' = panels \ {Message.id}
        /\ UNCHANGED <<active, available, pending, match, asked, monitors, streams, keyframe, air>>
    BY <1>4 DEF OnStreamStopped, hostVars, selection
  <2>3. ScreensTypeOK'
    BY <1>1, <2>1, <2>2
  <2>4. QED BY <2>1, <2>3 DEF ScreensInv, PanelsOK
<1>5. CASE OnResult
  <2>1. /\ PanelsOK' /\ WiresOK' /\ active' \in Seq(Monitors) /\ pending' \in Monitors \cup {Nil}
        /\ match' = Nil \/ match' \in [old : Monitors, creating : BOOLEAN]
    BY <1>5, ResultKeeps
  <2>2. UNCHANGED <<available, panels, decoder, asked, sized, skipped, monitors, streams, keyframe, air>>
    BY <1>5 DEF OnResult, hostVars, pictures, received
  <2>3. ScreensTypeOK'
    BY <1>1, <2>1, <2>2
  <2>4. QED BY <2>1, <2>3 DEF ScreensInv, PanelsOK
<1>6. QED BY <1>2, <1>3, <1>4, <1>5 DEF Reads

(* A keyframe asked for is no selection.                                    *)
LEMMA KeyframeIs ==
  ASSUME WiresOK, NEW m \in Monitors, asked \in [Monitors -> BOOLEAN],
         RequestKeyframe(m) \/ UNCHANGED <<asked, toHost>>
  PROVE  asked' \in [Monitors -> BOOLEAN] /\ toHost' \in Seq(Requests) /\ Selects' = Selects
<1>1. CASE UNCHANGED <<asked, toHost>>
  BY <1>1, SelectsKept, RequestsKept
<1>2. CASE asked' = [asked EXCEPT ![m] = TRUE] /\ Send(About("REQUEST_KEYFRAME", m))
  <2>1. PICK r \in Requests : r = About("REQUEST_KEYFRAME", m) /\ r.type = "REQUEST_KEYFRAME"
    BY RequestsAre
  <2>2. toHost' \in Seq(Requests) /\ Selects' = Selects
    BY <1>2, <2>1, SentOne
  <2>3. QED BY <1>2, <2>2
<1>3. QED BY <1>1, <1>2 DEF RequestKeyframe

LEMMA FramesKeep ==
  ASSUME ScreensInv, UNCHANGED tcp, NEW m \in Monitors,
         FrameSent(m) \/ FrameLost(m) \/ FrameRefused(m) \/ ThrottleEnds(m)
  PROVE  ScreensInv'
<1>1. ScreensTypeOK /\ WiresOK /\ PanelsOK
  BY DEF ScreensInv, PanelsOK
<1>2. CASE FrameSent(m) \/ FrameLost(m) \/ FrameRefused(m)
  <2>1. UNCHANGED <<active, available, pending, match, panels, sized, monitors, streams, toClient>>
    BY <1>2 DEF FrameSent, FrameLost, FrameRefused, Sends, selection
  <2>2. air' \in [Monitors -> {"idr", Nil}] /\ keyframe' \in [Monitors -> BOOLEAN]
    <3>1. \/ air' = [air EXCEPT ![m] = Nil] /\ UNCHANGED keyframe
          \/ keyframe' = [keyframe EXCEPT ![m] = FALSE] /\ UNCHANGED air
      BY <1>2 DEF FrameSent, FrameLost, FrameRefused, Sends
    <3>2. QED BY <1>1, <3>1 DEF ScreensTypeOK
  <2>3. RequestKeyframe(m) \/ UNCHANGED <<asked, toHost>>
    BY <1>2 DEF FrameSent, FrameLost, FrameRefused, FrameArrives
  <2>4. asked' \in [Monitors -> BOOLEAN] /\ toHost' \in Seq(Requests) /\ Selects' = Selects
    BY <1>1, <2>3, KeyframeIs DEF ScreensTypeOK
  <2>5. skipped' \subseteq Monitors
    BY <1>1, <1>2 DEF ScreensTypeOK, FrameSent, FrameLost, FrameRefused, FrameArrives
  <2>6. /\ decoder' \in [Monitors -> {"none", "awaiting", "good", "broken"}]
        /\ \A n \in Monitors : decoder'[n] # "none" <=> decoder[n] # "none"
    <3>1. CASE UNCHANGED decoder
      BY <1>1, <3>1 DEF ScreensTypeOK
    <3>2. ASSUME NEW frame, decoder' = [decoder EXCEPT ![m] = Decoded(m, frame)]
          PROVE  /\ decoder' \in [Monitors -> {"none", "awaiting", "good", "broken"}]
                 /\ \A n \in Monitors : decoder'[n] # "none" <=> decoder[n] # "none"
      <4>1. /\ Decoded(m, frame) \in {"none", "awaiting", "good", "broken"}
            /\ Decoded(m, frame) # "none" <=> decoder[m] # "none"
        BY <1>1 DEF ScreensTypeOK, Decoded
      <4>2. QED BY <1>1, <3>2, <4>1 DEF ScreensTypeOK
    <3>3. ASSUME decoder[m] # "none", decoder' = [decoder EXCEPT ![m] = "broken"]
          PROVE  /\ decoder' \in [Monitors -> {"none", "awaiting", "good", "broken"}]
                 /\ \A n \in Monitors : decoder'[n] # "none" <=> decoder[n] # "none"
      BY <1>1, <3>3 DEF ScreensTypeOK
    <3>4. \/ UNCHANGED decoder
          \/ \E frame : decoder' = [decoder EXCEPT ![m] = Decoded(m, frame)]
          \/ decoder[m] # "none" /\ decoder' = [decoder EXCEPT ![m] = "broken"]
      BY <1>2 DEF FrameSent, FrameLost, FrameRefused, FrameArrives
    <3>5. QED BY <3>1, <3>2, <3>3, <3>4
  <2>7. PanelsOK'
    BY <1>1, <2>1, <2>4, <2>6, QuietKeeps
  <2>8. ScreensTypeOK'
    BY <1>1, <2>1, <2>2, <2>4, <2>5, <2>6 DEF ScreensTypeOK
  <2>9. WiresOK'
    BY <1>1, <2>1, <2>4 DEF WiresOK
  <2>10. QED BY <2>7, <2>8, <2>9 DEF ScreensInv, PanelsOK
<1>3. CASE ThrottleEnds(m)
  <2>1. UNCHANGED <<selection, panels, decoder, received, hostVars, wires>> /\ asked' = [asked EXCEPT ![m] = FALSE]
    BY <1>3 DEF ThrottleEnds
  <2>2. Selects' = Selects /\ toHost' \in Seq(Requests)
    BY <1>1, <2>1, SelectsKept, RequestsKept DEF wires
  <2>3. PanelsOK'
    BY <1>1, <2>1, <2>2, QuietKeeps DEF selection, hostVars, wires
  <2>4. ScreensTypeOK' /\ WiresOK'
    BY <1>1, <2>1 DEF ScreensTypeOK, WiresOK, selection, received, hostVars, wires
  <2>5. QED BY <2>3, <2>4 DEF ScreensInv, PanelsOK
<1>4. QED BY <1>2, <1>3

LEMMA HostTypes ==
  ASSUME ScreensInv, HostTells, WiresOK', UNCHANGED <<decoder, asked, sized, skipped, match>>,
         streams' \in [Monitors -> {"none", "starting", "live"}],
         keyframe' \in [Monitors -> BOOLEAN], air' \in [Monitors -> {"idr", Nil}]
  PROVE  ScreensInv'
<1>1. PanelsOK'
  BY TellsKeeps
<1>2. ScreensTypeOK'
  BY DEF ScreensInv, ScreensTypeOK, HostTells
<1>3. QED BY <1>1, <1>2 DEF ScreensInv, PanelsOK

LEMMA HostKeeps ==
  ASSUME ScreensInv, tcp = "open", UNCHANGED tcp, Handles \/ \E m \in Monitors : HostStarts(m)
  PROVE  ScreensInv'
<1>1. /\ WiresOK /\ PanelsOK /\ ScreensTypeOK
      /\ streams \in [Monitors -> {"none", "starting", "live"}]
      /\ keyframe \in [Monitors -> BOOLEAN] /\ air \in [Monitors -> {"idr", Nil}]
  BY DEF ScreensInv, ScreensTypeOK, PanelsOK
<1>2. CASE HostSelects
  <2>1. streams' \in [Monitors -> {"none", "starting", "live"}]
    <3>1. PICK ids : streams' = [m \in Monitors |-> IF m \notin ids THEN "none"
                                                  ELSE IF streams[m] = "none" THEN "starting" ELSE streams[m]]
      BY <1>2 DEF HostSelects
    <3>2. QED BY <1>1, <3>1
  <2>2. UNCHANGED <<decoder, asked, sized, skipped, match, keyframe, air>>
    BY <1>2 DEF HostSelects, selection, pictures, received
  <2>3. QED BY <1>1, <1>2, <2>1, <2>2, HostSelectsTells, HostTypes
<1>3. CASE HostKeyframe
  <2>1. /\ toHost # <<>> /\ toHost' = Tail(toHost) /\ Head(toHost).type = "REQUEST_KEYFRAME"
        /\ UNCHANGED <<active, available, pending, match, panels, decoder, asked, sized, skipped, monitors,
                       streams, toClient, air>>
    BY <1>3 DEF HostKeyframe, Request, selection, pictures, received
  <2>2. keyframe' \in [Monitors -> BOOLEAN]
    <3>1. PICK m : keyframe' = [keyframe EXCEPT ![m] = @ \/ streams[m] = "live"]
      BY <1>3 DEF HostKeyframe
    <3>2. PICK b \in BOOLEAN : b = (keyframe[m] \/ streams[m] = "live")
      OBVIOUS
    <3>3. keyframe' = [keyframe EXCEPT ![m] = b]
      BY <3>1, <3>2
    <3>4. QED BY <1>1, <3>3
  <2>3. Selects' = Selects /\ toHost' \in Seq(Requests)
    BY <1>1, <2>1, SelectsKept, RequestsKept
  <2>4. PanelsOK'
    BY <1>1, <2>1, <2>3, QuietKeeps
  <2>5. ScreensTypeOK' /\ WiresOK'
    BY <1>1, <2>1, <2>2, <2>3 DEF ScreensTypeOK, WiresOK
  <2>6. QED BY <2>4, <2>5 DEF ScreensInv, PanelsOK
<1>4. CASE HostCreates
  <2>1. UNCHANGED <<decoder, asked, sized, skipped, match, keyframe, air, streams>>
    BY <1>4 DEF HostCreates, selection, pictures, received
  <2>2. QED BY <1>1, <1>4, <2>1, HostCreatesTells, HostTypes
<1>5. CASE HostRemoves
  <2>1. UNCHANGED <<decoder, asked, sized, skipped, match, keyframe, air>>
    BY <1>5 DEF HostRemoves, selection, pictures, received
  <2>2. streams' = streams \/ \E m : streams' = [streams EXCEPT ![m] = "none"]
    BY <1>5 DEF HostRemoves, Removal
  <2>3. streams' \in [Monitors -> {"none", "starting", "live"}]
    BY <1>1, <2>2
  <2>4. QED BY <1>1, <1>5, <2>1, <2>3, HostRemovesTells, HostTypes
<1>6. ASSUME NEW m \in Monitors, HostStarts(m) PROVE ScreensInv'
  <2>1. /\ UNCHANGED <<decoder, asked, sized, skipped, match>>
        /\ streams' = [streams EXCEPT ![m] = "live"] /\ keyframe' = [keyframe EXCEPT ![m] = FALSE]
        /\ air' = [air EXCEPT ![m] = "idr"]
    BY <1>6 DEF HostStarts, selection, pictures, received
  <2>2. /\ streams' \in [Monitors -> {"none", "starting", "live"}]
        /\ keyframe' \in [Monitors -> BOOLEAN] /\ air' \in [Monitors -> {"idr", Nil}]
    BY <1>1, <2>1
  <2>3. QED BY <1>6, <2>1, <2>2, HostStartsTells, HostTypes
<1>7. QED BY <1>2, <1>3, <1>4, <1>5, <1>6 DEF Handles

LEMMA OthersKeep ==
  ASSUME ScreensInv, Others
  PROVE  ScreensInv'
<1>1. /\ WiresOK /\ PanelsOK /\ ScreensTypeOK
      /\ streams \in [Monitors -> {"none", "starting", "live"}]
      /\ keyframe \in [Monitors -> BOOLEAN] /\ air \in [Monitors -> {"idr", Nil}]
  BY DEF ScreensInv, ScreensTypeOK, PanelsOK
<1>2. UNCHANGED tcp
  BY DEF Others, linkVars
<1>3. CASE tcp = "open" /\ TakenOver
  <2>1. /\ UNCHANGED <<decoder, asked, sized, skipped, match, keyframe, air>>
        /\ streams' = [m \in Monitors |-> "none"]
    BY <1>3 DEF TakenOver, selection, pictures, received, Each
  <2>2. streams' \in [Monitors -> {"none", "starting", "live"}]
    BY <2>1
  <2>3. QED BY <1>1, <1>2, <1>3, <2>1, <2>2, TakenOverTells, HostTypes
<1>4. ASSUME NEW m \in Virtual, tcp = "open", OthersCreate(m) PROVE ScreensInv'
  <2>1. UNCHANGED <<decoder, asked, sized, skipped, match, keyframe, air, streams>>
    BY <1>4 DEF OthersCreate, selection, pictures, received
  <2>2. QED BY <1>1, <1>2, <1>4, <2>1, OthersCreateTells, HostTypes
<1>5. ASSUME NEW m \in Virtual, tcp = "open", OthersRemove(m) PROVE ScreensInv'
  <2>1. /\ UNCHANGED <<decoder, asked, sized, skipped, match, keyframe, air>>
        /\ streams' = [streams EXCEPT ![m] = "none"]
    BY <1>5 DEF OthersRemove, Removal, selection, pictures, received
  <2>2. streams' \in [Monitors -> {"none", "starting", "live"}]
    BY <1>1, <2>1
  <2>3. QED BY <1>1, <1>2, <1>5, <2>1, <2>2, OthersRemoveTells, HostTypes
<1>6. ASSUME NEW m \in Virtual, tcp \notin {"open", "cut"}, OthersChange(m) PROVE ScreensInv'
  <2>1. /\ UNCHANGED <<active, available, pending, match, panels, decoder, asked, sized, skipped, streams,
                       keyframe, toHost, toClient, air>>
        /\ monitors' \in {monitors \ {m}, monitors \cup {m}} /\ m \in Monitors
    BY <1>6 DEF OthersChange, selection, pictures, received, wires, Monitors
  <2>2. toClient' = <<>> /\ available \subseteq Monitors /\ \A n \in Monitors : streams'[n] = "none"
    BY <1>1, <1>6, <2>1 DEF PanelsOK, SelectionInv, UnreadInv, OrderInv, ScreensTypeOK
  <2>3. PanelsOK'
    BY <1>1, <1>2, <1>6, <2>1, <2>2, AwayKeeps
  <2>4. ScreensTypeOK' /\ WiresOK'
    BY <1>1, <2>1 DEF ScreensTypeOK, WiresOK
  <2>5. QED BY <2>3, <2>4 DEF ScreensInv, PanelsOK
<1>7. QED BY <1>3, <1>4, <1>5, <1>6 DEF Others

(* The connection is made, or lost.                                         *)
LEMMA AwayStep ==
  ASSUME ScreensInv, WiresClosed, tcp' = "none" \/ tcp' = "connecting", ScreensStay \/ ScreensCleared
  PROVE  ScreensInv'
<1>1. /\ PanelsOK /\ ScreensTypeOK /\ available \subseteq Monitors
  BY DEF ScreensInv, ScreensTypeOK, PanelsOK
<1>2. /\ toHost' = <<>> /\ toClient' = <<>> /\ air' = [m \in Monitors |-> Nil] /\ sized' = {} /\ skipped' = {}
      /\ streams' = [m \in Monitors |-> "none"] /\ keyframe' = [m \in Monitors |-> FALSE]
      /\ UNCHANGED <<available, asked, monitors>>
  BY DEF WiresClosed, ScreensStay, ScreensCleared, Each, pictures
<1>3. \/ UNCHANGED <<active, panels, decoder>> /\ pending' = Nil /\ match' = Nil
      \/ active' = <<>> /\ panels' = {} /\ decoder' = Each("none") /\ UNCHANGED <<pending, match>>
  BY DEF ScreensStay, ScreensCleared, pictures
<1>4. PanelsOK'
  BY <1>1, <1>2, <1>3, AwayKeeps
<1>5. WiresOK'
  BY <1>2 DEF WiresOK
<1>6. /\ active' \in Seq(Monitors) /\ panels' \subseteq Monitors
      /\ decoder' \in [Monitors -> {"none", "awaiting", "good", "broken"}]
      /\ pending' \in Monitors \cup {Nil}
      /\ match' = Nil \/ match' \in [old : Monitors, creating : BOOLEAN]
  <2>1. CASE UNCHANGED <<active, panels, decoder>> /\ pending' = Nil /\ match' = Nil
    BY <1>1, <2>1 DEF ScreensTypeOK
  <2>2. CASE active' = <<>> /\ panels' = {} /\ decoder' = Each("none") /\ UNCHANGED <<pending, match>>
    <3>1. decoder' = [m \in Monitors |-> "none"]
      BY <2>2 DEF Each
    <3>2. QED BY <1>1, <2>2, <3>1 DEF ScreensTypeOK
  <2>3. QED BY <1>3, <2>1, <2>2
<1>7. ScreensTypeOK'
  BY <1>1, <1>2, <1>6 DEF ScreensTypeOK
<1>8. QED BY <1>4, <1>5, <1>7 DEF ScreensInv, PanelsOK

(* The connection alone: not to or from one that is open.                   *)
LEMMA SameScreens ==
  ASSUME ScreensInv, UNCHANGED screenVars, tcp' = "open" => tcp = "open",
         tcp \in {"open", "cut"} => tcp' \in {"open", "cut"}
  PROVE  ScreensInv'
<1>1. UNCHANGED <<active, available, pending, match, panels, decoder, asked, sized, skipped, monitors, streams,
                  keyframe, toHost, toClient, air>>
  BY DEF screenVars, selection, pictures, received, hostVars, wires
<1>2. PanelsOK'
  BY <1>1, SelectsKept, QuietKeeps DEF ScreensInv, PanelsOK
<1>3. ScreensTypeOK' /\ WiresOK'
  BY <1>1 DEF ScreensInv, ScreensTypeOK, WiresOK
<1>4. QED BY <1>2, <1>3 DEF ScreensInv, PanelsOK

LEMMA LinkKeeps ==
  ASSUME LinkInv, ScreensInv, LinkStep
  PROVE  ScreensInv'
<1>1. /\ current_state = "DISCONNECTED" <=> tcp = "none"
      /\ current_state = "CONNECTING" <=> tcp = "connecting"
      /\ connect_after_probe => tcp = "none"
  BY DEF LinkInv
<1>2. CASE Reconnect
  BY <1>1, <1>2, SameScreens DEF Reconnect, HandleReconnect, Dial
<1>3. CASE Open
  <2>1. tcp = "connecting" /\ tcp' \in {"hello", "cut"} /\ UNCHANGED screenVars
    BY <1>3 DEF Open, TcpOpens
  <2>2. QED BY <2>1, SameScreens
<1>4. CASE Accepted
  <2>1. tcp = "hello" /\ tcp' = "open" /\ HostGreets
    BY <1>4 DEF Accepted, HelloAck
  <2>2. PanelsOK' /\ toClient' \in Seq(Answers)
    BY <2>1, GreetKeeps DEF ScreensInv, PanelsOK
  <2>3. UNCHANGED <<active, available, pending, match, panels, decoder, asked, sized, skipped, monitors, streams,
                    keyframe, toHost, air>>
    BY <2>1 DEF HostGreets, selection, pictures, received, hostVars
  <2>4. ScreensTypeOK' /\ WiresOK'
    BY <2>2, <2>3 DEF ScreensInv, ScreensTypeOK, WiresOK
  <2>5. QED BY <2>2, <2>4 DEF ScreensInv, PanelsOK
<1>5. CASE Failed \/ Refused
  <2>1. tcp' = "none" /\ ScreensStay
    BY <1>5 DEF Failed, Refused, TcpFails, RefusedPin, RefusedFull, Disconnected
  <2>2. QED BY <2>1, AwayStep DEF ScreensStay
<1>6. CASE Switch
  <2>1. tcp' = "connecting" /\ IF current_state # "DISCONNECTED" THEN ScreensStay ELSE UNCHANGED screenVars
    BY <1>6 DEF Switch, SwitchToUsb, Dial
  <2>2. CASE current_state # "DISCONNECTED"
    BY <2>1, <2>2, AwayStep DEF ScreensStay
  <2>3. CASE current_state = "DISCONNECTED"
    BY <1>1, <2>1, <2>3, SameScreens
  <2>4. QED BY <2>2, <2>3
<1>7. CASE Launch
  BY <1>1, <1>7, SameScreens DEF Launch, LaunchOverNetwork, Dial
<1>8. CASE Discovery
  <2>1. UNCHANGED tcp /\ UNCHANGED screenVars
    BY <1>8 DEF Discovery, HostAnswers, HostForgotten
  <2>2. QED BY <2>1, SameScreens
<1>9. QED BY <1>2, <1>3, <1>4, <1>5, <1>6, <1>7, <1>8 DEF LinkStep

(* What the user, the world, the network and other clients do.              *)
LEMMA OutsideKeeps ==
  ASSUME LinkInv, ScreensInv, User \/ World \/ Others \/ Lose
  PROVE  ScreensInv'
<1>1. /\ current_state = "DISCONNECTED" <=> tcp = "none"
      /\ current_state = "CONNECTING" <=> tcp = "connecting"
  BY DEF LinkInv
<1>2. CASE UserDisconnects /\ ScreensCleared
  <2>1. tcp' = "none"
    BY <1>2 DEF UserDisconnects
  <2>2. QED BY <1>2, <2>1, AwayStep DEF ScreensCleared
<1>3. ASSUME NEW ip \in Lan \cup {Usb}, UserConnects(ip), UNCHANGED screenVars PROVE ScreensInv'
  BY <1>1, <1>3, SameScreens DEF UserConnects, Dial
<1>4. ASSUME NEW right \in BOOLEAN, PinEntered(right), UNCHANGED screenVars PROVE ScreensInv'
  BY <1>1, <1>4, SameScreens DEF PinEntered, Dial
<1>5. ASSUME UNCHANGED tcp, NEW r \in Requests, r.type # "SELECT", Send(r),
             UNCHANGED <<active, available, pending, panels, decoder, asked, sized, skipped,
                         monitors, streams, keyframe, toClient, air>>,
             match' = match \/ match' \in [old : Monitors, creating : BOOLEAN]
      PROVE  ScreensInv'
  <2>1. toHost' \in Seq(Requests) /\ Selects' = Selects
    BY <1>5, SentOne DEF ScreensInv
  <2>2. PanelsOK'
    BY <1>5, <2>1, QuietKeeps DEF ScreensInv, PanelsOK
  <2>3. ScreensTypeOK' /\ WiresOK'
    BY <1>5, <2>1 DEF ScreensInv, ScreensTypeOK, WiresOK
  <2>4. QED BY <2>2, <2>3 DEF ScreensInv, PanelsOK
<1>6. CASE UNCHANGED linkVars /\ CreateVirtual
  <2>1. PICK r \in Requests : r = [type |-> "CREATE"] /\ r.type = "CREATE"
    BY RequestsAre
  <2>2. /\ Send(r) /\ UNCHANGED tcp
        /\ UNCHANGED <<active, available, pending, match, panels, decoder, asked, sized, skipped,
                       monitors, streams, keyframe, toClient, air>>
    BY <1>6, <2>1 DEF CreateVirtual, linkVars, selection, pictures, received, hostVars
  <2>3. QED BY <1>5, <2>1, <2>2
<1>7. ASSUME UNCHANGED linkVars, NEW m \in Monitors, RemoveVirtual(m) \/ MatchVirtual(m) PROVE ScreensInv'
  <2>1. PICK r \in Requests : r = About("REMOVE", m) /\ r.type = "REMOVE"
    BY RequestsAre
  <2>2. /\ Send(r) /\ UNCHANGED tcp
        /\ UNCHANGED <<active, available, pending, panels, decoder, asked, sized, skipped,
                       monitors, streams, keyframe, toClient, air>>
    BY <1>7, <2>1 DEF RemoveVirtual, MatchVirtual, linkVars, selection, pictures, received, hostVars
  <2>3. match' = match \/ match' = [old |-> m, creating |-> FALSE]
    <3>1. CASE RemoveVirtual(m)
      BY <3>1 DEF RemoveVirtual, selection
    <3>2. CASE MatchVirtual(m)
      BY <3>2 DEF MatchVirtual
    <3>3. QED BY <1>7, <3>1, <3>2
  <2>4. match' = match \/ match' \in [old : Monitors, creating : BOOLEAN]
    <3>1. [old |-> m, creating |-> FALSE] \in [old : Monitors, creating : BOOLEAN]
      OBVIOUS
    <3>2. QED BY <2>3, <3>1, Zenon
  <2>5. QED BY <1>5, <2>1, <2>2, <2>4
<1>8. ASSUME UNCHANGED linkVars, NEW m \in Monitors, SelectMonitor(m) PROVE ScreensInv'
  <2>1. PanelsOK' /\ WiresOK' /\ active' \in Seq(Monitors)
    BY <1>8, SelectKeeps DEF linkVars
  <2>2. UNCHANGED <<available, pending, match, panels, decoder, asked, sized, skipped, monitors, streams,
                    keyframe, air>>
    BY <1>8 DEF SelectMonitor, pictures, received, hostVars
  <2>3. ScreensTypeOK'
    BY <2>1, <2>2 DEF ScreensInv, ScreensTypeOK
  <2>4. QED BY <2>1, <2>3 DEF ScreensInv, PanelsOK
<1>9. CASE User
  BY <1>2, <1>3, <1>4, <1>6, <1>7, <1>8, <1>9 DEF User
<1>10. CASE World
  <2>1. UNCHANGED screenVars /\ (UNCHANGED tcp \/ (tcp \in {"hello", "open"} /\ tcp' = "cut"))
    BY <1>10 DEF World, WorldChanges, PinChanged, Closed
  <2>2. QED BY <2>1, SameScreens
<1>11. CASE Lose
  BY <1>11, FramesKeep DEF Lose, linkVars
<1>12. QED BY <1>9, <1>10, <1>11, OthersKeep

-----------------------------------------------------------------------------
(* The invariant.                                                           *)

LEMMA InitEstablishes == Init => IInv
<1> SUFFICES ASSUME Init PROVE IInv
  OBVIOUS
<1>1. PICK v : v = [k \in 0..0 |-> available]
  OBVIOUS
<1>2. /\ active = <<>> /\ available = {} /\ panels = {} /\ decoder = [m \in Monitors |-> "none"]
      /\ asked = [m \in Monitors |-> FALSE] /\ pending = Nil /\ match = Nil
      /\ sized = {} /\ skipped = {} /\ toHost = <<>> /\ toClient = <<>> /\ air = [m \in Monitors |-> Nil]
      /\ monitors \in {Real, Monitors} /\ streams = [m \in Monitors |-> "none"]
      /\ keyframe = [m \in Monitors |-> FALSE]
  BY DEF Init, InitScreens, Each
<1>3. tcp = "none" /\ Len(toClient) = 0 /\ Unread = {} /\ ToSet(active) = {}
  BY <1>2 DEF Init, InitLink, Unread, ToSet
<1>4. View(v) /\ ListsInv(v) /\ OrderInv(v)
  BY <1>1, <1>2, <1>3 DEF View, ListsInv, OrderInv
<1>5. SelectionInv
  BY <1>2, <1>3, ScreensAssumption DEF SelectionInv
<1>6. FrozenInv /\ StreamingInv
  BY <1>3 DEF FrozenInv, StreamingInv
<1>7. WiresOK
  BY <1>2 DEF WiresOK
<1>8. ScreensTypeOK
  BY <1>2 DEF ScreensTypeOK, Monitors
<1>9. LinkInv
  <2>1. net \in [up : BOOLEAN, lan : Lan \cup {None}, cable : BOOLEAN, full : BOOLEAN]
    BY LinkAssumption DEF Init, InitLink
  <2>2. QED BY <1>2, <2>1 DEF Init, InitLink, LinkInv, LinkTypeOK
<1>10. left \in 0..Budget
  BY BudgetAssumption DEF Init
<1>11. QED BY <1>4, <1>5, <1>6, <1>7, <1>8, <1>9, <1>10 DEF IInv, ScreensInv, UnreadInv

LEMMA NextKeeps == IInv /\ [Next]_vars => IInv'
<1> SUFFICES ASSUME IInv, [Next]_vars PROVE IInv'
  OBVIOUS
<1>1. LinkInv /\ ScreensInv /\ left \in 0..Budget
  BY DEF IInv
<1>2. CASE Link
  <2>1. LinkStep /\ UNCHANGED left
    BY <1>2 DEF Link, LinkStep
  <2>2. QED BY <1>1, <2>1, LinkByLink, LinkKeeps DEF IInv
<1>3. CASE Client
  <2>1. UNCHANGED <<tcp, left>>
    BY <1>3 DEF Client
  <2>2. ASSUME tcp \in {"open", "cut"}, Reads PROVE ScreensInv'
    BY <1>1, <2>1, <2>2, ReadsKeep
  <2>3. ASSUME NEW m \in Monitors, Frame(m) \/ ThrottleEnds(m) PROVE ScreensInv'
    <3>1. FrameSent(m) \/ ThrottleEnds(m)
      BY <2>3 DEF Frame
    <3>2. QED BY <1>1, <2>1, <3>1, FramesKeep
  <2>4. ScreensInv'
    BY <1>3, <2>2, <2>3 DEF Client
  <2>5. QED BY <1>1, <1>3, <2>1, <2>4, LinkByOthers DEF IInv
<1>4. CASE Host
  <2>1. tcp = "open" /\ UNCHANGED <<tcp, left>> /\ (Handles \/ \E m \in Monitors : HostStarts(m))
    BY <1>4 DEF Host, linkVars
  <2>2. QED BY <1>1, <1>4, <2>1, LinkByOthers, HostKeeps DEF IInv
<1>5. CASE Outside
  <2>1. left > 0 /\ left' = left - 1 /\ (User \/ World \/ Others \/ Lose)
    BY <1>5 DEF Outside
  <2>2. left' \in 0..Budget
    BY <1>1, <2>1, BudgetAssumption
  <2>3. QED BY <1>1, <1>5, <2>1, <2>2, LinkByOthers, OutsideKeeps DEF IInv
<1>6. CASE UNCHANGED vars
  <2>1. UNCHANGED <<linkVars, screenVars, left, tcp, panels>>
    BY <1>6 DEF vars, linkVars, screenVars, pictures
  <2>2. ScreensInv'
    BY <1>1, <2>1, SameScreens
  <2>3. LinkInv'
    BY <1>1, <2>1 DEF LinkInv, LinkTypeOK, linkVars, address, intent, pairing
  <2>4. QED BY <1>1, <2>1, <2>2, <2>3 DEF IInv
<1>7. QED BY <1>2, <1>3, <1>4, <1>5, <1>6 DEF Next

THEOREM InvariantHolds == Spec => []IInv
BY InitEstablishes, NextKeeps, PTL DEF Spec

(* Every variable of the app, the host's side and the connection keeps to   *)
(* its values, for any addresses, monitors and budget.                      *)
THEOREM ClientTypeCorrect == Spec => []TypeOK
<1>1. IInv => TypeOK
  BY DEF IInv, LinkInv, ScreensInv, TypeOK
<1>2. QED BY <1>1, InvariantHolds, PTL

(* After Disconnect the app stays away: nothing connects by itself, over    *)
(* the network or the cable, and no panel or decoder is left.               *)
THEOREM StaysAwayAlways == Spec => []StaysAway
<1>1. IInv => StaysAway
  <2> SUFFICES ASSUME IInv, wish = "out"
               PROVE  current_state = "DISCONNECTED" /\ tcp = "none" /\ panels = {} /\ decoder = Each("none")
    BY DEF StaysAway
  <2>1. tcp = "none" /\ current_state = "DISCONNECTED" /\ panels = {}
    BY DEF IInv, LinkInv
  <2>2. \A m \in Monitors : decoder[m] = "none"
    BY <2>1 DEF IInv, ScreensInv, SelectionInv
  <2>3. decoder = [m \in Monitors |-> "none"]
    BY <2>2 DEF IInv, ScreensInv, ScreensTypeOK
  <2>4. QED BY <2>1, <2>3 DEF Each
<1>2. QED BY <1>1, InvariantHolds, PTL

(* Once all messages are read, the panels are the monitors that stream,     *)
(* each with its decoder: after any crossing of selections, lists, starts,  *)
(* stops, results, takeovers and lost connections.                          *)
THEOREM PanelsFollow == Spec => []PanelsFollowHost
<1>1. IInv => PanelsFollowHost
  <2> SUFFICES ASSUME IInv, Quiet
               PROVE  /\ panels = {m \in Monitors : streams[m] = "live"}
                      /\ \A m \in Monitors : decoder[m] # "none" <=> m \in panels
    BY DEF PanelsFollowHost
  <2>1. /\ tcp = "open" /\ toClient = <<>> /\ \A m \in Monitors : streams[m] # "starting"
        /\ \A i \in DOMAIN toHost : toHost[i].type = "REQUEST_KEYFRAME"
    BY DEF Quiet
  <2>2. Unread = {} /\ Selects = {}
    BY <2>1 DEF IInv, ScreensInv, WiresOK, Unread, Selects
  <2>3. \A m \in Monitors : ~Started(m) /\ ~Keeping(m) /\ ~Dropping(m)
    BY <2>2 DEF Started, Keeping, Dropping
  <2>4. /\ SelectionInv /\ FrozenInv /\ StreamingInv /\ panels \subseteq Monitors
        /\ streams \in [Monitors -> {"none", "starting", "live"}]
    BY DEF IInv, ScreensInv, ScreensTypeOK
  <2>5. \A m \in panels : streams[m] = "live"
    BY <2>1, <2>2, <2>3, <2>4 DEF FrozenInv
  <2>6. \A m \in Monitors : streams[m] = "live" => m \in panels
    BY <2>1, <2>3, <2>4 DEF StreamingInv
  <2>7. \A m \in Monitors : decoder[m] # "none" <=> m \in panels
    BY <2>4 DEF SelectionInv
  <2>8. QED BY <2>4, <2>5, <2>6, <2>7
<1>2. QED BY <1>1, InvariantHolds, PTL
=============================================================================
