----------------------------- MODULE Video_proofs -----------------------------
(* The way of a picture: theorems about StreamPipeline, whatever the desktop, *)
(* the encoder and the link do, and about VideoDelivery, for every cutting,   *)
(* parity share and loss.                                                     *)
EXTENDS StreamPipeline, VideoDelivery, FiniteSetTheorems, SequenceTheorems, WellFoundedInduction, TLAPS

(***************************************************************************)
(* The encoder                                                             *)
(***************************************************************************)
(* The parameter sets at hand are those of the session: a transform has    *)
(* them or none yet, or stale ones since it renegotiated without showing   *)
(* any; FFmpeg has them from a session's first picture on, which is a      *)
(* keyframe.                                                               *)
HeaderOK(e) ==
    /\ e.backend = "mf" => e.session # None /\ (e.stale \/ e.header \in {None, e.session})
    /\ e.backend \in Candidates /\ e.session # None =>
         /\ e.fresh => e.key
         /\ ~e.fresh => e.header = e.session

SelfContained(units) == \A i \in Keys(units) : units[i].params = units[i].of \/ units[i].withheld

EncoderOK(e, I) == e \in Encoder(I) /\ HeaderOK(e)
Asked(A) == Inputs(Nat, 0..A)
Held(A) == [input : Asked(A), key : BOOLEAN]
OutcomeOK(o, A) ==
    /\ EncoderOK(o.enc, Asked(A)) /\ o.cost \in {0, 1}
    /\ o.result \in Seq(Units(Nat, 0..A)) /\ SelfContained(o.result)

LEMMA UnitIs ==
  ASSUME NEW A \in Nat, NEW input \in Asked(A), NEW k \in BOOLEAN, NEW s \in Nat, NEW p \in Nat, NEW w \in BOOLEAN
  PROVE  Unit(input, k, s, p, w) \in Units(Nat, 0..A)
  BY DEF Unit, Units, Asked, Inputs

LEMMA OneUnit ==
  ASSUME NEW A \in Nat, NEW u \in Units(Nat, 0..A), u.key => u.params = u.of \/ u.withheld
  PROVE  <<u>> \in Seq(Units(Nat, 0..A)) /\ SelfContained(<<u>>)
  BY DEF SelfContained, Keys

LEMMA NoUnit ==
  ASSUME NEW A \in Nat
  PROVE  <<>> \in Seq(Units(Nat, 0..A)) /\ SelfContained(<<>>)
  BY DEF SelfContained, Keys

LEMMA MjpegEncodes ==
  ASSUME NEW A \in Nat, NEW e, EncoderOK(e, Asked(A)), NEW input \in Asked(A),
         NEW o \in MjpegEncode(e, input)
  PROVE  OutcomeOK(o, A)
<1>1. Unit(input, TRUE, 1, 1, FALSE) \in Units(Nat, 0..A)
  BY UnitIs
<1>2. Unit(input, TRUE, 1, 1, FALSE).params = Unit(input, TRUE, 1, 1, FALSE).of
  BY DEF Unit
<1>3. /\ <<Unit(input, TRUE, 1, 1, FALSE)>> \in Seq(Units(Nat, 0..A))
      /\ SelfContained(<<Unit(input, TRUE, 1, 1, FALSE)>>)
  BY <1>1, <1>2, OneUnit
<1>4. /\ o.enc = e /\ o.cost \in {0, 1}
      /\ o.result = <<Unit(input, TRUE, 1, 1, FALSE)>> \/ o.result = <<>>
  <2>1. CASE o = Outcome(e, <<Unit(input, TRUE, 1, 1, FALSE)>>, 0)
    BY <2>1 DEF Outcome
  <2>2. CASE o = Outcome(e, <<>>, 1)
    BY <2>2 DEF Outcome
  <2>3. QED BY <2>1, <2>2 DEF MjpegEncode
<1>5. QED BY <1>3, <1>4, NoUnit DEF OutcomeOK

(***************************************************************************)
(* FFmpeg                                                                  *)
(***************************************************************************)
LEMMA OpenIs ==
  ASSUME NEW I, NEW e \in Encoder(I), NEW b \in Candidates
  PROVE  EncoderOK(Open(e, b), I) /\ Open(e, b).backend \in Candidates /\ Open(e, b).session # None
<1>1. b \in {"mjpeg", "libx264", "vaapi", "mf"} /\ b # "mf" /\ e.opened + 1 \in Nat \ {0}
  BY DEF Encoder, Candidates
<1>2. /\ Open(e, b) \in Encoder(I) /\ Open(e, b).backend = b /\ Open(e, b).session = e.opened + 1
      /\ Open(e, b).key = TRUE /\ Open(e, b).fresh = TRUE
  BY <1>1 DEF Encoder, Open
<1>3. QED BY <1>1, <1>2 DEF EncoderOK, HeaderOK, None

LEMMA FailIs ==
  ASSUME NEW I, NEW e \in Encoder(I), e.backend \in Candidates
  PROVE  EncoderOK(Fail(e), I) /\ Fail(e).backend = e.backend
  BY DEF EncoderOK, Encoder, Fail, HeaderOK, Candidates, None

LEMMA FfmpegPictures ==
  ASSUME NEW A \in Nat, NEW e, EncoderOK(e, Asked(A)), NEW input \in Asked(A),
         e.backend \in Candidates, e.session # None, NEW o \in FfmpegPicture(e, input)
  PROVE  OutcomeOK(o, A)
<1> DEFINE I == Asked(A)
           spent == [e EXCEPT !.key = FALSE]
           coded == [spent EXCEPT !.fresh = FALSE]
<1>1. /\ e \in Encoder(I) /\ e.session \in Nat /\ e.header \in Nat
      /\ e.fresh => e.key
      /\ ~e.fresh => e.header = e.session
      /\ e.key \in BOOLEAN /\ e.fresh \in BOOLEAN
  BY DEF EncoderOK, HeaderOK, Encoder
<1>2. spent \in Encoder(I) /\ spent.backend \in Candidates
  BY <1>1 DEF Encoder
<1>3. /\ coded \in Encoder(I) /\ coded.backend = e.backend /\ coded.session = e.session
      /\ coded.header = e.header /\ coded.fresh = FALSE
  BY <1>1 DEF Encoder
<1>4. CASE o \in {Outcome(Fail(spent), <<>>, 1), Outcome(Fail(e), <<>>, 1)}
  <2>1. EncoderOK(Fail(spent), I) /\ EncoderOK(Fail(e), I)
    BY <1>1, <1>2, FailIs
  <2>2. (o.enc = Fail(spent) \/ o.enc = Fail(e)) /\ o.result = <<>> /\ o.cost = 1
    BY <1>4 DEF Outcome
  <2>3. QED BY <2>1, <2>2, NoUnit DEF OutcomeOK
<1>5. CASE e.key /\ o = WithParameterSets(coded, input, TRUE)
  <2> DEFINE u == Unit(input, TRUE, e.session, e.session, FALSE)
             k == KeepHeader(coded)
  <2>1. o.enc = k /\ o.result = <<u>> /\ o.cost = 0
    BY <1>3, <1>5 DEF WithParameterSets, Outcome
  <2>2. EncoderOK(k, I)
    BY <1>1, <1>3 DEF KeepHeader, EncoderOK, Encoder, HeaderOK, Candidates
  <2>3. u \in Units(Nat, 0..A) /\ u.params = u.of
    BY <1>1, UnitIs DEF Unit
  <2>4. <<u>> \in Seq(Units(Nat, 0..A)) /\ SelfContained(<<u>>)
    BY <2>3, OneUnit
  <2>5. QED BY <2>1, <2>2, <2>4 DEF OutcomeOK
<1>6. CASE e.key /\ ~e.fresh /\ o = WithParameterSets(coded, input, FALSE)
  <2> DEFINE u == Unit(input, TRUE, e.session, e.header, FALSE)
  <2>1. o.enc = coded /\ o.result = <<u>> /\ o.cost = 0
    BY <1>3, <1>6 DEF WithParameterSets, Outcome
  <2>2. EncoderOK(coded, I)
    BY <1>1, <1>3, <1>6 DEF EncoderOK, HeaderOK, Candidates
  <2>3. u \in Units(Nat, 0..A) /\ u.params = u.of
    BY <1>1, <1>6, UnitIs DEF Unit
  <2>4. <<u>> \in Seq(Units(Nat, 0..A)) /\ SelfContained(<<u>>)
    BY <2>3, OneUnit
  <2>5. QED BY <2>1, <2>2, <2>4 DEF OutcomeOK
<1>7. CASE ~e.key /\ o = Outcome(coded, <<Unit(input, FALSE, e.session, None, FALSE)>>, 0)
  <2> DEFINE u == Unit(input, FALSE, e.session, None, FALSE)
  <2>1. o.enc = coded /\ o.result = <<u>> /\ o.cost = 0
    BY <1>7 DEF Outcome
  <2>2. EncoderOK(coded, I)
    BY <1>1, <1>3, <1>7 DEF EncoderOK, HeaderOK, Candidates
  <2>3. u \in Units(Nat, 0..A) /\ u.key = FALSE
    BY <1>1, UnitIs DEF Unit, None
  <2>4. <<u>> \in Seq(Units(Nat, 0..A)) /\ SelfContained(<<u>>)
    BY <2>3, OneUnit
  <2>5. QED BY <2>1, <2>2, <2>4 DEF OutcomeOK
<1>8. QED BY <1>1, <1>4, <1>5, <1>6, <1>7 DEF FfmpegPicture

LEMMA FfmpegEncodes ==
  ASSUME NEW A \in Nat, NEW e, EncoderOK(e, Asked(A)), NEW input \in Asked(A),
         e.backend \in Candidates, NEW o \in FfmpegEncode(e, input)
  PROVE  OutcomeOK(o, A)
<1>1. CASE e.session # None
  BY <1>1, FfmpegPictures DEF FfmpegEncode
<1>2. CASE e.session = None
  <2>1. PICK r \in Reopen(e) :
          o \in IF r.enc.session = None THEN {r} ELSE FfmpegPicture(r.enc, input)
    BY <1>2 DEF FfmpegEncode
  <2>2. e \in Encoder(Asked(A))
    BY DEF EncoderOK
  <2>3. CASE r.enc = e \/ r.enc = [e EXCEPT !.backoff = TRUE]
    <3>1. r.enc.session = None /\ EncoderOK(r.enc, Asked(A))
      BY <1>2, <2>2, <2>3 DEF EncoderOK, Encoder, HeaderOK, Candidates
    <3>2. o = r /\ r.result = <<>> /\ r.cost \in {0, 1}
      BY <2>1, <3>1 DEF Reopen, Outcome
    <3>3. QED BY <3>1, <3>2, NoUnit DEF OutcomeOK
  <2>4. CASE \E b \in Candidates : r.enc = Open(e, b)
    <3>1. EncoderOK(r.enc, Asked(A)) /\ r.enc.backend \in Candidates /\ r.enc.session # None
      BY <2>2, <2>4, OpenIs
    <3>2. QED BY <2>1, <3>1, FfmpegPictures
  <2>5. r.enc = e \/ r.enc = [e EXCEPT !.backoff = TRUE] \/ \E b \in Candidates : r.enc = Open(e, b)
    <3>1. \A x, y, z : Outcome(x, y, z).enc = x
      BY DEF Outcome
    <3>2. \/ r = Outcome(e, <<>>, 0)
          \/ r = Outcome([e EXCEPT !.backoff = TRUE], <<>>, 1)
          \/ \E b \in Candidates : r = Outcome(Open(e, b), <<>>, 0)
      BY DEF Reopen
    <3>3. QED BY <3>1, <3>2
  <2>6. QED BY <2>3, <2>4, <2>5
<1>3. QED BY <1>1, <1>2

LEMMA FfmpegReconfigures ==
  ASSUME NEW I, NEW e, EncoderOK(e, I), e.backend \in Candidates, NEW c \in Configs,
         NEW o \in FfmpegReconfigure(e, c)
  PROVE  EncoderOK(o.enc, I) /\ o.result = TRUE /\ o.cost \in {0, 1}
<1> DEFINE set == [e EXCEPT !.config = c]
<1>1. /\ e \in Encoder(I) /\ set \in Encoder(I) /\ set.backend = e.backend
      /\ set.session = e.session /\ set.fresh = e.fresh /\ set.key = e.key /\ set.header = e.header
  BY DEF EncoderOK, Encoder
<1>2. EncoderOK(set, I) /\ EncoderOK(Open(set, "vaapi"), I) /\ EncoderOK(Fail(set), I)
  BY <1>1, OpenIs, FailIs DEF EncoderOK, HeaderOK, Candidates
<1>3. o.enc \in {set, Open(set, "vaapi"), Fail(set)} /\ o.result = TRUE /\ o.cost \in {0, 1}
  BY DEF FfmpegReconfigure, Outcome
<1>4. QED BY <1>2, <1>3

(***************************************************************************)
(* Media Foundation                                                        *)
(***************************************************************************)
LEMMA MfInitializes ==
  ASSUME NEW I, NEW e \in Encoder(I), NEW c \in Configs, NEW o \in MfInitialize(e, c)
  PROVE  /\ o.enc \in Encoder(I) /\ o.result \in BOOLEAN /\ o.cost \in {0, 1}
         /\ o.result => EncoderOK(o.enc, I)
<1> DEFINE s == e.opened + 1
<1>1. s \in Nat \ {0} /\ 0 \in Nat /\ <<>> \in Seq([input : I, key : BOOLEAN])
  BY DEF Encoder
<1>2. CASE \E h \in Negotiated(s) :
             o = Outcome([e EXCEPT !.config = c, !.session = s, !.opened = s, !.fresh = TRUE, !.key = TRUE,
                       !.header = h, !.forced = FALSE, !.held = <<>>, !.done = 0, !.stale = FALSE], TRUE, 0)
  <2>1. PICK h \in Negotiated(s) :
             o = Outcome([e EXCEPT !.config = c, !.session = s, !.opened = s, !.fresh = TRUE, !.key = TRUE,
                       !.header = h, !.forced = FALSE, !.held = <<>>, !.done = 0, !.stale = FALSE], TRUE, 0)
    BY <1>2
  <2>2. h \in Nat /\ h \in {None, s}
    BY <1>1 DEF Negotiated, CapturedFrom, None
  <2>3. /\ o.enc \in Encoder(I) /\ o.enc.session = s /\ o.enc.header = h
        /\ o.enc.fresh = TRUE /\ o.enc.key = TRUE
    BY <1>1, <2>1, <2>2 DEF Encoder, Outcome
  <2>4. o.result = TRUE /\ o.cost = 0
    BY <2>1 DEF Outcome
  <2>5. QED BY <1>1, <2>2, <2>3, <2>4 DEF EncoderOK, HeaderOK, None
<1>3. CASE o = Outcome([e EXCEPT !.session = None], FALSE, 1)
  BY <1>1, <1>3 DEF Outcome, Encoder, None
<1>4. QED BY <1>2, <1>3 DEF MfInitialize

LEMMA TakesInput ==
  ASSUME NEW A \in Nat, NEW e, EncoderOK(e, Asked(A)), e.backend = "mf", NEW input \in Asked(A),
         NEW o \in Fed(ForceKeyframeNow(e), input)
  PROVE  EncoderOK(o.enc, Asked(A)) /\ o.enc.backend = "mf" /\ o.cost \in {0, 1}
<1> DEFINE I == Asked(A)
           f == ForceKeyframeNow(e)
           p == ProcessInput(f, input)
<1>1. e \in Encoder(I) /\ e.session # None /\ (e.stale \/ e.header \in {None, e.session})
  BY DEF EncoderOK, HeaderOK
<1>2. /\ f \in Encoder(I) /\ f.backend = "mf" /\ f.session = e.session /\ f.header = e.header
      /\ f.stale = e.stale
  BY <1>1 DEF ForceKeyframeNow, Encoder
<1>3. /\ p \in Encoder(I) /\ p.backend = "mf" /\ p.session = e.session /\ p.header = e.header
      /\ p.stale = e.stale
  <2> DEFINE k == f.forced \/ (f.fresh /\ f.held = <<>>)
  <2>1. f.forced \in BOOLEAN /\ f.fresh \in BOOLEAN /\ f.held \in Seq(Held(A))
    BY <1>2 DEF Encoder, Held
  <2>2. k \in BOOLEAN
    BY <2>1
  <2>3. [input |-> input, key |-> k] \in Held(A)
    BY <2>2 DEF Held
  <2>4. Append(f.held, [input |-> input, key |-> k]) \in Seq(Held(A))
    BY <2>1, <2>3
  <2>5. p = [f EXCEPT !.held = Append(f.held, [input |-> input, key |-> k]), !.forced = FALSE]
    BY DEF ProcessInput
  <2>6. QED BY <1>2, <2>4, <2>5 DEF Encoder, Held
<1>4. (o.enc = f \/ o.enc = p) /\ o.cost \in {0, 1}
  BY DEF Fed, Outcome
<1>5. QED BY <1>1, <1>2, <1>3, <1>4 DEF EncoderOK, HeaderOK, Candidates

LEMMA Renegotiates ==
  ASSUME NEW I, NEW e, EncoderOK(e, I), e.backend = "mf", NEW g \in Renegotiated(e)
  PROVE  EncoderOK(g, I) /\ g.backend = "mf"
<1> DEFINE s == e.opened + 1
<1>1. e \in Encoder(I) /\ s \in Nat \ {0} /\ None \in Nat /\ e.header \in Nat
  BY DEF EncoderOK, Encoder, None
<1>2. PICK h \in CapturedFrom(e.header, s) :
        g = [e EXCEPT !.session = s, !.opened = s, !.header = h, !.stale = h \notin {None, s}]
  BY DEF Renegotiated
<1>3. h \in Nat /\ (h \notin {None, s}) \in BOOLEAN
  BY <1>1 DEF CapturedFrom
<1>4. /\ g \in Encoder(I) /\ g.backend = "mf" /\ g.session = s /\ g.header = h
      /\ g.stale = (h \notin {None, s})
  BY <1>1, <1>2, <1>3 DEF Encoder
<1>5. QED BY <1>1, <1>4 DEF EncoderOK, HeaderOK, Candidates, None

LEMMA ProcessesOutputs ==
  ASSUME NEW A \in Nat, NEW e, EncoderOK(e, Asked(A)), e.backend = "mf",
         NEW n \in 0..Len(e.held), NEW o \in ProcessOutputs(e, n)
  PROVE  OutcomeOK(o, A)
<1> DEFINE I == Asked(A)
<1>1. /\ e \in Encoder(I) /\ e.session \in Nat /\ e.session # None /\ e.header \in Nat
      /\ e.stale \/ e.header \in {None, e.session}
      /\ e.held \in Seq(Held(A)) /\ e.fresh \in BOOLEAN /\ e.stale \in BOOLEAN
  BY DEF EncoderOK, HeaderOK, Encoder, Held
<1>2. ASSUME NEW i, NEW shows
      PROVE  /\ Captured(e, i, shows) \in Nat
             /\ e.stale \/ Captured(e, i, shows) \in {None, e.session}
  BY <1>1 DEF Captured
<1>3. ASSUME NEW shows PROVE EncoderOK(AfterOutputs(e, n, shows), I)
  <2>0. SubSeq(e.held, n + 1, Len(e.held)) \in Seq(Held(A))
    BY <1>1
  <2>1. PICK rest \in Seq(Held(A)) : rest = SubSeq(e.held, n + 1, Len(e.held))
    BY <2>0
  <2>2. PICK fresh \in BOOLEAN : fresh = (e.fresh /\ n = 0)
    BY <1>1
  <2>3. PICK h \in Nat : h = Captured(e, n, shows)
    BY <1>2
  <2>4. AfterOutputs(e, n, shows) = [e EXCEPT !.header = h, !.held = rest, !.fresh = fresh, !.done = 0]
    BY <2>1, <2>2, <2>3 DEF AfterOutputs
  <2> DEFINE z == [e EXCEPT !.header = h, !.held = rest, !.fresh = fresh, !.done = 0]
  <2>5. /\ z \in Encoder(I) /\ z.backend = "mf" /\ z.session = e.session /\ z.header = h
        /\ z.stale = e.stale
    BY <1>1 DEF Encoder, Held
  <2>6. EncoderOK(z, I)
    BY <1>1, <1>2, <2>3, <2>5 DEF EncoderOK, HeaderOK, Candidates
  <2>7. QED BY <2>4, <2>6
<1>4. PICK inBand \in BOOLEAN, shows \in 1..(n + 1) :
        o = Outputs(e, n, inBand, shows)
  BY DEF ProcessOutputs
<1>5. ASSUME NEW i \in 1..n
      PROVE  LET u == OutputUnit(e, i, inBand, shows)
             IN  u \in Units(Nat, 0..A) /\ (u.key => u.params = u.of \/ u.withheld)
  <2> DEFINE u == OutputUnit(e, i, inBand, shows)
             isKey == e.held[i].key \/ (e.fresh /\ i = 1)
             x == e.held[i].input
             h == Captured(e, i, shows)
             w == h = None \/ e.stale
  <2>1. x \in Asked(A)
    <3>1. e.held[i] \in Held(A)
      BY <1>1
    <3>2. QED BY <3>1 DEF Held
  <2>2. h \in Nat /\ (e.stale \/ h \in {None, e.session})
    BY <1>2
  <2>3. CASE ~isKey
    <3>1. u = Unit(x, FALSE, e.session, None, FALSE)
      BY <2>3 DEF OutputUnit
    <3>2. Unit(x, FALSE, e.session, None, FALSE) \in Units(Nat, 0..A)
      BY <1>1, <2>1, UnitIs DEF None
    <3>3. Unit(x, FALSE, e.session, None, FALSE).key = FALSE
      BY DEF Unit
    <3>4. QED BY <3>1, <3>2, <3>3
  <2>4. CASE isKey /\ inBand
    <3>1. u = Unit(x, TRUE, e.session, e.session, FALSE)
      BY <2>4 DEF OutputUnit
    <3>2. Unit(x, TRUE, e.session, e.session, FALSE) \in Units(Nat, 0..A)
      BY <1>1, <2>1, UnitIs
    <3>3. Unit(x, TRUE, e.session, e.session, FALSE).params = Unit(x, TRUE, e.session, e.session, FALSE).of
      BY DEF Unit
    <3>4. QED BY <3>1, <3>2, <3>3
  <2>5. CASE isKey /\ ~inBand
    <3>1. u = Unit(x, TRUE, e.session, h, w)
      BY <2>5 DEF OutputUnit
    <3>2. w \in BOOLEAN
      OBVIOUS
    <3>3. Unit(x, TRUE, e.session, h, w) \in Units(Nat, 0..A)
      BY <1>1, <2>1, <2>2, <3>2, UnitIs
    <3>4. /\ Unit(x, TRUE, e.session, h, w).params = h /\ Unit(x, TRUE, e.session, h, w).of = e.session
          /\ Unit(x, TRUE, e.session, h, w).withheld = w
      BY DEF Unit
    <3>5. h = e.session \/ w
      BY <2>2
    <3> HIDE DEF w, h, x
    <3>6. u.params = u.of \/ u.withheld
      BY <3>1, <3>4, <3>5, Zenon
    <3>7. QED BY <3>1, <3>3, <3>6, Zenon
  <2>6. QED BY <2>3, <2>4, <2>5
<1>6. /\ o.enc = AfterOutputs(e, n, shows) /\ o.cost = 0
      /\ o.result = [i \in 1..n |-> OutputUnit(e, i, inBand, shows)]
  BY <1>4 DEF Outputs, Outcome
<1>7. o.result \in Seq(Units(Nat, 0..A)) /\ DOMAIN o.result = 1..n
  BY <1>5, <1>6
<1>8. SelfContained(o.result)
  BY <1>5, <1>6, <1>7 DEF SelfContained, Keys
<1>9. QED BY <1>3, <1>6, <1>7, <1>8 DEF OutcomeOK

LEMMA Emits ==
  ASSUME NEW A \in Nat, NEW e, EncoderOK(e, Asked(A)), e.backend = "mf", NEW cost \in {0, 1},
         NEW o \in Emit(e, cost)
  PROVE  OutcomeOK(o, A)
<1>0. PICK n \in Emissions(e) : \E u \in ProcessOutputs(e, n) : o = [u EXCEPT !.cost = cost]
  BY DEF Emit
<1>1. PICK u \in ProcessOutputs(e, n) : o = [u EXCEPT !.cost = cost]
  BY <1>0
<1>2. n \in 0..Len(e.held)
  <2>1. e.held \in Seq(Held(A)) /\ e.lag \in {0, 1} /\ e.done \in Nat
    BY DEF EncoderOK, Encoder, Held
  <2>2. QED BY <2>1 DEF Emissions
<1>3. OutcomeOK(u, A)
  BY <1>2, ProcessesOutputs
<1>4. \E x, y : u = Outcome(x, y, 0)
  <2>1. PICK inBand \in BOOLEAN, shows \in 1..(n + 1) : u = Outputs(e, n, inBand, shows)
    BY <1>1 DEF ProcessOutputs
  <2>2. QED BY <2>1 DEF Outputs
<1>5. o.enc = u.enc /\ o.result = u.result /\ o.cost = cost
  BY <1>1, <1>4 DEF Outcome
<1>6. QED BY <1>3, <1>5 DEF OutcomeOK

LEMMA MfEncodes ==
  ASSUME NEW A \in Nat, NEW e, EncoderOK(e, Asked(A)), NEW input \in Asked(A),
         e.backend = "mf", NEW o \in MfEncode(e, input)
  PROVE  OutcomeOK(o, A)
<1>1. PICK f \in Fed(ForceKeyframeNow(e), input) :
        o \in Emit(f.enc, f.cost) \cup (IF f.enc.held = <<>> THEN {} ELSE UNION {Emit(g, 1) : g \in Renegotiated(f.enc)})
  BY DEF MfEncode
<1>2. EncoderOK(f.enc, Asked(A)) /\ f.enc.backend = "mf" /\ f.cost \in {0, 1}
  BY TakesInput
<1>3. CASE o \in Emit(f.enc, f.cost)
  BY <1>2, <1>3, Emits
<1>4. CASE o \in UNION {Emit(g, 1) : g \in Renegotiated(f.enc)}
  <2>1. PICK g \in Renegotiated(f.enc) : o \in Emit(g, 1)
    BY <1>4
  <2>2. EncoderOK(g, Asked(A)) /\ g.backend = "mf"
    BY <1>2, Renegotiates
  <2>3. QED BY <2>1, <2>2, Emits
<1>5. QED BY <1>1, <1>3, <1>4

(***************************************************************************)
(* Every encoder                                                           *)
(***************************************************************************)
LEMMA Backends ==
  ASSUME NEW I, NEW e \in Encoder(I)
  PROVE  \/ e.backend = "mjpeg"
         \/ e.backend = "mf"
         \/ e.backend \in Candidates /\ e.backend # "mjpeg" /\ e.backend # "mf"
  BY DEF Encoder, Candidates

LEMMA EncodeIs ==
  ASSUME NEW A \in Nat, NEW e, EncoderOK(e, Asked(A)), NEW input \in Asked(A),
         NEW o \in Encode(e, input)
  PROVE  OutcomeOK(o, A)
<1>1. \/ e.backend = "mjpeg"
      \/ e.backend = "mf"
      \/ e.backend \in Candidates /\ e.backend # "mjpeg" /\ e.backend # "mf"
  BY Backends DEF EncoderOK
<1>2. CASE e.backend = "mjpeg"
  BY <1>2, MjpegEncodes DEF Encode
<1>3. CASE e.backend = "mf"
  BY <1>3, MfEncodes DEF Encode
<1>4. CASE e.backend \in Candidates /\ e.backend # "mjpeg" /\ e.backend # "mf"
  BY <1>4, FfmpegEncodes DEF Encode
<1>5. QED BY <1>1, <1>2, <1>3, <1>4

LEMMA Reconfigures ==
  ASSUME NEW I, NEW e, EncoderOK(e, I), NEW c \in Configs, NEW o \in Reconfigure(e, c)
  PROVE  EncoderOK(o.enc, I) /\ o.result \in BOOLEAN /\ o.cost \in {0, 1}
<1> DEFINE set == [e EXCEPT !.config = c]
<1>1. /\ e \in Encoder(I) /\ set \in Encoder(I) /\ set.backend = e.backend
      /\ set.session = e.session /\ set.fresh = e.fresh /\ set.key = e.key /\ set.header = e.header
  BY DEF EncoderOK, Encoder
<1>2. EncoderOK(set, I)
  BY <1>1 DEF EncoderOK, HeaderOK
<1>3. CASE e.backend \in {"mjpeg", "mf"}
  <2>1. o.enc \in {set, e} /\ o.result \in BOOLEAN /\ o.cost \in {0, 1}
    <3>1. CASE o = Outcome(set, TRUE, 0)
      BY <3>1 DEF Outcome
    <3>2. CASE o = Outcome(e, FALSE, 0)
      BY <3>2 DEF Outcome
    <3>3. CASE e.backend = "mjpeg"
      BY <3>1, <3>3 DEF Reconfigure
    <3>4. CASE e.backend = "mf"
      BY <3>1, <3>2, <3>4 DEF Reconfigure, MfReconfigure
    <3>5. QED BY <1>3, <3>3, <3>4
  <2>2. QED BY <1>2, <2>1
<1>4. CASE e.backend \in Candidates /\ e.backend # "mjpeg" /\ e.backend # "mf"
  BY <1>4, FfmpegReconfigures DEF Reconfigure
<1>5. QED BY <1>1, <1>3, <1>4, Backends

LEMMA NewOnes ==
  ASSUME NEW I, NEW c \in Configs, NEW platform, NEW e \in Encoders(platform, c)
  PROVE  EncoderOK(e, I)
<1>0. <<>> \in Seq([input : I, key : BOOLEAN])
  OBVIOUS
<1>1. \A b \in {"mjpeg", "libx264", "vaapi", "mf"} :
        NewEncoder(b, c) \in Encoder(I)
  BY <1>0 DEF NewEncoder, Encoder, None
<1>2. CASE \E b \in {"mjpeg", "libx264", "vaapi"} : e = NewEncoder(b, c)
  <2>1. PICK b \in {"mjpeg", "libx264", "vaapi"} : e = NewEncoder(b, c)
    BY <1>2
  <2>2. e.backend = b /\ e.fresh = TRUE /\ e.key = TRUE
    BY <2>1 DEF NewEncoder
  <2>3. e \in Encoder(I)
    BY <1>1, <2>1
  <2>4. QED BY <2>2, <2>3 DEF EncoderOK, HeaderOK
<1>3. CASE e \in NewTransforms(c)
  <2>1. PICK t \in Transforms, h \in Negotiated(1) : e = NewTransform(NewEncoder("mf", c), t, h)
    BY <1>3 DEF NewTransforms
  <2>2. t.async \in BOOLEAN /\ t.tunable \in BOOLEAN /\ t.lag \in {0, 1} /\ h \in {0, 1}
    BY DEF Transforms, Negotiated, CapturedFrom, None
  <2>3. PICK n \in Encoder(I) : n = NewEncoder("mf", c)
    BY <1>1
  <2>4. n.backend = "mf" /\ n.session = 1
    BY <2>3 DEF NewEncoder
  <2>5. NewTransform(n, t, h) \in Encoder(I) /\ NewTransform(n, t, h).backend = n.backend
        /\ NewTransform(n, t, h).session = n.session /\ NewTransform(n, t, h).header = h
    <3>1. PICK a \in BOOLEAN, u \in BOOLEAN, l \in {0, 1} : t.async = a /\ t.tunable = u /\ t.lag = l
      BY <2>2
    <3>2. NewTransform(n, t, h) = [n EXCEPT !.async = a, !.tunable = u, !.lag = l, !.header = h]
      BY <3>1, Zenon DEF NewTransform
    <3> DEFINE y == [n EXCEPT !.async = a, !.tunable = u]
               x == [y EXCEPT !.lag = l, !.header = h]
    <3>3. h \in Nat
      BY <2>2
    <3>4. y \in Encoder(I) /\ y.backend = n.backend /\ y.session = n.session
      BY <2>3 DEF Encoder
    <3>5. x \in Encoder(I) /\ x.backend = n.backend /\ x.session = n.session /\ x.header = h
      BY <3>3, <3>4 DEF Encoder
    <3>6. QED BY <3>2, <3>4, <3>5
  <2>6. QED BY <2>1, <2>2, <2>3, <2>4, <2>5 DEF EncoderOK, HeaderOK, Candidates, None
<1>4. QED BY <1>2, <1>3 DEF Encoders, FfmpegInitialize, Candidates

(* More inputs are possible once another keyframe was asked for.            *)
LEMMA EncoderGrows ==
  ASSUME NEW I, NEW J, I \subseteq J, NEW e \in Encoder(I)
  PROVE  e \in Encoder(J)
<1>1. [input : I, key : BOOLEAN] \subseteq [input : J, key : BOOLEAN]
  OBVIOUS
<1>2. e.held \in Seq([input : J, key : BOOLEAN])
  <2>1. e.held \in Seq([input : I, key : BOOLEAN])
    BY DEF Encoder
  <2>2. QED BY <1>1, <2>1, SeqMonotonic
<1>3. QED BY <1>2 DEF Encoder

(***************************************************************************)
(* The inductive invariant                                                 *)
(***************************************************************************)
CaptureFlags ==
    /\ source \in {"x11", "wgc"} /\ wgcWorks \in BOOLEAN /\ plugged \in BOOLEAN
    /\ capturing \in BOOLEAN /\ fallback \in {"none", "on", "off"} /\ sized \in BOOLEAN
    /\ cut \in BOOLEAN /\ closed \in BOOLEAN /\ pending \in BOOLEAN
CaptureCounts ==
    screen \in Nat /\ failures \in 0..GrabLimit /\ (capturing \/ source = "wgc" => failures < GrabLimit)
CaptureOK == CaptureFlags /\ CaptureCounts
EncOK == enc \in Encoder(Asked(asks)) /\ (pc # "gone" => HeaderOK(enc))
SettingsOK == setting \in Settings /\ ceiling \in Settings /\ share \in {1, 2}
TuningOK == encConfig \in Configs /\ autoTune \in BOOLEAN /\ left \in 0..Budget
LoopFlags ==
    /\ pc \in {"acquire", "send", "lost", "gone"} /\ unsent \in BOOLEAN /\ changed \in BOOLEAN
    /\ force \in BOOLEAN /\ idrDue \in BOOLEAN /\ sentAge \in {"new", "due", "second"}
LoopOK == LoopFlags /\ frame \in Nat /\ lastFrame \in Nat /\ refine \in 0..RefineFrames
OutputOK ==
    /\ asks \in Nat /\ answered \in 0..asks /\ shown \in Nat
    /\ sent \in Seq(Units(Nat, 0..asks)) /\ SelfContained(sent)

PipelineInv == CaptureOK /\ EncOK /\ SettingsOK /\ TuningOK /\ LoopOK /\ OutputOK

LEMMA PipelineTypes == PipelineInv => PipelineTypeOK /\ KeyframesSelfContained
  BY DEF PipelineInv, CaptureOK, CaptureFlags, CaptureCounts, EncOK, SettingsOK, TuningOK, LoopOK,
         LoopFlags, OutputOK, PipelineTypeOK, CapturingTypeOK, Asked, KeyframesSelfContained, SelfContained

LEMMA Bounds == RefineFrames \in Nat /\ Budget \in Nat /\ GrabLimit \in Nat /\ GrabLimit > 0
<1>1. {RefineFrames, Budget} \subseteq Nat
  BY PipelineAssumption
<1>2. QED BY <1>1, CaptureAssumption

LEMMA SettingIs ==
  ASSUME NEW s \in Settings
  PROVE  s \in Configs /\ (share \in {1, 2} => Wanted(s) \in Configs)
<1>1. s \in [kbps : Nat \ {0}, fps : Nat \ {0}]
  BY PipelineAssumption
<1>2. s.kbps \in Nat /\ s.fps \in Nat
  BY <1>1
<1>3. s \in Configs
  BY <1>1 DEF Configs
<1>4. ASSUME share \in {1, 2} PROVE (s.kbps * share) \div 2 \in Nat
  <2>1. CASE share = 1
    BY <1>2, <2>1
  <2>2. CASE share = 2
    BY <1>2, <2>2
  <2>3. QED BY <1>4, <2>1, <2>2
<1>5. QED BY <1>2, <1>3, <1>4 DEF Wanted, Configs

LEMMA PipelineStarts == PipelineInit => PipelineInv
<1> SUFFICES ASSUME PipelineInit PROVE PipelineInv
  OBVIOUS
<1> USE Bounds
<1>1. CaptureFlags
  BY Zenon DEF PipelineInit, InitCapturing, CaptureFlags
<1>8. CaptureCounts
  BY DEF PipelineInit, InitCapturing, CaptureCounts
<1>2. setting \in Settings /\ encConfig \in Configs /\ encConfig = setting
  BY SettingIs, PipelineAssumption DEF PipelineInit
<1>3. EncOK
  BY <1>2, NewOnes DEF PipelineInit, EncOK, EncoderOK
<1>4. SettingsOK
  BY <1>2 DEF PipelineInit, SettingsOK
<1>9. TuningOK
  <2>1. left = Budget /\ autoTune = TRUE
    BY DEF PipelineInit
  <2>2. left \in 0..Budget
    BY <2>1
  <2>3. QED BY <1>2, <2>1, <2>2, Zenon DEF TuningOK
<1>5. LoopOK
  <2>1. LoopFlags
    BY Zenon DEF PipelineInit, LoopFlags
  <2>2. frame = 0 /\ lastFrame = 0 /\ refine = 0
    BY DEF PipelineInit, NoFrame
  <2>3. QED BY <2>1, <2>2 DEF LoopOK
<1>6. OutputOK
  BY NoUnit DEF PipelineInit, OutputOK, NoFrame
<1>7. QED BY <1>1, <1>3, <1>4, <1>5, <1>6, <1>8, <1>9 DEF PipelineInv, CaptureOK

(***************************************************************************)
(* The capture                                                             *)
(***************************************************************************)
LEMMA Acquires ==
  ASSUME CaptureOK, AcquireFrame(frame')
  PROVE  CaptureOK' /\ frame' \in Nat
<1> USE DEF CaptureOK, desktop
<1>1. CASE X11Acquire(frame')
  <2>1. (failures' < GrabLimit) \in BOOLEAN
    OBVIOUS
  <2>2. CaptureFlags'
    BY <1>1, <2>1, Zenon DEF X11Acquire, CaptureFlags
  <2>3. /\ source' = source /\ screen' = screen
        /\ \/ frame' = screen /\ failures' = 0 /\ capturing' = capturing
           \/ frame' = NoFrame /\ failures' = failures + 1 /\ (capturing' => failures' < GrabLimit)
        /\ source = "x11" /\ capturing
    <3>1. CASE ~cut
      BY <1>1, <3>1, Zenon DEF X11Acquire
    <3>2. CASE cut
      BY <1>1, <3>2, Zenon DEF X11Acquire
    <3>3. QED BY <3>1, <3>2
  <2>4. failures \in 0..GrabLimit /\ failures < GrabLimit /\ screen \in Nat
    BY <2>3, Zenon DEF CaptureCounts
  <2>5. failures' \in 0..GrabLimit /\ frame' \in Nat /\ screen' \in Nat
    <3>1. \/ frame' = screen /\ failures' = 0
          \/ frame' = NoFrame /\ failures' = failures + 1
      BY <2>3, Zenon
    <3>2. screen' = screen
      BY <2>3, Zenon
    <3>3. QED BY <2>4, <3>1, <3>2, Bounds DEF NoFrame
  <2>6. capturing' => failures' < GrabLimit
    <3>1. failures' = 0 => failures' < GrabLimit
      BY Bounds
    <3>2. QED BY <2>3, <3>1, Zenon
  <2>7. source' # "wgc"
    BY <2>3
  <2>8. CaptureCounts'
    BY <2>5, <2>6, <2>7, Zenon DEF CaptureCounts
  <2>9. QED BY <2>2, <2>5, <2>8
<1>2. CASE WgcAcquire(frame')
  <2>1. CaptureFlags'
    BY <1>2, Zenon DEF WgcAcquire, CaptureFlags
  <2>2. frame' \in {NoFrame, screen} /\ UNCHANGED <<source, screen, capturing, failures>>
    BY <1>2 DEF WgcAcquire
  <2>3. QED BY <2>1, <2>2, Bounds DEF CaptureCounts, NoFrame
<1>3. CASE DxgiAcquire(frame')
  <2>1. CaptureFlags'
    BY <1>3, Zenon DEF DxgiAcquire, DxgiStarted, CaptureFlags
  <2>2. frame' \in {NoFrame, screen} /\ UNCHANGED <<source, screen, capturing, failures>>
    BY <1>3 DEF DxgiAcquire
  <2>3. QED BY <2>1, <2>2, Bounds DEF CaptureCounts, NoFrame
<1>4. CASE NotCapturing(frame')
  BY <1>4, Bounds DEF NotCapturing, capture, CaptureFlags, CaptureCounts, NoFrame
<1>5. QED BY <1>1, <1>2, <1>3, <1>4 DEF AcquireFrame

LEMMA Starts ==
  ASSUME CaptureOK, StartCapture
  PROVE  CaptureOK'
<1>1. CaptureFlags'
  BY Zenon DEF CaptureOK, CaptureFlags, StartCapture, X11Start, WgcStart, FallBackToDxgi, DxgiStarted,
               desktop
<1>2. CASE X11Start
  <2>1. /\ UNCHANGED <<source, screen>> /\ capturing' = plugged /\ source = "x11"
        /\ IF plugged THEN failures' = 0 ELSE UNCHANGED failures
    BY <1>2 DEF X11Start, desktop
  <2>2. QED BY <1>1, <2>1, Bounds DEF CaptureOK, CaptureCounts
<1>3. CASE WgcStart
  <2>1. UNCHANGED <<source, screen, failures>> /\ source = "wgc"
    BY <1>3 DEF WgcStart, desktop
  <2>2. QED BY <1>1, <2>1, Bounds DEF CaptureOK, CaptureCounts
<1>4. QED BY <1>2, <1>3 DEF StartCapture

LEMMA DesktopMoves ==
  ASSUME CaptureOK, ScreenChanges \/ ModeChanges \/ Unplugged \/ Replugged
  PROVE  CaptureOK'
<1>1. CaptureFlags'
  <2> USE DEF CaptureOK, CaptureFlags, FrameArrived
  <2>1. Cuts \subseteq BOOLEAN
    BY Zenon DEF Cuts
  <2>2. CASE ScreenChanges
    BY <2>2, Zenon DEF ScreenChanges
  <2>3. CASE ModeChanges
    BY <2>1, <2>3, Zenon DEF ModeChanges
  <2>4. CASE Unplugged
    BY <2>1, <2>4, Zenon DEF Unplugged, ItemClosed
  <2>5. CASE Replugged
    BY <2>1, <2>5, Zenon DEF Replugged
  <2>6. QED BY <2>2, <2>3, <2>4, <2>5
<1>2. screen' \in {screen, screen + 1} /\ UNCHANGED <<source, capturing, failures>>
  BY DEF ScreenChanges, ModeChanges, Unplugged, Replugged
<1>3. QED BY <1>1, <1>2, Bounds DEF CaptureOK, CaptureCounts

(***************************************************************************)
(* retune()                                                                *)
(***************************************************************************)
TryOK(o, I) ==
    o.enc \in Encoder(I) /\ o.ok \in BOOLEAN /\ o.cost \in {0, 1} /\ o.live \in Configs

LEMMA TookIs ==
  ASSUME NEW I, NEW e, EncoderOK(e, I), NEW c \in Configs, NEW o \in Took(Reconfigure(e, c), c)
  PROVE  TryOK(o, I) /\ HeaderOK(o.enc)
<1>1. PICK r \in Reconfigure(e, c) : o = [enc |-> r.enc, cost |-> r.cost, ok |-> r.result, live |-> c]
  BY DEF Took
<1>2. EncoderOK(r.enc, I) /\ r.result \in BOOLEAN /\ r.cost \in {0, 1}
  BY Reconfigures
<1>3. QED BY <1>1, <1>2 DEF TryOK, EncoderOK

LEMMA RetryIs ==
  ASSUME NEW I, NEW t, TryOK(t, I), HeaderOK(t.enc), NEW c \in Configs, encConfig \in Configs,
         NEW o \in Retry(c, t)
  PROVE  TryOK(o, I) /\ HeaderOK(o.enc)
<1> DEFINE kept == [c EXCEPT !.fps = encConfig.fps]
<1>1. kept \in Configs
  BY DEF Configs
<1>2. o = t \/ o \in Took(Reconfigure(t.enc, kept), kept)
  BY DEF Retry
<1>3. EncoderOK(t.enc, I)
  BY DEF TryOK, EncoderOK
<1>4. QED BY <1>1, <1>2, <1>3, TookIs

LEMMA ReinitializedIs ==
  ASSUME NEW I, NEW t, TryOK(t, I), HeaderOK(t.enc), NEW c \in Configs, NEW o \in Reinitialized(c, t)
  PROVE  TryOK(o, I) /\ (o.ok => HeaderOK(o.enc))
<1>1. CASE o = t
  BY <1>1
<1>2. CASE o \in Took(MfInitialize(t.enc, c), c)
  <2>1. PICK r \in MfInitialize(t.enc, c) :
          o = [enc |-> r.enc, cost |-> r.cost, ok |-> r.result, live |-> c]
    BY <1>2 DEF Took
  <2>2. /\ r.enc \in Encoder(I) /\ r.result \in BOOLEAN /\ r.cost \in {0, 1}
        /\ r.result => EncoderOK(r.enc, I)
    BY MfInitializes DEF TryOK
  <2>3. QED BY <2>1, <2>2 DEF TryOK, EncoderOK
<1>3. QED BY <1>1, <1>2 DEF Reinitialized

LEMMA RetunesIs ==
  ASSUME NEW I, EncoderOK(enc, I), encConfig \in Configs, NEW c \in Configs,
         NEW forced \in BOOLEAN, NEW o \in Retunes(c, forced)
  PROVE  TryOK(o, I) /\ (o.ok \/ ~forced => HeaderOK(o.enc))
<1> DEFINE tried == UNION {Retry(c, t) : t \in Took(Reconfigure(enc, c), c)}
<1>1. ASSUME NEW t \in tried PROVE TryOK(t, I) /\ HeaderOK(t.enc)
  <2>1. PICK u \in Took(Reconfigure(enc, c), c) : t \in Retry(c, u)
    OBVIOUS
  <2>2. TryOK(u, I) /\ HeaderOK(u.enc)
    BY TookIs
  <2>3. QED BY <2>1, <2>2, RetryIs
<1>2. CASE forced
  <2>1. PICK t \in tried : o \in Reinitialized(c, t)
    BY <1>2 DEF Retunes
  <2>2. QED BY <1>1, <1>2, <2>1, ReinitializedIs
<1>3. CASE ~forced
  BY <1>1, <1>3 DEF Retunes
<1>4. QED BY <1>2, <1>3

LEMMA RetuneKeeps ==
  ASSUME NEW I, EncoderOK(enc, I), TuningOK, share \in {1, 2}, NEW top \in Settings,
         NEW forced \in BOOLEAN, Retune(top, forced)
  PROVE  /\ enc' \in Encoder(I) /\ TuningOK' /\ pc' \in {"send", "gone"}
         /\ pc' = "send" => HeaderOK(enc')
<1> DEFINE c == Wanted(top)
<1>0. c \in Configs /\ Budget \in Nat
  BY SettingIs, Bounds
<1>1. CASE pc' = "send" /\ UNCHANGED <<enc, encConfig, autoTune, left>>
  BY <1>1 DEF EncoderOK, TuningOK
<1>2. CASE \E o \in Retunes(c, forced) :
            /\ o.cost <= left /\ left' = left - o.cost
            /\ enc' = o.enc
            /\ encConfig' = IF o.ok THEN o.live ELSE encConfig
            /\ autoTune' = (autoTune /\ (o.ok \/ forced))
            /\ pc' = IF forced /\ ~o.ok THEN "gone" ELSE "send"
  <2>1. PICK o \in Retunes(c, forced) :
            /\ o.cost <= left /\ left' = left - o.cost
            /\ enc' = o.enc
            /\ encConfig' = IF o.ok THEN o.live ELSE encConfig
            /\ autoTune' = (autoTune /\ (o.ok \/ forced))
            /\ pc' = IF forced /\ ~o.ok THEN "gone" ELSE "send"
    BY <1>2
  <2>2. TryOK(o, I) /\ (o.ok \/ ~forced => HeaderOK(o.enc))
    BY <1>0, RetunesIs DEF TuningOK
  <2>3. left' \in 0..Budget
    BY <1>0, <2>1, <2>2 DEF TuningOK, TryOK
  <2>4. encConfig' \in Configs
    BY <2>1, <2>2 DEF TuningOK, TryOK
  <2>5. autoTune' \in BOOLEAN
    BY <2>1, <2>2, Zenon DEF TuningOK, TryOK
  <2>6. enc' \in Encoder(I) /\ pc' \in {"send", "gone"} /\ (pc' = "send" => HeaderOK(enc'))
    BY <2>1, <2>2 DEF TryOK
  <2>7. QED BY <2>3, <2>4, <2>5, <2>6 DEF TuningOK
<1>3. QED BY <1>1, <1>2 DEF Retune

(***************************************************************************)
(* The steps of the loop                                                   *)
(***************************************************************************)
LEMMA AcquireKeeps == PipelineInv /\ Acquire => PipelineInv'
<1> SUFFICES ASSUME PipelineInv, Acquire PROVE PipelineInv'
  OBVIOUS
<1> USE DEF PipelineInv
<1>1. CaptureOK' /\ frame' \in Nat
  BY Acquires DEF Acquire
<1>2. /\ pc = "acquire" /\ sent' = <<>> /\ UNCHANGED <<lastFrame, unsent, refine, force, idrDue, asks>>
      /\ UNCHANGED <<sentAge, share, answered, shown>>
  BY DEF Acquire, idr
<1>3. EncoderOK(enc, Asked(asks)) /\ TuningOK /\ share \in {1, 2} /\ setting \in Settings /\ ceiling \in Settings
  BY <1>2 DEF EncOK, EncoderOK, SettingsOK
<1>4. /\ enc' \in Encoder(Asked(asks)) /\ TuningOK' /\ pc' \in {"send", "gone"}
      /\ pc' = "send" => HeaderOK(enc')
      /\ setting' \in Settings /\ ceiling' \in Settings /\ changed' \in BOOLEAN
  <2>1. CASE TakeSettings
    <3>1. Retune(setting, TRUE) /\ setting' = setting /\ ceiling' = setting /\ changed' = FALSE
      BY <2>1 DEF TakeSettings
    <3>2. QED BY <1>3, <3>1, RetuneKeeps
  <2>2. CASE Tune
    <3>1. changed' = changed /\ setting' = setting /\ ceiling' = ceiling
      BY <2>2 DEF Tune, settings
    <3>2. changed \in BOOLEAN
      BY DEF LoopOK, LoopFlags
    <3>3. CASE Retune(ceiling, FALSE)
      BY <1>3, <3>1, <3>2, <3>3, RetuneKeeps
    <3>4. CASE pc' = "send" /\ UNCHANGED <<enc, encConfig, autoTune, left>>
      BY <1>3, <3>1, <3>2, <3>4 DEF EncoderOK, TuningOK
    <3>5. QED BY <2>2, <3>3, <3>4 DEF Tune
  <2>3. QED BY <2>1, <2>2 DEF Acquire
<1>5. EncOK'
  <2>1. HeaderOK(enc)' = HeaderOK(enc')
    BY DEF HeaderOK
  <2>2. QED BY <1>2, <1>4 DEF EncOK, Asked
<1>6. SettingsOK'
  BY <1>2, <1>3, <1>4 DEF SettingsOK
<1>7. LoopOK'
  <2>1. LoopFlags'
    BY <1>2, <1>4, Zenon DEF LoopOK, LoopFlags
  <2>2. QED BY <1>1, <1>2, <2>1 DEF LoopOK
<1>8. OutputOK'
  BY <1>2, NoUnit DEF OutputOK
<1>9. QED BY <1>1, <1>4, <1>5, <1>6, <1>7, <1>8

LEMMA SentPicture == LoopOK => Next2Send \in Nat
  BY DEF LoopOK, Next2Send

LEMMA NothingKeeps == PipelineInv /\ NothingToSend => PipelineInv'
<1> SUFFICES ASSUME PipelineInv, NothingToSend PROVE PipelineInv'
  OBVIOUS
<1>1. /\ pc = "send" /\ pc' \in {"acquire", "lost"} /\ UNCHANGED <<desktop, capture, enc, frames, idr, sentAge>>
      /\ UNCHANGED <<settings, tuning, share, output, left>>
  BY DEF NothingToSend
<1> USE <1>1 DEF PipelineInv, desktop, capture, frames, idr, settings, tuning, output
<1>2. CaptureOK'
  BY DEF CaptureOK, CaptureFlags, CaptureCounts
<1>3. EncOK'
  BY DEF EncOK, HeaderOK, Asked
<1>4. SettingsOK' /\ TuningOK'
  BY DEF SettingsOK, TuningOK
<1>5. LoopOK'
  BY DEF LoopOK, LoopFlags
<1>6. OutputOK'
  BY DEF OutputOK
<1>7. QED BY <1>2, <1>3, <1>4, <1>5, <1>6

LEMMA RecaptureKeeps == PipelineInv /\ Recapture => PipelineInv'
<1> SUFFICES ASSUME PipelineInv, Recapture PROVE PipelineInv'
  OBVIOUS
<1>1. /\ pc = "lost" /\ pc' = "acquire" /\ UNCHANGED <<enc, frames, idr, sentAge>>
      /\ UNCHANGED <<settings, tuning, share, output, left>> /\ StartCapture
  BY DEF Recapture
<1> USE <1>1 DEF PipelineInv, frames, idr, settings, tuning, output
<1>2. CaptureOK'
  BY Starts
<1>3. EncOK'
  BY DEF EncOK, HeaderOK, Asked
<1>4. SettingsOK' /\ TuningOK'
  BY DEF SettingsOK, TuningOK
<1>5. LoopOK'
  BY DEF LoopOK, LoopFlags
<1>6. OutputOK'
  BY DEF OutputOK
<1>7. QED BY <1>2, <1>3, <1>4, <1>5, <1>6

LEMMA HoldKeeps == PipelineInv /\ Hold => PipelineInv'
<1> SUFFICES ASSUME PipelineInv, Hold PROVE PipelineInv'
  OBVIOUS
<1>1. /\ pc = "send" /\ pc' = "acquire" /\ lastFrame' = Next2Send /\ unsent' = TRUE /\ frame' = NoFrame
      /\ UNCHANGED <<desktop, capture, enc, refine, idr, sentAge, settings, tuning, share, output, left>>
  BY DEF Hold
<1> USE <1>1 DEF PipelineInv, desktop, capture, idr, settings, tuning, output
<1>2. CaptureOK'
  BY DEF CaptureOK, CaptureFlags, CaptureCounts
<1>3. EncOK'
  BY DEF EncOK, HeaderOK, Asked
<1>4. SettingsOK' /\ TuningOK'
  BY DEF SettingsOK, TuningOK
<1>5. LoopOK'
  BY SentPicture DEF LoopOK, LoopFlags, NoFrame
<1>6. OutputOK'
  BY DEF OutputOK
<1>7. QED BY <1>2, <1>3, <1>4, <1>5, <1>6

(* The last of the keyframes asked for that a keyframe sent answers.        *)
LEMMA Latest ==
  ASSUME NEW A \in Nat, NEW S \in SUBSET (0..A), S # {}
  PROVE  (CHOOSE n \in S : \A m \in S : m <= n) \in 0..A
<1> DEFINE D == {A - n : n \in S}
<1>1. D \subseteq Nat /\ D # {}
  <2>1. \A n \in S : A - n \in Nat
    OBVIOUS
  <2>2. QED BY <2>1
<1> HIDE DEF D
<1>2. PICK d \in D : \A x \in D : <<x, d>> \notin OpToRel(<, Nat)
  BY <1>1, NatLessThanWellFounded, WFMin
<1>3. \A x \in D : ~(x < d)
  BY <1>1, <1>2 DEF OpToRel
<1>6. PICK n \in S : d = A - n
  BY DEF D
<1>4. \A m \in S : m <= n
  <2>1. TAKE m \in S
  <2>2. A - m \in D
    BY DEF D
  <2>3. QED BY <1>3, <1>6, <2>2
<1>5. QED BY <1>4

LEMMA SendKeeps ==
  ASSUME OutputOK, asks' = asks, NEW units \in Seq(Units(Nat, 0..asks)), SelfContained(units),
         SendUnits(units)
  PROVE  OutputOK'
<1> USE DEF OutputOK
<1>1. sent' = units
  BY DEF SendUnits
<1>2. answered' \in 0..asks
  <2> DEFINE S == {answered} \cup {units[i].asks : i \in Keys(units)}
  <2>1. S \subseteq 0..asks /\ S # {}
    <3>1. ASSUME NEW i \in Keys(units) PROVE units[i].asks \in 0..asks
      <4>1. units[i] \in Units(Nat, 0..asks)
        BY DEF Keys
      <4>2. QED BY <4>1 DEF Units
    <3>2. QED BY <3>1
  <2>2. answered' = CHOOSE n \in S : \A m \in S : m <= n
    BY DEF SendUnits
  <2>3. QED BY <2>1, <2>2, Latest
<1>3. shown' \in Nat
  <2>1. CASE units = <<>>
    BY <2>1 DEF SendUnits
  <2>2. CASE units # <<>>
    <3>1. Len(units) \in DOMAIN units
      BY <2>2
    <3>2. units[Len(units)] \in Units(Nat, 0..asks)
      BY <3>1
    <3>3. QED BY <2>2, <3>2 DEF SendUnits, Units
  <2>3. QED BY <2>1, <2>2
<1>4. QED BY <1>1, <1>2, <1>3

LEMMA KeyRequested ==
  ASSUME NEW I, NEW e, EncoderOK(e, I)
  PROVE  EncoderOK(RequestKeyframe(e), I)
<1>1. CASE e.backend = "mjpeg"
  BY <1>1 DEF RequestKeyframe
<1>2. CASE e.backend # "mjpeg"
  <2> DEFINE k == [e EXCEPT !.key = TRUE]
  <2>1. /\ k \in Encoder(I) /\ k.backend = e.backend /\ k.session = e.session /\ k.header = e.header
        /\ k.fresh = e.fresh /\ k.key = TRUE /\ k.stale = e.stale
    BY DEF EncoderOK, Encoder
  <2>2. RequestKeyframe(e) = k
    BY <1>2 DEF RequestKeyframe
  <2>3. QED BY <2>1, <2>2 DEF EncoderOK, HeaderOK
<1>3. QED BY <1>1, <1>2

LEMMA EncodeKeeps == PipelineInv /\ EncodeAndSend => PipelineInv'
<1> SUFFICES ASSUME PipelineInv, EncodeAndSend PROVE PipelineInv'
  OBVIOUS
<1> DEFINE e == IF Forcing THEN RequestKeyframe(enc) ELSE enc
           input == [picture |-> Next2Send, asks |-> asks]
<1> USE DEF PipelineInv
<1>1. /\ pc = "send" /\ pc' = "acquire" /\ lastFrame' = Next2Send /\ unsent' = FALSE /\ frame' = NoFrame
      /\ UNCHANGED <<desktop, capture, asks, settings, tuning, share>> /\ ForceKeyframe
  BY DEF EncodeAndSend
<1>2. PICK o \in Encode(e, input) :
          /\ o.cost <= left /\ left' = left - o.cost
          /\ enc' = o.enc
          /\ SendUnits(o.result)
          /\ refine' = Refined(Again /\ ~unsent, Keys(o.result) # {})
  BY DEF EncodeAndSend
<1>3. asks \in Nat /\ input \in Asked(asks)
  BY SentPicture DEF OutputOK, Asked, Inputs
<1>4. EncoderOK(e, Asked(asks))
  BY <1>1, KeyRequested DEF EncOK, EncoderOK
<1>5. OutcomeOK(o, asks)
  BY <1>2, <1>3, <1>4, EncodeIs
<1>6. CaptureOK'
  BY <1>1 DEF CaptureOK, CaptureFlags, CaptureCounts, desktop, capture
<1>7. EncOK'
  <2>1. HeaderOK(enc)' = HeaderOK(enc')
    BY DEF HeaderOK
  <2>2. QED BY <1>1, <1>2, <1>5, <2>1 DEF EncOK, Asked, OutcomeOK, EncoderOK
<1>8. SettingsOK'
  BY <1>1 DEF SettingsOK, settings, tuning
<1>9. TuningOK'
  <2>1. left' \in 0..Budget
    BY <1>2, <1>5, Bounds DEF TuningOK, OutcomeOK
  <2>2. UNCHANGED <<encConfig, autoTune>>
    BY <1>1 DEF tuning
  <2>3. QED BY <2>1, <2>2 DEF TuningOK
<1>10. LoopOK'
  <2>1. force' \in BOOLEAN /\ idrDue' \in BOOLEAN
    BY <1>1 DEF ForceKeyframe, LoopOK, LoopFlags
  <2>2. sentAge' \in {"new", "due", "second"}
    BY <1>2 DEF SendUnits, LoopOK, LoopFlags
  <2>3. refine' \in 0..RefineFrames
    <3>1. refine \in 0..RefineFrames
      BY DEF LoopOK
    <3>2. refine' \in {0, RefineFrames} \/ (refine > 0 /\ refine' = refine - 1)
      <4>1. ASSUME NEW r \in BOOLEAN, NEW k \in BOOLEAN
            PROVE  Refined(r, k) \in {0, RefineFrames} \/ (refine > 0 /\ Refined(r, k) = refine - 1)
        <5>1. \/ Refined(r, k) = 0
              \/ Refined(r, k) = RefineFrames
              \/ refine > 0 /\ Refined(r, k) = refine - 1
          BY DEF Refined
        <5>2. QED BY <5>1, Zenon
      <4>2. (Again /\ ~unsent) \in BOOLEAN /\ (Keys(o.result) # {}) \in BOOLEAN
        OBVIOUS
      <4>3. QED BY <1>2, <4>1, <4>2
    <3>3. QED BY <3>1, <3>2, Bounds
  <2>4. changed' = changed
    BY <1>1 DEF settings
  <2>5. LoopFlags'
    BY <1>1, <2>1, <2>2, <2>4, Zenon DEF LoopFlags, LoopOK
  <2>6. QED BY <1>1, <2>3, <2>5, SentPicture DEF LoopOK, NoFrame
<1>11. OutputOK'
  BY <1>1, <1>2, <1>5, SendKeeps DEF OutcomeOK
<1>12. QED BY <1>6, <1>7, <1>8, <1>9, <1>10, <1>11

(***************************************************************************)
(* The steps around it                                                     *)
(***************************************************************************)
LEMMA WorkerStays ==
  ASSUME PipelineInv, UNCHANGED <<enc, worker>>
  PROVE  EncOK' /\ SettingsOK' /\ LoopOK' /\ OutputOK' /\ UNCHANGED <<encConfig, autoTune>>
<1> USE DEF PipelineInv, worker, frames, settings, tuning, output
<1>1. EncOK'
  BY DEF EncOK, HeaderOK, Asked
<1>2. SettingsOK'
  BY DEF SettingsOK
<1>3. LoopOK'
  BY DEF LoopOK, LoopFlags
<1>4. OutputOK'
  BY DEF OutputOK
<1>5. QED BY <1>1, <1>2, <1>3, <1>4

LEMMA DesktopKeeps == PipelineInv /\ (Desktop \/ Plug) => PipelineInv'
<1> SUFFICES ASSUME PipelineInv, Desktop \/ Plug PROVE PipelineInv'
  OBVIOUS
<1>1. /\ EncOK' /\ SettingsOK' /\ LoopOK' /\ OutputOK' /\ UNCHANGED <<encConfig, autoTune>>
  BY WorkerStays DEF Desktop, Plug
<1>2. CaptureOK'
  BY DesktopMoves DEF PipelineInv, Desktop, Plug
<1>3. left' \in 0..Budget
  <2>1. left \in 0..Budget
    BY DEF PipelineInv, TuningOK
  <2>2. left' = left \/ (left > 0 /\ left' = left - 1)
    <3>1. Desktop => left > 0 /\ left' = left - 1
      BY DEF Desktop
    <3>2. Plug => left' = left
      BY DEF Plug
    <3>3. QED BY <3>1, <3>2
  <2>3. QED BY <2>1, <2>2, Bounds
<1>4. TuningOK'
  BY <1>1, <1>3 DEF PipelineInv, TuningOK
<1>5. QED BY <1>1, <1>2, <1>4 DEF PipelineInv

(* A step that touches neither the capture nor the encoder's inputs.        *)
LEMMA CaptureStays ==
  ASSUME CaptureOK, UNCHANGED <<desktop, capture>>
  PROVE  CaptureOK'
  BY DEF CaptureOK, CaptureFlags, CaptureCounts, desktop, capture

LEMMA AskKeeps == PipelineInv /\ AskKeyframe => PipelineInv'
<1> SUFFICES ASSUME PipelineInv, AskKeyframe PROVE PipelineInv'
  OBVIOUS
<1>1. /\ left > 0 /\ left' = left - 1 /\ force' = TRUE /\ asks' = asks + 1
      /\ UNCHANGED <<desktop, capture, enc, pc, frames, idrDue, sentAge, settings, tuning, share, output>>
  BY DEF AskKeyframe
<1> USE DEF PipelineInv, frames, settings, tuning, output
<1>2. asks \in Nat /\ 0..asks \subseteq 0..asks'
  BY <1>1 DEF OutputOK
<1>3. CaptureOK'
  BY <1>1, CaptureStays
<1>4. EncOK'
  <2>1. Asked(asks) \subseteq Asked(asks')
    BY <1>2 DEF Asked, Inputs
  <2>2. enc \in Encoder(Asked(asks'))
    BY <2>1, EncoderGrows DEF EncOK
  <2>3. QED BY <1>1, <2>2 DEF EncOK, HeaderOK, Asked
<1>5. SettingsOK'
  BY <1>1 DEF SettingsOK
<1>6. TuningOK'
  <2>1. left' \in 0..Budget
    BY <1>1, Bounds DEF TuningOK
  <2>2. QED BY <1>1, <2>1 DEF TuningOK
<1>7. LoopOK'
  BY <1>1 DEF LoopOK, LoopFlags
<1>8. OutputOK'
  <2>1. Units(Nat, 0..asks) \subseteq Units(Nat, 0..asks')
    BY <1>2 DEF Units
  <2>2. sent \in Seq(Units(Nat, 0..asks'))
    BY <2>1, SeqMonotonic DEF OutputOK
  <2>3. asks' \in Nat /\ answered' \in 0..asks' /\ sent' = sent /\ shown' = shown
    BY <1>1, <1>2 DEF OutputOK
  <2>4. QED BY <2>2, <2>3 DEF OutputOK
<1>9. QED BY <1>3, <1>4, <1>5, <1>6, <1>7, <1>8

LEMMA OutsideKeeps == PipelineInv /\ (NewSettings \/ ShareMoves) => PipelineInv'
<1> SUFFICES ASSUME PipelineInv, NewSettings \/ ShareMoves PROVE PipelineInv'
  OBVIOUS
<1> USE DEF PipelineInv, frames, idr, settings, tuning, output
<1>1. /\ left > 0 /\ left' = left - 1 /\ UNCHANGED <<desktop, capture, enc, pc, frames, idr, sentAge, tuning, output>>
      /\ (setting' \in Settings /\ changed' = TRUE /\ share' = share) \/ (share' = 3 - share /\ UNCHANGED settings)
  BY DEF NewSettings, ShareMoves
<1>2. CaptureOK'
  BY <1>1, CaptureStays
<1>3. EncOK'
  BY <1>1 DEF EncOK, HeaderOK, Asked
<1>4. SettingsOK'
  BY <1>1 DEF SettingsOK
<1>5. TuningOK'
  <2>1. left' \in 0..Budget
    BY <1>1, Bounds DEF TuningOK
  <2>2. QED BY <1>1, <2>1 DEF TuningOK
<1>6. LoopOK'
  BY <1>1 DEF LoopOK, LoopFlags
<1>7. OutputOK'
  BY <1>1 DEF OutputOK
<1>8. QED BY <1>2, <1>3, <1>4, <1>5, <1>6, <1>7

LEMMA TimeKeeps == PipelineInv /\ (IntervalPasses \/ SecondPasses \/ IdrGapPasses) => PipelineInv'
<1> SUFFICES ASSUME PipelineInv, IntervalPasses \/ SecondPasses \/ IdrGapPasses PROVE PipelineInv'
  OBVIOUS
<1> USE DEF PipelineInv, frames, idr, settings, tuning, output
<1>1. /\ UNCHANGED <<desktop, capture, enc, pc, frames, force, asks, settings, tuning, share, output, left>>
      /\ sentAge' \in {sentAge, "due", "second"} /\ idrDue' \in {idrDue, TRUE}
  BY DEF IntervalPasses, SecondPasses, IdrGapPasses
<1>2. CaptureOK'
  BY <1>1, CaptureStays
<1>3. EncOK'
  BY <1>1 DEF EncOK, HeaderOK, Asked
<1>4. SettingsOK' /\ TuningOK'
  BY <1>1 DEF SettingsOK, TuningOK
<1>5. LoopOK'
  BY <1>1 DEF LoopOK, LoopFlags
<1>6. OutputOK'
  BY <1>1 DEF OutputOK
<1>7. QED BY <1>2, <1>3, <1>4, <1>5, <1>6

(* What the transform has encoded and what FFmpeg waits for change no       *)
(* parameter sets.                                                          *)
LEMMA EncoderWorks == PipelineInv /\ (Transform \/ Backoff) => PipelineInv'
<1> SUFFICES ASSUME PipelineInv, Transform \/ Backoff PROVE PipelineInv'
  OBVIOUS
<1> USE DEF PipelineInv, worker, frames, idr, settings, tuning, output
<1>1. /\ UNCHANGED <<desktop, capture, worker, left>>
      /\ enc' = [enc EXCEPT !.done = @ + 1] \/ enc' = [enc EXCEPT !.backoff = FALSE]
  BY DEF Transform, Backoff, MftWorks, BackoffEnds
<1>2. CaptureOK'
  BY <1>1, CaptureStays
<1>3. EncOK'
  <2>1. enc \in Encoder(Asked(asks)) /\ enc.done + 1 \in Nat
    BY DEF EncOK, Encoder
  <2>2. /\ enc' \in Encoder(Asked(asks)) /\ enc'.backend = enc.backend /\ enc'.session = enc.session
        /\ enc'.header = enc.header /\ enc'.fresh = enc.fresh /\ enc'.key = enc.key /\ enc'.stale = enc.stale
    <3>1. CASE enc' = [enc EXCEPT !.done = @ + 1]
      BY <2>1, <3>1 DEF Encoder
    <3>2. CASE enc' = [enc EXCEPT !.backoff = FALSE]
      BY <2>1, <3>2 DEF Encoder
    <3>3. QED BY <1>1, <3>1, <3>2
  <2>3. HeaderOK(enc) => HeaderOK(enc')
    BY <2>2 DEF HeaderOK
  <2>4. HeaderOK(enc)' = HeaderOK(enc')
    BY DEF HeaderOK
  <2>5. QED BY <1>1, <2>2, <2>3, <2>4 DEF EncOK, Asked
<1>4. SettingsOK' /\ TuningOK'
  BY <1>1 DEF SettingsOK, TuningOK
<1>5. LoopOK'
  BY <1>1 DEF LoopOK, LoopFlags
<1>6. OutputOK'
  BY <1>1 DEF OutputOK
<1>7. QED BY <1>2, <1>3, <1>4, <1>5, <1>6

LEMMA PipelineStutters == PipelineInv /\ UNCHANGED pipelineVars => PipelineInv'
<1> SUFFICES ASSUME PipelineInv, UNCHANGED pipelineVars PROVE PipelineInv'
  OBVIOUS
<1> USE DEF PipelineInv, pipelineVars, frames, idr, settings, tuning, output
<1>1. CaptureOK'
  BY CaptureStays
<1>2. EncOK'
  BY DEF EncOK, HeaderOK, Asked
<1>3. SettingsOK' /\ TuningOK'
  BY DEF SettingsOK, TuningOK
<1>4. LoopOK'
  BY DEF LoopOK, LoopFlags
<1>5. OutputOK'
  BY DEF OutputOK
<1>6. QED BY <1>1, <1>2, <1>3, <1>4, <1>5

LEMMA PipelineStep == PipelineInv /\ [PipelineNext]_pipelineVars => PipelineInv'
<1> SUFFICES ASSUME PipelineInv, [PipelineNext]_pipelineVars PROVE PipelineInv'
  OBVIOUS
<1>1. CASE Loop
  BY <1>1, AcquireKeeps, NothingKeeps, RecaptureKeeps, HoldKeeps, EncodeKeeps DEF Loop
<1>2. CASE Desktop \/ Plug
  BY <1>2, DesktopKeeps
<1>3. CASE AskKeyframe
  BY <1>3, AskKeeps
<1>4. CASE NewSettings \/ ShareMoves
  BY <1>4, OutsideKeeps
<1>5. CASE IntervalPasses \/ SecondPasses \/ IdrGapPasses
  BY <1>5, TimeKeeps
<1>6. CASE Transform \/ Backoff
  BY <1>6, EncoderWorks
<1>7. CASE UNCHANGED pipelineVars
  BY <1>7, PipelineStutters
<1>8. QED BY <1>1, <1>2, <1>3, <1>4, <1>5, <1>6, <1>7 DEF PipelineNext

(* The worker's loop, its capture and its encoder keep their types.         *)
THEOREM PipelineTypeCorrect == PipelineSpec => []PipelineTypeOK
<1>1. PipelineSpec => []PipelineInv
  BY PipelineStarts, PipelineStep, PTL DEF PipelineSpec
<1>2. QED BY <1>1, PipelineTypes, PTL

(* Every keyframe sent carries the parameter sets of the session that made  *)
(* it, however often the encoder was re-opened, replaced or renegotiated    *)
(* (ensure_parameter_sets(), _capture_sequence_header()), but for a         *)
(* transform's that came without and whose type showed the host none, never *)
(* or not when it last changed.  (Such a keyframe may then carry the old    *)
(* ones: ParametersNotStale does not hold.)                                 *)
THEOREM KeyframesWhole == PipelineSpec => []KeyframesSelfContained
<1>1. PipelineSpec => []PipelineInv
  BY PipelineStarts, PipelineStep, PTL DEF PipelineSpec
<1>2. QED BY <1>1, PipelineTypes, PTL

(***************************************************************************)
(* VideoDelivery                                                           *)
(*                                                                         *)
(* A frame begun is determined by the data chunks and parity chunks that   *)
(* came of it (EntryOf), a rebuilt chunk being the lost one bit by bit,    *)
(* and no group with its parity misses exactly one chunk (Settled): a      *)
(* packet rebuilds at most the chunk of its own group, which disturbs no   *)
(* other. All chunks end to end are the frame, so what is shown is what    *)
(* was encoded; and a frame still waiting misses two chunks of some group, *)
(* or one of a group without parity.                                       *)
(***************************************************************************)
(* The assumption, constant by constant. *)
LEMMA Parameters ==
  /\ MaxPayload \in Nat \ {0} /\ FecPercent \in Nat \ {0} /\ MaxQueue \in Nat \ {0}
  /\ Slots \in Nat \ {0} /\ MaxWire \in Nat \ {0} /\ Margin \in Nat \ {0, 1}
  BY VideoAssumption

(* Division leaves a remainder below the divisor. *)
LEMMA Quotient ==
  ASSUME NEW a \in Nat, NEW b \in Nat \ {0}
  PROVE  /\ a \div b \in Nat /\ b * (a \div b) <= a /\ a < b * (a \div b) + b
         /\ a % b \in 0..b - 1
<1>1. a = (b * (a \div b)) + (a % b) /\ a % b \in 0..b - 1 /\ a \div b \in Int
  OBVIOUS
<1>2. a \div b >= 0
  BY <1>1
<1>3. QED BY <1>1, <1>2

(* Multiples are apart by at least the factor: chunks do not overlap. *)
LEMMA Products ==
  ASSUME NEW i \in Nat, NEW j \in Nat, i < j, NEW p \in Nat
  PROVE  /\ i * p \in Nat /\ j * p \in Nat /\ i * p + p <= j * p
         /\ (i + 1) * p = i * p + p
<1>1. PICK k \in Nat : j = i + 1 + k
  <2>1. j - i - 1 \in Nat /\ j = i + 1 + (j - i - 1)
    OBVIOUS
  <2>2. QED BY <2>1
<1>2. j * p = i * p + p + k * p /\ (i + 1) * p = i * p + p
  BY <1>1
<1>3. k * p \in Nat /\ i * p \in Nat
  OBVIOUS
<1>4. QED BY <1>2, <1>3

(* A frame is a sequence of bits, not empty. *)
LEMMA FrameIs ==
  ASSUME NEW n \in DOMAIN Frame
  PROVE  /\ n \in Nat \ {0} /\ Frame[n] \in Seq({0, 1}) /\ Len(Frame[n]) \in Nat \ {0}
         /\ \A b \in 1..Len(Frame[n]) : Frame[n][b] \in {0, 1}
<1>1. n \in Nat \ {0}
  BY VideoAssumption
<1>2. Frame[n] \in Seq({0, 1}) /\ Frame[n] # <<>>
  BY VideoAssumption
<1>3. QED BY <1>1, <1>2

(* As many chunks as the frame fills, and at least one parity chunk. *)
LEMMA ChunkCounts ==
  ASSUME NEW n \in DOMAIN Frame
  PROVE  /\ ChunkCount(n) \in Nat \ {0}
         /\ (ChunkCount(n) - 1) * MaxPayload < Len(Frame[n])
         /\ Len(Frame[n]) <= ChunkCount(n) * MaxPayload
         /\ ParityCount(n) \in Nat \ {0}
<1> DEFINE F == Len(Frame[n])
           P == MaxPayload
           t == (F + P - 1) \div P
<1>1. F \in Nat \ {0} /\ P \in Nat \ {0}
  BY FrameIs, Parameters
<1>2. F + P - 1 \in Nat
  BY <1>1
<1> HIDE DEF F, P
<1>3. /\ t \in Nat
      /\ P * t <= F + P - 1
      /\ F + P - 1 < P * t + P
  BY <1>1, <1>2, Quotient
<1> HIDE DEF t
<1>4. t # 0
  BY <1>1, <1>3
<1>5. (t - 1) * P = P * t - P /\ t * P = P * t
  BY <1>1, <1>3
<1>6. P * t \in Nat
  BY <1>1, <1>3
<1>7. (t - 1) * P < F /\ F <= t * P
  BY <1>1, <1>3, <1>5, <1>6
<1>8. ChunkCount(n) = t
  BY DEF ChunkCount, t, F, P
<1>9. ParityCount(n) \in Nat \ {0}
  <2>1. t * FecPercent + 99 \in Nat
    <3>1. FecPercent \in Nat
      BY Parameters
    <3>2. QED BY <1>3, <3>1
  <2>2. (t * FecPercent + 99) \div 100 \in Nat
    <3>1. \A a \in Nat : a \div 100 \in Nat
      BY Quotient
    <3>2. QED BY <2>1, <3>1
  <2>3. PICK q \in Nat : q = (t * FecPercent + 99) \div 100
    BY <2>2
  <2>4. ParityCount(n) = Most(1, q)
    BY <1>8, <2>3 DEF ParityCount
  <2>5. QED BY <2>4 DEF Most
<1>10. QED BY <1>3, <1>4, <1>7, <1>8, <1>9 DEF F, P

(* Chunk i of frame n: its bytes are those of the frame from i * MaxPayload. *)
LEMMA Chunks ==
  ASSUME NEW n \in DOMAIN Frame, NEW i \in 0..ChunkCount(n) - 1
  PROVE  /\ Chunk(n, i) \in Seq({0, 1})
         /\ i * MaxPayload \in Nat /\ i * MaxPayload < Len(Frame[n])
         /\ Len(Chunk(n, i)) = IF i < ChunkCount(n) - 1 THEN MaxPayload
                               ELSE Len(Frame[n]) - (ChunkCount(n) - 1) * MaxPayload
         /\ Len(Chunk(n, i)) \in 1..Least(MaxPayload, Len(Frame[n]))
         /\ i * MaxPayload + Len(Chunk(n, i)) = Least((i + 1) * MaxPayload, Len(Frame[n]))
         /\ \A b \in 1..Len(Chunk(n, i)) : Chunk(n, i)[b] = Frame[n][i * MaxPayload + b]
<1> DEFINE F == Len(Frame[n])
           P == MaxPayload
           t == ChunkCount(n)
           from == i * P
           to == Least((i + 1) * P, F)
<1>1. F \in Nat \ {0} /\ P \in Nat \ {0} /\ t \in Nat \ {0} /\ (t - 1) * P < F /\ F <= t * P
      /\ Frame[n] \in Seq({0, 1})
  BY FrameIs, ChunkCounts, Parameters
<1>2. i \in Nat /\ i < t /\ t - 1 \in Nat /\ t - 1 < t
  BY <1>1
<1> HIDE DEF F, P, t
<1>3. from \in Nat /\ (i + 1) * P = from + P
  BY <1>1, <1>2, Products
<1>4. i < t - 1 => from + P <= (t - 1) * P
  BY <1>1, <1>2, Products
<1>5. ~(i < t - 1) => i = t - 1 /\ i + 1 = t
  BY <1>1, <1>2
<1>6. (t - 1) * P \in Nat /\ t * P \in Nat
  BY <1>1, <1>2, Products
<1>7. PICK low \in Nat, high1 \in Nat : low = (t - 1) * P /\ high1 = t * P /\ low < F /\ F <= high1
  BY <1>1, <1>6
<1>8. from < F /\ to \in from + 1..F /\ to - from = IF i < t - 1 THEN P ELSE F - (t - 1) * P
  <2>1. CASE i < t - 1
    <3>1. from + P <= low
      BY <1>4, <1>7, <2>1
    <3>2. to = from + P
      BY <1>1, <1>3, <1>7, <3>1 DEF Least
    <3>3. from < F /\ to \in from + 1..F /\ to - from = P
      <4> HIDE DEF to
      <4> QED BY <1>1, <1>3, <1>7, <3>1, <3>2
    <3>4. QED BY <2>1, <3>3
  <2>2. CASE ~(i < t - 1)
    <3>1. from = low /\ (i + 1) * P = high1
      BY <1>5, <1>7, <2>2
    <3>2. to = F
      BY <1>1, <1>7, <3>1 DEF Least
    <3>3. from < F /\ to \in from + 1..F /\ to - from = F - low
      <4> HIDE DEF to, from
      <4> QED BY <1>1, <1>7, <3>1, <3>2
    <3>4. QED BY <1>7, <2>2, <3>3
  <2>3. QED BY <2>1, <2>2
<1>9. to - from \in 1..Least(P, F)
  <2>1. to <= from + P /\ to <= F /\ from < to
    BY <1>1, <1>3, <1>8 DEF Least
  <2>2. QED
    <3> HIDE DEF to, from
    <3> QED BY <1>1, <1>3, <1>8, <2>1 DEF Least
<1> HIDE DEF from, to
<1>10. Chunk(n, i) = SubSeq(Frame[n], from + 1, to)
  BY DEF Chunk, from, to, P, F
<1>11. from \in Nat /\ to \in Nat /\ from + 1 \in 1..F + 1 /\ to \in from..F
  BY <1>1, <1>3, <1>8
<1>12. /\ Chunk(n, i) \in Seq({0, 1})
       /\ Len(Chunk(n, i)) = to - from
       /\ \A b \in 1..to - from : Chunk(n, i)[b] = Frame[n][from + b]
  BY <1>1, <1>10, <1>11 DEF F
<1>13. QED BY <1>3, <1>8, <1>9, <1>11, <1>12 DEF F, P, t, from, to

-----------------------------------------------------------------------------
(* Parity. *)

Indices(n) == 0..ChunkCount(n) - 1

(* A frame has ChunkCount chunks. *)
LEMMA IndicesFinite ==
  ASSUME NEW n \in DOMAIN Frame
  PROVE  /\ IsFiniteSet(Indices(n)) /\ Cardinality(Indices(n)) = ChunkCount(n)
         /\ \A S \in SUBSET Indices(n) : IsFiniteSet(S)
<1>1. PICK t \in Nat \ {0} : t = ChunkCount(n)
  BY ChunkCounts
<1>2. IsFiniteSet(0..t - 1) /\ Cardinality(0..t - 1) = t
  <2>1. 0 \in Int /\ t - 1 \in Int /\ ~(0 > t - 1) /\ t - 1 - 0 + 1 = t
    OBVIOUS
  <2>2. /\ IsFiniteSet(0..t - 1)
        /\ Cardinality(0..t - 1) = IF 0 > t - 1 THEN 0 ELSE t - 1 - 0 + 1
    BY <2>1, FS_Interval
  <2>3. QED BY <2>1, <2>2
<1>3. IsFiniteSet(Indices(n)) /\ Cardinality(Indices(n)) = ChunkCount(n)
  BY <1>1, <1>2 DEF Indices
<1>4. QED BY <1>3, FS_Subset

(* A parity group is some of the chunks. *)
LEMMA GroupWithin ==
  ASSUME NEW n \in DOMAIN Frame, NEW step, NEW g
  PROVE  /\ Group(ChunkCount(n), step, g) \subseteq Indices(n) /\ IsFiniteSet(Group(ChunkCount(n), step, g))
<1>1. Group(ChunkCount(n), step, g) \subseteq Indices(n)
  BY DEF Group, Indices
<1>2. QED BY <1>1, IndicesFinite

(* Bit b of a parity chunk: whether an odd number of its group have a one there. *)
LEMMA ParityIs ==
  ASSUME NEW n \in DOMAIN Frame, NEW j
  PROVE  LET G == Group(ChunkCount(n), ParityCount(n), j)
             L == Least(Len(Frame[n]), MaxPayload)
         IN  /\ L \in Nat /\ Len(Parity(n, j)) = L
             /\ \A b \in 1..L : Parity(n, j)[b] = Cardinality({i \in G : ByteAt(Chunk(n, i), b) = 1}) % 2
<1> DEFINE t == ChunkCount(n)
           G == Group(t, ParityCount(n), j)
           L == Least(Len(Frame[n]), MaxPayload)
           c == [i \in 0..t - 1 |-> Chunk(n, i)]
<1>1. L \in Nat
  BY FrameIs, Parameters DEF Least
<1>2. Parity(n, j) = Xor(G, c, L)
  BY DEF Parity
<1>3. \A i \in G : c[i] = Chunk(n, i)
  BY GroupWithin DEF Indices
<1> HIDE DEF c, G, L, t
<1>4. Parity(n, j) = [b \in 1..L |-> Cardinality({i \in G : ByteAt(c[i], b) = 1}) % 2]
  BY <1>2 DEF Xor
<1>5. Len(Parity(n, j)) = L
  BY <1>1, <1>4
<1>6. \A b : {i \in G : ByteAt(c[i], b) = 1} = {i \in G : ByteAt(Chunk(n, i), b) = 1}
  BY <1>3
<1>7. \A b \in 1..L : Parity(n, j)[b] = Cardinality({i \in G : ByteAt(Chunk(n, i), b) = 1}) % 2
  BY <1>4, <1>6
<1>8. QED BY <1>1, <1>5, <1>7 DEF G, L, t

(* One more makes odd even and even odd. *)
LEMMA OddEven ==
  ASSUME NEW a \in Nat
  PROVE  /\ a % 2 \in {0, 1}
         /\ (a % 2 = 0) => (a + 1) % 2 = 1
         /\ (a % 2 = 1) => (a + 1) % 2 = 0
  OBVIOUS

(* The chunk a group misses is the XOR of the group's others and its parity. *)
LEMMA ParityRestores ==
  ASSUME NEW n \in DOMAIN Frame, NEW j, NEW c, NEW m \in Group(ChunkCount(n), ParityCount(n), j),
         c[m] = Parity(n, j),
         \A i \in Group(ChunkCount(n), ParityCount(n), j) \ {m} : c[i] = Chunk(n, i)
  PROVE  SubSeq(Xor(Group(ChunkCount(n), ParityCount(n), j), c, Len(Parity(n, j))), 1, Len(Chunk(n, m)))
           = Chunk(n, m)
<1> DEFINE G == Group(ChunkCount(n), ParityCount(n), j)
           L == Least(Len(Frame[n]), MaxPayload)
           One(b) == {i \in G : ByteAt(Chunk(n, i), b) = 1}
           Others(b) == {i \in G \ {m} : ByteAt(Chunk(n, i), b) = 1}
           Now(b) == {i \in G : ByteAt(c[i], b) = 1}
           x == Xor(G, c, Len(Parity(n, j)))
           len == Len(Chunk(n, m))
<1>1. /\ L \in Nat /\ Len(Parity(n, j)) = L
      /\ \A b \in 1..L : Parity(n, j)[b] = Cardinality(One(b)) % 2
  BY ParityIs
<1>2. /\ G \subseteq Indices(n) /\ IsFiniteSet(G) /\ \A S \in SUBSET G : IsFiniteSet(S)
  BY GroupWithin, IndicesFinite
<1>3. /\ Chunk(n, m) \in Seq({0, 1}) /\ len \in 1..L
  <2>1. m \in 0..ChunkCount(n) - 1
    BY <1>2 DEF Indices
  <2>2. Least(MaxPayload, Len(Frame[n])) = L
    BY Parameters, FrameIs DEF Least
  <2>3. QED BY <2>1, <2>2, Chunks
<1>4. ASSUME NEW b \in 1..len PROVE Cardinality(Now(b)) % 2 = Chunk(n, m)[b]
  <2>1. b \in 1..L /\ b \in Nat
    BY <1>1, <1>3
  <2>2. Chunk(n, m)[b] \in {0, 1} /\ ByteAt(Chunk(n, m), b) = Chunk(n, m)[b]
    BY <1>3 DEF ByteAt
  <2>3. IsFiniteSet(Others(b)) /\ Cardinality(Others(b)) \in Nat /\ m \notin Others(b)
    BY <1>2, FS_CardinalityType
  <2>4. Cardinality(Others(b) \cup {m}) = Cardinality(Others(b)) + 1
    BY <2>3, FS_AddElement
  <2>5. One(b) = IF Chunk(n, m)[b] = 1 THEN Others(b) \cup {m} ELSE Others(b)
    BY <2>2
  <2>6. ByteAt(c[m], b) = Cardinality(One(b)) % 2
    BY <1>1, <2>1 DEF ByteAt
  <2>7. Now(b) = IF Cardinality(One(b)) % 2 = 1 THEN Others(b) \cup {m} ELSE Others(b)
    BY <2>6
  <2> HIDE DEF One, Others, Now
  <2>8. PICK a \in Nat : a = Cardinality(Others(b))
    BY <2>3
  <2>9. a % 2 \in {0, 1} /\ (a % 2 = 0 => (a + 1) % 2 = 1) /\ (a % 2 = 1 => (a + 1) % 2 = 0)
    BY OddEven
  <2>10. CASE Chunk(n, m)[b] = 1
    BY <2>4, <2>5, <2>7, <2>8, <2>9, <2>10
  <2>11. CASE Chunk(n, m)[b] = 0
    BY <2>4, <2>5, <2>7, <2>8, <2>9, <2>11
  <2>12. QED BY <2>2, <2>10, <2>11
<1>5. x = [b \in 1..L |-> Cardinality(Now(b)) % 2]
  BY <1>1 DEF Xor
<1> HIDE DEF G, Now, One, Others, L
<1>6. \A b \in 1..L : Cardinality(Now(b)) % 2 \in {0, 1}
  <2>1. ASSUME NEW b \in 1..L PROVE Cardinality(Now(b)) % 2 \in {0, 1}
    <3>1. Cardinality(Now(b)) \in Nat
      BY <1>2, FS_CardinalityType DEF Now
    <3>2. QED BY <3>1, OddEven
  <2>2. QED BY <2>1
<1> HIDE DEF x
<1>7. x \in Seq({0, 1}) /\ Len(x) = L /\ \A b \in 1..L : x[b] = Cardinality(Now(b)) % 2
  BY <1>1, <1>5, <1>6
<1> HIDE DEF len
<1>8. /\ SubSeq(x, 1, len) \in Seq({0, 1}) /\ Len(SubSeq(x, 1, len)) = len
      /\ \A b \in 1..len : SubSeq(x, 1, len)[b] = x[b]
  BY <1>1, <1>3, <1>7
<1>9. \A b \in 1..len : SubSeq(x, 1, len)[b] = Chunk(n, m)[b]
  BY <1>1, <1>3, <1>4, <1>7, <1>8
<1>10. SubSeq(x, 1, len) = Chunk(n, m)
  BY <1>3, <1>8, <1>9 DEF len
<1>11. QED BY <1>10 DEF x, len, G

-----------------------------------------------------------------------------
(* A whole frame. *)

(* Its first bytes, up to the end of chunk k - 1. *)
Prefix(n, k) == SubSeq(Frame[n], 1, Least(k * MaxPayload, Len(Frame[n])))

(* Chunk k - 1 follows the chunks before it. *)
LEMMA PrefixGrows ==
  ASSUME NEW n \in DOMAIN Frame, NEW k \in 1..ChunkCount(n)
  PROVE  Prefix(n, k) = Prefix(n, k - 1) \o Chunk(n, k - 1)
<1> DEFINE from == (k - 1) * MaxPayload
           to == Least(k * MaxPayload, Len(Frame[n]))
           c == Chunk(n, k - 1)
           f == Frame[n]
<1>1. k \in Nat \ {0} /\ k - 1 \in 0..ChunkCount(n) - 1 /\ k - 1 + 1 = k
  BY ChunkCounts
<1>2. /\ c \in Seq({0, 1}) /\ from \in Nat /\ from < Len(f) /\ Len(c) \in Nat
      /\ from + Len(c) = to /\ \A b \in 1..Len(c) : c[b] = f[from + b]
  <2>1. from + Len(c) = Least((k - 1 + 1) * MaxPayload, Len(f))
    BY <1>1, Chunks
  <2>2. /\ c \in Seq({0, 1}) /\ from \in Nat /\ from < Len(f)
        /\ \A b \in 1..Len(c) : c[b] = f[from + b]
    BY <1>1, Chunks
  <2> HIDE DEF c
  <2>3. QED BY <1>1, <2>1, <2>2
<1>3. f \in Seq({0, 1}) /\ Len(f) \in Nat
  BY FrameIs
<1>4. to <= Len(f) /\ to \in Nat
  <2>1. k * MaxPayload \in Nat
    BY <1>1, Parameters
  <2>2. QED BY <1>3, <2>1 DEF Least
<1>5. Prefix(n, k) = SubSeq(f, 1, to) /\ Prefix(n, k - 1) = SubSeq(f, 1, from)
  BY <1>2, <1>3 DEF Prefix, Least
<1> HIDE DEF from, to, c, f
<1>6. SubSeq(f, 1, from) \in Seq({0, 1}) /\ Len(SubSeq(f, 1, from)) = from
      /\ \A b \in 1..from : SubSeq(f, 1, from)[b] = f[b]
  BY <1>2, <1>3
<1>7. SubSeq(f, 1, to) \in Seq({0, 1}) /\ Len(SubSeq(f, 1, to)) = to
      /\ \A b \in 1..to : SubSeq(f, 1, to)[b] = f[b]
  BY <1>3, <1>4
<1>8. PICK p \in Seq({0, 1}) : p = SubSeq(f, 1, from)
  BY <1>6
<1>9. /\ p \o c \in Seq({0, 1}) /\ Len(p \o c) = to
      /\ \A b \in 1..to : (p \o c)[b] = IF b <= from THEN p[b] ELSE c[b - from]
  BY <1>2, <1>6, <1>8
<1>10. \A b \in 1..to : (p \o c)[b] = f[b]
  <2>1. ASSUME NEW b \in 1..to PROVE (p \o c)[b] = f[b]
    <3>1. CASE b <= from
      BY <1>2, <1>6, <1>8, <1>9, <3>1
    <3>2. CASE ~(b <= from)
      <4>1. b - from \in 1..Len(c) /\ from + (b - from) = b
        BY <1>2, <1>4, <3>2
      <4>2. c[b - from] = f[from + (b - from)]
        BY <1>2, <4>1
      <4>3. QED BY <1>9, <3>2, <4>1, <4>2
    <3>3. QED BY <3>1, <3>2
  <2>2. QED BY <2>1
<1>11. SubSeq(f, 1, to) = p \o c
  BY <1>4, <1>7, <1>9, <1>10
<1>12. QED BY <1>5, <1>8, <1>11 DEF c

(* _assemble_frame(): all chunks end to end are the frame. *)
LEMMA JoinedFrame ==
  ASSUME NEW n \in DOMAIN Frame, NEW chunks, \A i \in Indices(n) : chunks[i] = Chunk(n, i)
  PROVE  Joined(chunks, ChunkCount(n)) = Frame[n]
<1>1. PICK t \in Nat \ {0} : t = ChunkCount(n)
  BY ChunkCounts
<1> DEFINE Steps(f) == f = [k \in 0..t |-> IF k = 0 THEN <<>> ELSE f[k - 1] \o chunks[k - 1]]
           g == [k \in 0..t |-> Prefix(n, k)]
           upTo == CHOOSE f : Steps(f)
<1>2. \A k \in 1..t : k - 1 \in Indices(n) /\ k - 1 \in 0..t /\ k \in 0..t /\ Prefix(n, k) = Prefix(n, k - 1) \o chunks[k - 1]
  <2>1. ASSUME NEW k \in 1..t
        PROVE  k - 1 \in Indices(n) /\ k - 1 \in 0..t /\ k \in 0..t /\ Prefix(n, k) = Prefix(n, k - 1) \o chunks[k - 1]
    <3>1. k - 1 \in Indices(n) /\ k - 1 \in 0..t /\ k \in 0..t
      BY <1>1 DEF Indices
    <3>2. QED BY <1>1, <3>1, PrefixGrows
  <2>2. QED BY <2>1
<1>3. Prefix(n, 0) = <<>> /\ Prefix(n, t) = Frame[n]
  <2>1. Frame[n] \in Seq({0, 1}) /\ Len(Frame[n]) \in Nat \ {0}
    BY FrameIs
  <2>2. 0 * MaxPayload = 0 /\ t * MaxPayload \in Nat
    BY Parameters
  <2>3. Least(0 * MaxPayload, Len(Frame[n])) = 0
    BY <2>1, <2>2 DEF Least
  <2>4. Least(t * MaxPayload, Len(Frame[n])) = Len(Frame[n])
    <3>1. Len(Frame[n]) <= t * MaxPayload
      BY <1>1, ChunkCounts
    <3>2. QED BY <2>1, <2>2, <3>1 DEF Least
  <2>5. SubSeq(Frame[n], 1, 0) = <<>> /\ SubSeq(Frame[n], 1, Len(Frame[n])) = Frame[n]
    BY <2>1
  <2>6. QED BY <2>3, <2>4, <2>5 DEF Prefix
<1>4. Steps(g)
  <2>1. \A k \in 0..t : g[k] = IF k = 0 THEN <<>> ELSE g[k - 1] \o chunks[k - 1]
    <3>1. ASSUME NEW k \in 0..t PROVE g[k] = IF k = 0 THEN <<>> ELSE g[k - 1] \o chunks[k - 1]
      <4>1. CASE k = 0
        BY <1>3, <4>1
      <4>2. CASE k # 0
        <5>1. k \in 1..t
          BY <4>2
        <5>2. k - 1 \in 0..t /\ g[k] = Prefix(n, k) /\ g[k - 1] = Prefix(n, k - 1)
          BY <1>2, <5>1
        <5>3. QED BY <1>2, <4>2, <5>1, <5>2
      <4>3. QED BY <4>1, <4>2
    <3>2. QED BY <3>1
  <2>2. DOMAIN g = 0..t
    OBVIOUS
  <2>3. g = [k \in 0..t |-> g[k]]
    OBVIOUS
  <2> HIDE DEF g
  <2>4. QED BY <2>1, <2>3
<1>5. Steps(upTo)
  <2> HIDE DEF Steps
  <2>1. \E f : Steps(f)
    BY <1>4
  <2>2. QED BY <2>1
<1>6. \A k \in 0..t : upTo[k] = IF k = 0 THEN <<>> ELSE upTo[k - 1] \o chunks[k - 1]
  <2> HIDE DEF upTo
  <2>1. QED BY <1>5
<1> HIDE DEF upTo, g
<1>7. \A k \in 0..t : upTo[k] = Prefix(n, k)
  <2> DEFINE Wrong == {k \in 0..t : upTo[k] # Prefix(n, k)}
  <2>1. SUFFICES ASSUME Wrong # {} PROVE FALSE
    OBVIOUS
  <2>2. Wrong \subseteq Nat
    OBVIOUS
  <2>3. PICK k \in Wrong : \A m \in Wrong : <<m, k>> \notin OpToRel(<, Nat)
    <3> HIDE DEF Wrong
    <3> QED BY <2>1, <2>2, NatLessThanWellFounded, WFMin
  <2>4. \A m \in Wrong : ~(m < k)
    BY <2>2, <2>3 DEF OpToRel
  <2>5. k # 0
    BY <1>3, <1>6
  <2>6. k \in 1..t /\ k - 1 < k /\ k - 1 \in 0..t
    BY <2>5
  <2>7. upTo[k - 1] = Prefix(n, k - 1)
    BY <2>4, <2>6
  <2>8. upTo[k] = Prefix(n, k)
    BY <1>2, <1>6, <2>5, <2>6, <2>7
  <2>9. QED BY <2>8
<1>8. upTo[t] = Frame[n]
  BY <1>3, <1>7
<1>9. Joined(chunks, t) = upTo[t]
  BY DEF Joined, upTo
<1>10. QED BY <1>1, <1>8, <1>9

-----------------------------------------------------------------------------
(* A frame begun: the data chunks D and the parity chunks E are there. *)

Groups(n) == 0..ParityCount(n) - 1
GroupOf(n, g) == Group(ChunkCount(n), ParityCount(n), g)
EntryOf(n, D, E) ==
  [chunks |-> [i \in D |-> Chunk(n, i)], parity |-> [j \in E |-> Parity(n, j)],
   groups |-> IF E = {} THEN 0 ELSE ParityCount(n), size |-> IF E = {} THEN 0 ELSE Len(Frame[n])]

(* No group that has its parity misses one chunk. *)
Settled(n, D, E) == \A g \in E : Cardinality(GroupOf(n, g) \ D) # 1

(* An entry made for the first packet holds nothing. *)
LEMMA NewEntryIs == ASSUME NEW n PROVE NewEntry = EntryOf(n, {}, {})
<1>1. <<>> = [i \in {} |-> Chunk(n, i)] /\ <<>> = [j \in {} |-> Parity(n, j)]
  OBVIOUS
<1>2. QED BY <1>1 DEF NewEntry, EntryOf

(* A chunk put into an entry's record. *)
LEMMA ChunkPut ==
  ASSUME NEW a, NEW b, NEW c, NEW d, NEW v, NEW i, NEW e,
         e = [chunks |-> a, parity |-> b, groups |-> c, size |-> d]
  PROVE  [e EXCEPT !.chunks = With(@, i, v)] = [chunks |-> With(a, i, v), parity |-> b, groups |-> c, size |-> d]
  OBVIOUS

(* One more data chunk in an entry. *)
LEMMA EntryChunk ==
  ASSUME NEW n, NEW D, NEW E, NEW i, NEW e, e = EntryOf(n, D, E), NEW v, v = Chunk(n, i)
  PROVE  [e EXCEPT !.chunks = With(@, i, v)] = EntryOf(n, D \cup {i}, E)
<1>1. With([k \in D |-> Chunk(n, k)], i, Chunk(n, i)) = [k \in D \cup {i} |-> Chunk(n, k)]
  BY DEF With
<1>2. PICK a, b, c, d :
        /\ a = [k \in D |-> Chunk(n, k)] /\ b = [j \in E |-> Parity(n, j)]
        /\ c = (IF E = {} THEN 0 ELSE ParityCount(n)) /\ d = (IF E = {} THEN 0 ELSE Len(Frame[n]))
  OBVIOUS
<1>3. EntryOf(n, D, E) = [chunks |-> a, parity |-> b, groups |-> c, size |-> d]
  BY <1>2 DEF EntryOf
<1>4. [e EXCEPT !.chunks = With(@, i, v)] = [chunks |-> With(a, i, v), parity |-> b, groups |-> c, size |-> d]
  BY <1>3, ChunkPut
<1>5. EntryOf(n, D \cup {i}, E) = [chunks |-> With(a, i, v), parity |-> b, groups |-> c, size |-> d]
  BY <1>1, <1>2 DEF EntryOf
<1>6. QED BY <1>4, <1>5

(* A data packet adds its chunk. *)
LEMMA WithChunkIs ==
  ASSUME NEW n, NEW D, NEW E, NEW i
  PROVE  WithChunk(EntryOf(n, D, E), n, i) = EntryOf(n, D \cup {i}, E)
<1>1. PICK e, v : e = EntryOf(n, D, E) /\ v = Chunk(n, i)
  OBVIOUS
<1>2. [e EXCEPT !.chunks = With(@, i, v)] = EntryOf(n, D \cup {i}, E)
  BY <1>1, EntryChunk
<1>3. WithChunk(e, n, i) = [e EXCEPT !.chunks = With(@, i, v)]
  BY <1>1 DEF WithChunk
<1>4. QED BY <1>1, <1>2, <1>3

(* A parity packet adds its parity, the number of groups and the size. *)
LEMMA WithParityIs ==
  ASSUME NEW n, NEW D, NEW E, NEW j
  PROVE  WithParity(EntryOf(n, D, E), n, j) = EntryOf(n, D, E \cup {j})
<1>1. With([k \in E |-> Parity(n, k)], j, Parity(n, j)) = [k \in E \cup {j} |-> Parity(n, k)]
  BY DEF With
<1>2. E \cup {j} # {}
  OBVIOUS
<1>3. /\ EntryOf(n, D, E).chunks = [i \in D |-> Chunk(n, i)]
      /\ EntryOf(n, D, E).parity = [k \in E |-> Parity(n, k)]
  BY DEF EntryOf
<1>4. WithParity(EntryOf(n, D, E), n, j) =
        [chunks |-> [i \in D |-> Chunk(n, i)], parity |-> [k \in E \cup {j} |-> Parity(n, k)],
         groups |-> ParityCount(n), size |-> Len(Frame[n])]
  BY <1>1, <1>3 DEF WithParity
<1>5. QED BY <1>2, <1>4 DEF EntryOf

(* _rebuild_chunk() cuts what it rebuilt to the length of the lost chunk. *)
LEMMA RebuiltLength ==
  ASSUME NEW n \in DOMAIN Frame, NEW e, e.size = Len(Frame[n]), NEW m \in Indices(n)
  PROVE  /\ RebuiltLen(e, ChunkCount(n), m) = Len(Chunk(n, m))
         /\ Len(Chunk(n, m)) \in Nat /\ Len(Chunk(n, m)) > 0
         /\ Len(Chunk(n, m)) <= Least(Len(Frame[n]), MaxPayload)
<1>1. m \in 0..ChunkCount(n) - 1
  BY DEF Indices
<1>2. PICK len : len = Len(Chunk(n, m))
  OBVIOUS
<1>3. /\ len = IF m < ChunkCount(n) - 1 THEN MaxPayload ELSE Len(Frame[n]) - (ChunkCount(n) - 1) * MaxPayload
      /\ len \in 1..Least(MaxPayload, Len(Frame[n]))
  BY <1>1, <1>2, Chunks
<1>4. Least(Len(Frame[n]), MaxPayload) = Least(MaxPayload, Len(Frame[n])) /\ Least(MaxPayload, Len(Frame[n])) \in Nat
  BY Parameters, FrameIs DEF Least
<1>5. RebuiltLen(e, ChunkCount(n), m) = len
  BY <1>3 DEF RebuiltLen
<1>6. len \in Nat /\ len > 0 /\ len <= Least(Len(Frame[n]), MaxPayload)
  BY <1>3, <1>4
<1>7. QED BY <1>2, <1>5, <1>6

(* _rebuild_chunk() adds the one chunk its group misses, or nothing. *)
LEMMA RebuiltIs ==
  ASSUME NEW n \in DOMAIN Frame, NEW D \in SUBSET Indices(n), NEW E \in SUBSET Groups(n), E # {}, NEW g
  PROVE  Rebuilt(EntryOf(n, D, E), ChunkCount(n), g) =
           IF g \in E /\ Cardinality(GroupOf(n, g) \ D) = 1
           THEN EntryOf(n, D \cup GroupOf(n, g), E) ELSE EntryOf(n, D, E)
<1>1. PICK e : e = EntryOf(n, D, E)
  OBVIOUS
<1>2. /\ e.groups = ParityCount(n) /\ e.size = Len(Frame[n])
      /\ DOMAIN e.chunks = D /\ DOMAIN e.parity = E
      /\ \A i \in D : e.chunks[i] = Chunk(n, i)
      /\ \A j \in E : e.parity[j] = Parity(n, j)
  BY <1>1 DEF EntryOf
<1>3. PICK m, len, all :
        /\ m = CHOOSE i \in GroupOf(n, g) \ D : TRUE
        /\ all = [i \in GroupOf(n, g) |-> IF i = m THEN e.parity[g] ELSE e.chunks[i]]
        /\ len = RebuiltLen(e, ChunkCount(n), m)
  OBVIOUS
<1>4. Rebuilt(e, ChunkCount(n), g) =
        IF g \in E /\ Cardinality(GroupOf(n, g) \ D) = 1 /\ len > 0 /\ len <= Len(e.parity[g])
        THEN [e EXCEPT !.chunks = With(@, m, SubSeq(Xor(GroupOf(n, g), all, Len(e.parity[g])), 1, len))]
        ELSE e
  BY <1>2, <1>3 DEF Rebuilt, GroupOf
<1>5. CASE ~(g \in E /\ Cardinality(GroupOf(n, g) \ D) = 1)
  BY <1>1, <1>4, <1>5
<1>6. CASE g \in E /\ Cardinality(GroupOf(n, g) \ D) = 1
  <2>1. GroupOf(n, g) \subseteq Indices(n) /\ IsFiniteSet(GroupOf(n, g) \ D)
    BY GroupWithin, IndicesFinite DEF GroupOf
  <2>2. \E y : GroupOf(n, g) \ D = {y}
    BY <1>6, <2>1, FS_Singleton
  <2>3. m \in GroupOf(n, g) /\ m \notin D /\ GroupOf(n, g) \ D = {m} /\ m \in Indices(n)
    BY <1>3, <2>1, <2>2
  <2>4. e.parity[g] = Parity(n, g)
    BY <1>2, <1>6
  <2>5. len = Len(Chunk(n, m)) /\ len > 0 /\ len <= Len(Parity(n, g))
    <3>1. Len(Parity(n, g)) = Least(Len(Frame[n]), MaxPayload)
      BY ParityIs
    <3>2. QED BY <1>2, <1>3, <2>3, <3>1, RebuiltLength
  <2>6. all[m] = Parity(n, g) /\ \A i \in GroupOf(n, g) \ {m} : all[i] = Chunk(n, i)
    <3>1. \A i \in GroupOf(n, g) \ {m} : i \in D
      BY <2>3
    <3>2. all[m] = Parity(n, g)
      BY <1>2, <1>3, <2>3, <2>4
    <3>3. ASSUME NEW i \in GroupOf(n, g) \ {m} PROVE all[i] = Chunk(n, i)
      BY <1>2, <1>3, <2>3, <3>1
    <3>4. QED BY <3>2, <3>3
  <2>7. SubSeq(Xor(GroupOf(n, g), all, Len(Parity(n, g))), 1, Len(Chunk(n, m))) = Chunk(n, m)
    <3>1. GroupOf(n, g) = Group(ChunkCount(n), ParityCount(n), g)
      BY DEF GroupOf
    <3>2. /\ m \in Group(ChunkCount(n), ParityCount(n), g)
          /\ \A i \in Group(ChunkCount(n), ParityCount(n), g) \ {m} : all[i] = Chunk(n, i)
      BY <2>3, <2>6, <3>1, Zenon
    <3>3. SubSeq(Xor(Group(ChunkCount(n), ParityCount(n), g), all, Len(Parity(n, g))), 1, Len(Chunk(n, m)))
            = Chunk(n, m)
      BY <2>6, <3>2, ParityRestores, Zenon
    <3>4. QED BY <3>1, <3>3, Zenon
  <2>12. PICK v : v = Chunk(n, m)
    OBVIOUS
  <2>8. Rebuilt(e, ChunkCount(n), g) = [e EXCEPT !.chunks = With(@, m, v)]
    BY <1>4, <1>6, <2>4, <2>5, <2>7, <2>12
  <2>9. D \cup GroupOf(n, g) = D \cup {m}
    BY <2>3
  <2>10. [e EXCEPT !.chunks = With(@, m, v)] = EntryOf(n, D \cup {m}, E)
    BY <1>1, <2>12, EntryChunk
  <2>11. QED BY <1>1, <1>6, <2>8, <2>9, <2>10
<1>7. QED BY <1>5, <1>6

(* A chunk is in one group. *)
LEMMA GroupsApart ==
  ASSUME NEW n, NEW g, NEW h, g # h
  PROVE  GroupOf(n, g) \cap GroupOf(n, h) = {}
  BY DEF GroupOf, Group

(* What a packet makes of the entry. *)
PacketEntry(n, e, i) ==
  RebuiltBy(IF i < ChunkCount(n) THEN WithChunk(e, n, i) ELSE WithParity(e, n, i - ChunkCount(n)), n, i)

(* A packet of a settled entry leaves a settled entry. *)
LEMMA PacketSettles ==
  ASSUME NEW n \in DOMAIN Frame, NEW D \in SUBSET Indices(n), NEW E \in SUBSET Groups(n), Settled(n, D, E),
         NEW i \in Nat, i < ChunkCount(n) + ParityCount(n)
  PROVE  \E D1 \in SUBSET Indices(n), E1 \in SUBSET Groups(n) :
           PacketEntry(n, EntryOf(n, D, E), i) = EntryOf(n, D1, E1) /\ Settled(n, D1, E1)
<1> DEFINE t == ChunkCount(n)
           q == ParityCount(n)
<1>1. t \in Nat \ {0} /\ q \in Nat \ {0}
  BY ChunkCounts
<1>2. \A g : GroupOf(n, g) \subseteq Indices(n) /\ GroupOf(n, g) \ GroupOf(n, g) = {} /\ Cardinality({}) = 0
  BY GroupWithin, FS_EmptySet DEF GroupOf
<1>3. ASSUME NEW D0 \in SUBSET Indices(n), NEW E0 \in SUBSET Groups(n), E0 # {}, NEW g,
             \A h \in E0 \ {g} : Cardinality(GroupOf(n, h) \ D0) # 1,
             PacketEntry(n, EntryOf(n, D, E), i) = Rebuilt(EntryOf(n, D0, E0), t, g)
      PROVE  \E D1 \in SUBSET Indices(n), E1 \in SUBSET Groups(n) :
               PacketEntry(n, EntryOf(n, D, E), i) = EntryOf(n, D1, E1) /\ Settled(n, D1, E1)
  <2>1. CASE g \in E0 /\ Cardinality(GroupOf(n, g) \ D0) = 1
    <3>1. Rebuilt(EntryOf(n, D0, E0), t, g) = EntryOf(n, D0 \cup GroupOf(n, g), E0)
      BY <1>3, <2>1, RebuiltIs
    <3>2. D0 \cup GroupOf(n, g) \in SUBSET Indices(n)
      BY <1>2
    <3>3. \A h \in E0 \ {g} : GroupOf(n, h) \ (D0 \cup GroupOf(n, g)) = GroupOf(n, h) \ D0
      BY GroupsApart
    <3>4. GroupOf(n, g) \ (D0 \cup GroupOf(n, g)) = {}
      OBVIOUS
    <3>5. Settled(n, D0 \cup GroupOf(n, g), E0)
      BY <1>2, <1>3, <3>3, <3>4 DEF Settled
    <3>6. QED BY <1>3, <3>1, <3>2, <3>5
  <2>2. CASE ~(g \in E0 /\ Cardinality(GroupOf(n, g) \ D0) = 1)
    <3>1. Rebuilt(EntryOf(n, D0, E0), t, g) = EntryOf(n, D0, E0)
      BY <1>3, <2>2, RebuiltIs
    <3>2. Settled(n, D0, E0)
      BY <1>3, <2>2 DEF Settled
    <3>3. QED BY <1>3, <3>1, <3>2
  <2>3. QED BY <2>1, <2>2
<1>4. CASE i < t
  <2>1. D \cup {i} \in SUBSET Indices(n)
    BY <1>1, <1>4 DEF Indices
  <2>2. PacketEntry(n, EntryOf(n, D, E), i) = RebuiltBy(EntryOf(n, D \cup {i}, E), n, i)
    BY <1>4, WithChunkIs DEF PacketEntry
  <2>3. CASE E = {}
    <3>1. EntryOf(n, D \cup {i}, E).groups = 0
      BY <2>3 DEF EntryOf
    <3>2. RebuiltBy(EntryOf(n, D \cup {i}, E), n, i) = EntryOf(n, D \cup {i}, E)
      BY <1>1, <1>4, <3>1 DEF RebuiltBy
    <3>3. Settled(n, D \cup {i}, E)
      BY <2>3 DEF Settled
    <3>4. QED BY <2>1, <2>2, <3>2, <3>3
  <2>4. CASE E # {}
    <3>1. EntryOf(n, D \cup {i}, E).groups = q
      BY <2>4 DEF EntryOf
    <3>2. RebuiltBy(EntryOf(n, D \cup {i}, E), n, i) = Rebuilt(EntryOf(n, D \cup {i}, E), t, i % q)
      BY <1>1, <1>4, <3>1 DEF RebuiltBy
    <3>3. ASSUME NEW h \in E \ {i % q} PROVE Cardinality(GroupOf(n, h) \ (D \cup {i})) # 1
      <4>1. i \notin GroupOf(n, h)
        BY <3>3 DEF GroupOf, Group
      <4>2. GroupOf(n, h) \ (D \cup {i}) = GroupOf(n, h) \ D
        BY <4>1
      <4>3. QED BY <3>3, <4>2 DEF Settled
    <3>4. QED BY <1>3, <2>1, <2>2, <2>4, <3>2, <3>3
  <2>5. QED BY <2>3, <2>4
<1>5. CASE ~(i < t)
  <2>1. i - t \in Groups(n) /\ i >= t
    BY <1>1, <1>5 DEF Groups
  <2>2. E \cup {i - t} \in SUBSET Groups(n) /\ E \cup {i - t} # {}
    BY <2>1
  <2>3. PacketEntry(n, EntryOf(n, D, E), i) = RebuiltBy(EntryOf(n, D, E \cup {i - t}), n, i)
    BY <1>5, WithParityIs DEF PacketEntry
  <2>4. RebuiltBy(EntryOf(n, D, E \cup {i - t}), n, i) = Rebuilt(EntryOf(n, D, E \cup {i - t}), t, i - t)
    BY <1>1, <1>5, <2>1 DEF RebuiltBy
  <2>5. \A h \in (E \cup {i - t}) \ {i - t} : Cardinality(GroupOf(n, h) \ D) # 1
    BY DEF Settled
  <2>6. QED BY <1>3, <2>2, <2>3, <2>4, <2>5
<1>6. QED BY <1>4, <1>5

-----------------------------------------------------------------------------
(* The inductive invariant.                                                  *)

(* Numbers of a stream grow past all before; a parked worker's frame comes   *)
(* no later than the next of the stream that runs.                           *)
HostInv ==
  /\ high \in Nat /\ next \in Nat /\ parked \in Nat /\ running \in BOOLEAN
  /\ offered \subseteq DOMAIN Frame /\ \A k \in offered : k <= high
  /\ parked <= high + Margin
  /\ running => /\ high <= next /\ next <= high + Margin /\ parked <= next
                /\ next = high => next \in offered

(* The control socket tells of streams and of frames that were sent. *)
Message == [kind : {"start", "stop", "frame"}, n : Nat]
WireInv ==
  /\ wire \in Seq(Message)
  /\ \A k \in 1..Len(wire) :
       /\ wire[k].kind = "start" => wire[k].n \in DOMAIN Frame
       /\ wire[k].kind = "frame" => wire[k].n \in offered
  /\ size \in BOOLEAN /\ last \in Nat

(* The frames begun are newer than the last shown, in part and settled. *)
Waiting(n, e) ==
  \E D \in SUBSET Indices(n), E \in SUBSET Groups(n) :
    e = EntryOf(n, D, E) /\ D # Indices(n) /\ Settled(n, D, E)
BufferInv ==
  \A n \in DOMAIN buffer : size /\ n > last /\ n \in offered /\ Waiting(n, buffer[n])

FeedInv == HostInv /\ WireInv /\ BufferInv

(* Nothing is sent yet. *)
LEMMA FeedInvInit == ASSUME Init PROVE FeedInv
<1>1. running = FALSE /\ next = 1 /\ parked = 0 /\ high = 0 /\ offered = {}
  BY DEF Init
<1>2. wire = <<>> /\ size = FALSE /\ last = 0 /\ DOMAIN buffer = {}
  BY DEF Init
<1>3. HostInv
  <2>1. ~running /\ running \in BOOLEAN
    BY <1>1
  <2>2. 0 <= 0 + Margin
    BY Parameters
  <2>3. QED BY <1>1, <2>1, <2>2 DEF HostInv
<1>4. WireInv
  <2>1. wire \in Seq(Message) /\ 1..Len(wire) = {}
    BY <1>2
  <2>2. size \in BOOLEAN /\ last \in Nat
    BY <1>2
  <2>3. QED BY <2>1, <2>2 DEF WireInv
<1>5. BufferInv
  BY <1>2 DEF BufferInv
<1>6. QED BY <1>3, <1>4, <1>5 DEF FeedInv

(* A frame sent is newer than all before, or sent already. *)
LEMMA Encodes ==
  ASSUME HostInv, NEW n \in {next, parked}, Encoded(n)
  PROVE  /\ HostInv' /\ n \in DOMAIN Frame /\ offered' = offered \cup {n}
         /\ offered' = offered \/ \A k \in offered : k < n
<1>1. n \in DOMAIN Frame /\ n \in Nat /\ offered' = offered \cup {n} /\ high' = n /\ running' = running
  BY FrameIs DEF Encoded
<1>2. Margin \in Nat \ {0, 1}
  BY Parameters
<1>3. \A k \in offered : k \in Nat /\ k <= high
  BY FrameIs DEF HostInv
<1>4. CASE running /\ n = next /\ next' = n + 1 /\ parked' = parked
  <2>1. high <= n /\ parked <= n /\ (n = high => n \in offered)
    BY <1>4 DEF HostInv
  <2>2. HostInv'
    BY <1>1, <1>2, <1>3, <1>4, <2>1 DEF HostInv
  <2>3. offered' = offered \/ \A k \in offered : k < n
    BY <1>1, <1>3, <2>1 DEF HostInv
  <2>4. QED BY <1>1, <2>2, <2>3
<1>5. CASE n = parked /\ n > high /\ parked' = 0 /\ next' = next
  <2>1. HostInv'
    BY <1>1, <1>2, <1>3, <1>5 DEF HostInv
  <2>2. \A k \in offered : k < n
    BY <1>1, <1>3, <1>5 DEF HostInv
  <2>3. QED BY <1>1, <2>1, <2>2
<1>6. QED BY <1>4, <1>5 DEF Encoded

(* A message joins the queue. *)
LEMMA WireAppend ==
  ASSUME WireInv, NEW m \in Message, wire' = Append(wire, m),
         m.kind = "start" => m.n \in DOMAIN Frame, m.kind = "frame" => m.n \in offered',
         offered \subseteq offered', size' = size, last' = last
  PROVE  WireInv'
<1>1. wire \in Seq(Message) /\ Len(wire) \in Nat
  BY DEF WireInv
<1>2. /\ wire' \in Seq(Message) /\ Len(wire') = Len(wire) + 1
      /\ \A k \in 1..Len(wire) : wire'[k] = wire[k]
      /\ wire'[Len(wire) + 1] = m
  BY <1>1
<1>3. \A k \in 1..Len(wire') : k \in 1..Len(wire) \/ k = Len(wire) + 1
  BY <1>1, <1>2
<1>4. QED BY <1>1, <1>2, <1>3 DEF WireInv

(* The message read was sent so. *)
LEMMA WireTail ==
  ASSUME WireInv, wire # <<>>
  PROVE  /\ Head(wire) \in Message
         /\ Head(wire).kind = "start" => Head(wire).n \in DOMAIN Frame
         /\ Head(wire).kind = "frame" => Head(wire).n \in offered
         /\ Tail(wire) \in Seq(Message)
         /\ \A k \in 1..Len(Tail(wire)) :
              /\ Tail(wire)[k].kind = "start" => Tail(wire)[k].n \in DOMAIN Frame
              /\ Tail(wire)[k].kind = "frame" => Tail(wire)[k].n \in offered
<1>1. wire \in Seq(Message) /\ Len(wire) \in Nat \ {0} /\ Head(wire) = wire[1] /\ 1 \in 1..Len(wire)
  BY DEF WireInv
<1>2. /\ Tail(wire) \in Seq(Message) /\ Len(Tail(wire)) = Len(wire) - 1
      /\ \A k \in 1..Len(wire) - 1 : Tail(wire)[k] = wire[k + 1] /\ k + 1 \in 1..Len(wire)
  BY <1>1
<1>3. wire[1] \in Message
  BY <1>1
<1>4. QED BY <1>1, <1>2, <1>3 DEF WireInv

(* The buffer while frames are only offered. *)
LEMMA BufferKept ==
  ASSUME BufferInv, offered \subseteq offered', size' = size, last' = last, buffer' = buffer
  PROVE  BufferInv'
  BY DEF BufferInv, Waiting

(* A frame shown leaves those newer than itself. *)
LEMMA ShownKeeps ==
  ASSUME WireInv, BufferInv, NEW n \in offered, NEW data, ~Late(n), Shown(n, data),
         n \in DOMAIN Frame, \A k \in offered : k \in Nat, offered' = offered, size' = size
  PROVE  /\ BufferInv' /\ last' = n /\ n > last /\ size = TRUE
         /\ picture' = [n |-> n, data |-> data, gap |-> n # last + 1]
<1>1. size = TRUE /\ n > last /\ last \in Nat /\ n \in Nat
  BY FrameIs DEF WireInv, Late
<1>2. last' = n /\ picture' = [n |-> n, data |-> data, gap |-> n > last + 1]
      /\ buffer' = [k \in (IF n > last + 1 THEN NotOlder(n) ELSE DOMAIN buffer) \ {n} |-> buffer[k]]
  BY DEF Shown
<1>3. (n > last + 1) = (n # last + 1)
  BY <1>1
<1>4. ASSUME NEW k \in DOMAIN buffer' PROVE k \in DOMAIN buffer /\ buffer'[k] = buffer[k] /\ k > n
  <2>1. k \in DOMAIN buffer /\ buffer'[k] = buffer[k] /\ k # n /\ (n > last + 1 => k >= n)
    BY <1>2, <1>4 DEF NotOlder
  <2>2. k > last /\ k \in Nat
    BY <2>1 DEF BufferInv
  <2>3. QED BY <1>1, <2>1, <2>2
<1>5. BufferInv'
  BY <1>1, <1>2, <1>4 DEF BufferInv, Waiting
<1>6. QED BY <1>1, <1>2, <1>3, <1>5


(* A packet: its frame waits on, or is shown. *)
LEMMA Arrives ==
  ASSUME HostInv, WireInv, BufferInv, NEW n \in offered, NEW i \in Nat, Packet(n, i)
  PROVE  /\ BufferInv'
         /\ \/ picture' = picture /\ last' = last
            \/ /\ size = TRUE /\ n > last /\ last' = n
               /\ picture' = [n |-> n, data |-> Frame[n], gap |-> n # last + 1]
<1>1. n \in DOMAIN Frame /\ offered' = offered /\ size' = size /\ ~Late(n)
      /\ \A k \in offered : k \in Nat
  BY FrameIs DEF HostInv, Packet, host
<1>2. i < ChunkCount(n) + ParityCount(n)
  BY DEF Packet
<1>3. PICK D \in SUBSET Indices(n), E \in SUBSET Groups(n) :
        Entry(n) = EntryOf(n, D, E) /\ Settled(n, D, E)
  <2>1. CASE n \in DOMAIN buffer
    BY <2>1 DEF BufferInv, Waiting, Entry
  <2>2. CASE n \notin DOMAIN buffer
    <3>1. Entry(n) = EntryOf(n, {}, {}) /\ Settled(n, {}, {})
      BY <2>2, NewEntryIs DEF Entry, Settled
    <3>2. QED BY <3>1
  <2>3. QED BY <2>1, <2>2
<1>4. PICK e : e = PacketEntry(n, Entry(n), i)
  OBVIOUS
<1>5. PICK D1 \in SUBSET Indices(n), E1 \in SUBSET Groups(n) :
        e = EntryOf(n, D1, E1) /\ Settled(n, D1, E1)
  BY <1>1, <1>2, <1>3, <1>4, PacketSettles
<1>6. e.chunks = [k \in D1 |-> Chunk(n, k)] /\ DOMAIN e.chunks = D1
  BY <1>5 DEF EntryOf
<1>7. \/ /\ Cardinality(DOMAIN e.chunks) < ChunkCount(n)
         /\ buffer' = With(buffer, n, e)
         /\ last' = last /\ picture' = picture
      \/ /\ Cardinality(DOMAIN e.chunks) = ChunkCount(n)
         /\ Shown(n, Joined(e.chunks, ChunkCount(n)))
  BY <1>4 DEF Packet, PacketEntry
<1>8. CASE /\ Cardinality(DOMAIN e.chunks) < ChunkCount(n)
           /\ buffer' = With(buffer, n, e)
           /\ last' = last /\ picture' = picture
  <2>1. D1 # Indices(n)
    <3>1. ChunkCount(n) \in Nat
      BY <1>1, ChunkCounts
    <3>2. QED BY <1>1, <1>6, <1>8, <3>1, IndicesFinite
  <2>2. Waiting(n, e)
    BY <1>5, <2>1 DEF Waiting
  <2>3. size = TRUE /\ n > last
    BY <1>1 DEF Late, WireInv
  <2>4. \A k \in DOMAIN buffer' : (k = n /\ buffer'[k] = e) \/ (k \in DOMAIN buffer /\ buffer'[k] = buffer[k])
    BY <1>8 DEF With
  <2>5. BufferInv'
    <3>1. ASSUME NEW k \in DOMAIN buffer'
          PROVE  size' /\ k > last' /\ k \in offered' /\ Waiting(k, buffer'[k])
      <4>1. CASE k = n /\ buffer'[k] = e
        BY <1>1, <1>8, <2>2, <2>3, <4>1
      <4>2. CASE k \in DOMAIN buffer /\ buffer'[k] = buffer[k]
        BY <1>1, <1>8, <4>2 DEF BufferInv
      <4>3. QED BY <2>4, <4>1, <4>2
    <3>2. QED BY <3>1 DEF BufferInv, Waiting
  <2>6. QED BY <1>8, <2>5
<1>9. CASE /\ Cardinality(DOMAIN e.chunks) = ChunkCount(n)
           /\ Shown(n, Joined(e.chunks, ChunkCount(n)))
  <2>1. D1 = Indices(n)
    BY <1>1, <1>6, <1>9, IndicesFinite, FS_Subset
  <2>2. Joined(e.chunks, ChunkCount(n)) = Frame[n]
    BY <1>1, <1>6, <2>1, JoinedFrame
  <2>3. QED BY <1>1, <1>9, <2>2, ShownKeeps
<1>10. QED BY <1>7, <1>8, <1>9


-----------------------------------------------------------------------------
(* The steps. *)

(* The steps of the host that change its numbers. *)
HostSteps == StreamStart \/ StreamEnds \/ SendUdp \/ SendTcp

(* The host starts, ends, or sends: the viewer sees no more than an offer. *)
LEMMA HostStep ==
  ASSUME FeedInv, HostSteps
  PROVE  FeedInv' /\ [Feed!Next]_(Feed!vars)
<1> USE DEF FeedInv
<1>1. Margin \in Nat \ {0, 1} /\ \A k \in offered : k \in Nat /\ k <= high
  BY Parameters, FrameIs DEF HostInv
<1>2. ASSUME wire' = wire, offered \subseteq offered', size' = size, last' = last
      PROVE  WireInv'
  BY <1>2 DEF WireInv
<1>3. CASE StreamStart
  <2>1. PICK m : m = [kind |-> "start", n |-> high + Margin]
    OBVIOUS
  <2>2. /\ ~running /\ high + Margin \in DOMAIN Frame /\ high + Margin \in Nat
        /\ next' = high + Margin /\ running' = TRUE
        /\ high' = high /\ parked' = parked /\ offered' = offered
        /\ size' = size /\ last' = last /\ buffer' = buffer /\ picture' = picture
        /\ wire' = Append(wire, m)
    BY <1>3, <2>1, FrameIs DEF StreamStart, client
  <2>3. HostInv'
    BY <1>1, <2>2 DEF HostInv
  <2>4. m \in Message /\ m.kind = "start" /\ m.n \in DOMAIN Frame
    BY <2>1, <2>2 DEF Message
  <2>5. WireInv'
    BY <2>2, <2>4, WireAppend
  <2>6. BufferInv'
    BY <2>2, BufferKept
  <2>7. UNCHANGED Feed!vars
    BY <2>2 DEF Feed!vars
  <2>8. QED BY <2>3, <2>5, <2>6, <2>7
<1>4. CASE StreamEnds
  <2>1. PICK m : m = [kind |-> "stop", n |-> 0]
    OBVIOUS
  <2>2. /\ running /\ running' = FALSE /\ next' = next /\ parked' \in {0, next}
        /\ high' = high /\ offered' = offered
        /\ size' = size /\ last' = last /\ buffer' = buffer /\ picture' = picture
        /\ wire' = Append(wire, m) \/ wire' = wire
    BY <1>4, <2>1 DEF StreamEnds, client
  <2>3. HostInv'
    <3>1. ~running' /\ running' \in BOOLEAN
      BY <2>2
    <3>2. next \in Nat /\ parked' \in Nat /\ high \in Nat /\ next <= high + Margin
      BY <1>1, <2>2 DEF HostInv
    <3>3. parked' <= high + Margin
      BY <1>1, <2>2, <3>2
    <3>4. QED BY <1>1, <2>2, <3>1, <3>2, <3>3 DEF HostInv
  <2>4. m \in Message /\ m.kind = "stop"
    BY <2>1 DEF Message
  <2>5. WireInv'
    BY <1>2, <2>2, <2>4, WireAppend
  <2>6. BufferInv'
    BY <2>2, BufferKept
  <2>7. UNCHANGED Feed!vars
    BY <2>2 DEF Feed!vars
  <2>8. QED BY <2>3, <2>5, <2>6, <2>7
<1>5. ASSUME NEW n \in {next, parked}, Encoded(n), UNCHANGED <<size, last, buffer, picture>>,
             (wire' = wire) \/ wire' = Append(wire, [kind |-> "frame", n |-> n])
      PROVE  FeedInv' /\ [Feed!Next]_(Feed!vars)
  <2>1. /\ HostInv' /\ n \in DOMAIN Frame /\ n \in Nat /\ offered' = offered \cup {n}
        /\ offered' = offered \/ \A k \in offered : k < n
    BY <1>5, Encodes, FrameIs
  <2>2. PICK m : m = [kind |-> "frame", n |-> n]
    OBVIOUS
  <2>3. m \in Message /\ m.kind = "frame" /\ m.n \in offered'
    BY <2>1, <2>2 DEF Message
  <2>4. WireInv'
    BY <1>2, <1>5, <2>1, <2>2, <2>3, WireAppend
  <2>5. BufferInv'
    BY <1>5, <2>1, BufferKept
  <2>6. CASE offered' = offered
    <3>1. UNCHANGED Feed!vars
      BY <1>5, <2>6 DEF Feed!vars
    <3>2. QED BY <2>1, <2>4, <2>5, <3>1
  <2>7. CASE \A k \in offered : k < n
    <3>1. Feed!Offer
      BY <1>5, <2>1, <2>7 DEF Feed!Offer
    <3>2. QED BY <2>1, <2>4, <2>5, <3>1 DEF Feed!Next
  <2>8. QED BY <2>1, <2>6, <2>7
<1>6. CASE SendUdp
  <2>1. UNCHANGED <<size, last, buffer, picture>> /\ wire' = wire
    BY <1>6 DEF SendUdp, client
  <2>2. \E n \in {next, parked} : Encoded(n)
    BY <1>6 DEF SendUdp
  <2>3. QED BY <1>5, <2>1, <2>2
<1>7. CASE SendTcp
  <2>1. UNCHANGED <<size, last, buffer, picture>>
    BY <1>7 DEF SendTcp, client
  <2>2. \E n \in {next, parked} :
          Encoded(n) /\ ((wire' = wire) \/ wire' = Append(wire, [kind |-> "frame", n |-> n]))
    BY <1>7 DEF SendTcp
  <2>3. QED BY <1>5, <2>1, <2>2
<1>8. QED BY <1>3, <1>4, <1>6, <1>7 DEF HostSteps

(* Every step preserves the invariant and is a step of FrameFeed, or none. *)
LEMMA FeedStep ==
  ASSUME FeedInv, [Next]_vars
  PROVE  FeedInv' /\ [Feed!Next]_(Feed!vars)
<1> USE DEF FeedInv
<1>1. \A k \in offered : k \in Nat /\ k \in DOMAIN Frame
  BY FrameIs DEF HostInv
<1>2. ASSUME UNCHANGED host PROVE HostInv' /\ offered' = offered
  BY <1>2 DEF HostInv, host
<1>3. ASSUME wire' = wire, offered' = offered, size' = size, last' \in Nat
      PROVE  WireInv'
  BY <1>3 DEF WireInv
<1>4. ASSUME UNCHANGED host, wire' = wire, size' = size, last' = last, picture' = picture,
             \A k \in DOMAIN buffer' : k \in DOMAIN buffer /\ buffer'[k] = buffer[k]
      PROVE  FeedInv' /\ [Feed!Next]_(Feed!vars)
  <2>1. last \in Nat /\ HostInv' /\ offered' = offered
    BY <1>2, <1>4 DEF WireInv
  <2>2. WireInv'
    BY <1>3, <1>4, <2>1
  <2>3. BufferInv'
    BY <1>4, <2>1 DEF BufferInv, Waiting
  <2>4. UNCHANGED Feed!vars
    BY <1>4, <2>1 DEF Feed!vars
  <2>5. QED BY <2>1, <2>2, <2>3, <2>4
<1>5. CASE UNCHANGED vars
  <2>1. UNCHANGED host /\ wire' = wire /\ size' = size /\ last' = last /\ picture' = picture /\ buffer' = buffer
    BY <1>5 DEF vars, client
  <2>2. QED BY <1>4, <2>1
<1>6. CASE HostSteps
  BY <1>6, HostStep
<1>7. CASE FrameAck \/ Tick
  <2>1. UNCHANGED host /\ wire' = wire /\ size' = size /\ last' = last /\ picture' = picture /\ buffer' = buffer
    BY <1>7 DEF FrameAck, Tick, client
  <2>2. QED BY <1>4, <2>1
<1>8. ASSUME NEW n \in offered, Cleanup(n) PROVE FeedInv' /\ [Feed!Next]_(Feed!vars)
  <2>1. UNCHANGED host /\ wire' = wire /\ size' = size /\ last' = last /\ picture' = picture /\ buffer' = Without(n)
    BY <1>8 DEF Cleanup
  <2>2. \A k \in DOMAIN buffer' : k \in DOMAIN buffer /\ buffer'[k] = buffer[k]
    BY <2>1 DEF Without
  <2>3. QED BY <1>4, <2>1, <2>2
<1>9. ASSUME NEW n \in offered, NEW i \in Nat, Packet(n, i) PROVE FeedInv' /\ [Feed!Next]_(Feed!vars)
  <2>1. UNCHANGED host /\ wire' = wire /\ size' = size
    BY <1>9 DEF Packet
  <2>2. HostInv' /\ offered' = offered
    BY <1>2, <2>1
  <2>3. /\ BufferInv'
        /\ \/ picture' = picture /\ last' = last
           \/ /\ size = TRUE /\ n > last /\ last' = n
              /\ picture' = [n |-> n, data |-> Frame[n], gap |-> n # last + 1]
    BY <1>9, Arrives
  <2>4. last' \in Nat
    BY <1>1, <2>3 DEF WireInv
  <2>5. WireInv'
    BY <1>3, <2>1, <2>2, <2>4
  <2>6. CASE picture' = picture /\ last' = last
    <3>1. UNCHANGED Feed!vars
      BY <2>1, <2>2, <2>6 DEF Feed!vars
    <3>2. QED BY <2>2, <2>3, <2>5, <3>1
  <2>7. CASE /\ size = TRUE /\ n > last /\ last' = n
             /\ picture' = [n |-> n, data |-> Frame[n], gap |-> n # last + 1]
    <3>1. Feed!Show
      BY <2>1, <2>2, <2>7 DEF Feed!Show
    <3>2. QED BY <2>2, <2>3, <2>5, <3>1 DEF Feed!Next
  <2>8. QED BY <2>3, <2>6, <2>7
<1>10. CASE Read
  <2>1. wire # <<>> /\ wire' = Tail(wire) /\ UNCHANGED host
    BY <1>10 DEF Read
  <2>2. HostInv' /\ offered' = offered
    BY <1>2, <2>1
  <2>3. PICK m : m = Head(wire)
    OBVIOUS
  <2>4. /\ m \in Message
        /\ m.kind = "start" => m.n \in DOMAIN Frame
        /\ m.kind = "frame" => m.n \in offered
    BY <2>1, <2>3, WireTail
  <2>5. ASSUME size' \in BOOLEAN, last' \in Nat PROVE WireInv'
    BY <2>1, <2>2, <2>5, WireTail DEF WireInv
  <2>6. \/ m.kind = "start" /\ OnStart(m.n)
        \/ m.kind = "stop" /\ OnStop
        \/ m.kind = "frame" /\ Deliver(m.n, Frame[m.n]) /\ size' = size
    BY <1>10, <2>3 DEF Read
  <2>7. CASE m.kind = "start" /\ OnStart(m.n)
    <3>1. m.n \in DOMAIN Frame /\ m.n \in Nat \ {0}
      BY <2>4, <2>7, FrameIs
    <3>2. size' = TRUE /\ last' = m.n - 1 /\ buffer' = <<>> /\ picture' = picture
      BY <2>7 DEF OnStart
    <3>3. WireInv'
      BY <2>5, <3>1, <3>2
    <3>4. BufferInv'
      <4>1. DOMAIN buffer' = {}
        BY <3>2
      <4>2. QED BY <4>1 DEF BufferInv
    <3>5. Feed!Begin
      BY <2>2, <3>1, <3>2 DEF Feed!Begin
    <3>6. QED BY <2>2, <3>3, <3>4, <3>5 DEF Feed!Next
  <2>8. CASE m.kind = "stop" /\ OnStop
    <3>1. size' = FALSE /\ last' = 0 /\ buffer' = <<>> /\ picture' = picture
      BY <2>8 DEF OnStop
    <3>2. WireInv'
      BY <2>5, <3>1
    <3>3. BufferInv'
      <4>1. DOMAIN buffer' = {}
        BY <3>1
      <4>2. QED BY <4>1 DEF BufferInv
    <3>4. Feed!End
      BY <2>2, <3>1 DEF Feed!End
    <3>5. QED BY <2>2, <3>2, <3>3, <3>4 DEF Feed!Next
  <2>9. CASE m.kind = "frame" /\ Deliver(m.n, Frame[m.n]) /\ size' = size
    <3>1. PICK n \in offered : n = m.n
      BY <2>4, <2>9
    <3>2. size \in BOOLEAN /\ last \in Nat /\ n \in Nat /\ n \in DOMAIN Frame
      BY <1>1 DEF WireInv
    <3>3. CASE ~Late(n) /\ Shown(n, Frame[n])
      <4>1. /\ BufferInv' /\ last' = n /\ n > last /\ size = TRUE
            /\ picture' = [n |-> n, data |-> Frame[n], gap |-> n # last + 1]
        BY <1>1, <2>2, <2>9, <3>2, <3>3, ShownKeeps
      <4>2. WireInv'
        BY <2>5, <2>9, <3>2, <4>1
      <4>3. Feed!Show
        BY <2>2, <2>9, <4>1 DEF Feed!Show
      <4>4. QED BY <2>2, <4>1, <4>2, <4>3 DEF Feed!Next
    <3>4. CASE UNCHANGED <<last, buffer, picture, acks>>
      <4>1. last' = last /\ buffer' = buffer /\ picture' = picture
        BY <3>4
      <4>2. BufferInv'
        BY <2>2, <2>9, <4>1, BufferKept
      <4>3. WireInv'
        BY <2>5, <2>9, <3>2, <4>1
      <4>4. UNCHANGED Feed!vars
        BY <2>2, <2>9, <4>1 DEF Feed!vars
      <4>5. QED BY <2>2, <4>2, <4>3, <4>4
    <3>5. QED BY <2>9, <3>1, <3>3, <3>4 DEF Deliver
  <2>10. QED BY <2>6, <2>7, <2>8, <2>9
<1>11. ASSUME NEW n \in offered, NEW i \in 0..2 * ChunkCount(n), Packet(n, i)
       PROVE  FeedInv' /\ [Feed!Next]_(Feed!vars)
  <2>1. i \in Nat
    OBVIOUS
  <2>2. QED BY <1>9, <1>11, <2>1
<1>12. QED BY <1>5, <1>6, <1>7, <1>8, <1>10, <1>11 DEF Next, HostSteps

(* The inductive invariant of a monitor's frames on their way. *)
THEOREM FeedHolds == Spec => []FeedInv
<1>1. Init => FeedInv
  BY FeedInvInit
<1>2. FeedInv /\ [Next]_vars => FeedInv'
  BY FeedStep
<1>3. QED BY <1>1, <1>2, PTL DEF Spec

(* Whatever is lost, duplicated or reordered, the client shows the frames    *)
(* the host encoded, bit by bit, in order, each once, and _deliver_frame()   *)
(* tells of every gap.                                                       *)
THEOREM FeedShown == Spec => ShowsTheFeed
<1>1. Init => Feed!Init
  BY DEF Init, Feed!Init
<1>2. FeedInv /\ [Next]_vars => [Feed!Next]_(Feed!vars)
  BY FeedStep
<1>3. QED BY <1>1, <1>2, FeedHolds, PTL DEF Spec, ShowsTheFeed, Feed!Spec

(* What waits in the buffer cannot be rebuilt from what came. *)
LEMMA NoneRebuildable ==
  ASSUME FeedInv, NEW n \in DOMAIN buffer
  PROVE  size /\ n > last /\ n \in offered /\ ~Rebuildable(n)
<1>1. size /\ n > last /\ n \in offered /\ n \in DOMAIN Frame
  BY DEF FeedInv, BufferInv, HostInv
<1>2. PICK D \in SUBSET Indices(n), E \in SUBSET Groups(n) :
        buffer[n] = EntryOf(n, D, E) /\ D # Indices(n) /\ Settled(n, D, E)
  BY DEF FeedInv, BufferInv, Waiting
<1>3. DOMAIN buffer[n].chunks = D /\ DOMAIN buffer[n].parity = E
      /\ (E # {} => buffer[n].groups = ParityCount(n))
  BY <1>2 DEF EntryOf
<1>4. SUFFICES ASSUME Rebuildable(n) PROVE FALSE
  BY <1>1
<1>5. PICK g \in E :
        /\ Cardinality(GroupOf(n, g) \ D) <= 1
        /\ \A h \in Groups(n) \ {g} : GroupOf(n, h) \subseteq D
  BY <1>3, <1>4 DEF Rebuildable, GroupOf, Groups
<1>6. GroupOf(n, g) \subseteq D
  <2>1. IsFiniteSet(GroupOf(n, g) \ D)
    BY <1>1, GroupWithin, FS_Subset DEF GroupOf
  <2>2. Cardinality(GroupOf(n, g) \ D) \in Nat /\ Cardinality(GroupOf(n, g) \ D) # 1
    BY <1>2, <2>1, FS_CardinalityType DEF Settled
  <2>3. Cardinality(GroupOf(n, g) \ D) = 0
    BY <1>5, <2>2
  <2>4. QED BY <2>1, <2>3, FS_EmptySet
<1>7. \A i \in Indices(n) : i \in GroupOf(n, i % ParityCount(n)) /\ i % ParityCount(n) \in Groups(n)
  <2>1. PICK q \in Nat \ {0} : q = ParityCount(n)
    BY <1>1, ChunkCounts
  <2>2. \A i \in Nat : i % q \in 0..q - 1
    BY <2>1
  <2>3. QED BY <2>1, <2>2 DEF Indices, Groups, GroupOf, Group
<1>8. \A i \in Indices(n) : i \in D
  BY <1>5, <1>6, <1>7
<1>9. QED BY <1>2, <1>8

(* No frame that is complete, or that its parity completes, waits in         *)
(* _frame_buffer, and none that is older than the one shown.                 *)
THEOREM NoneHeldBack == Spec => []NothingHeldBack
<1>1. FeedInv => NothingHeldBack
  BY NoneRebuildable DEF NothingHeldBack
<1>2. QED BY <1>1, FeedHolds, PTL
===============================================================================
