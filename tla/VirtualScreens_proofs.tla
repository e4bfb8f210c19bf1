----------------------- MODULE VirtualScreens_proofs -----------------------
(* Theorems about VirtualScreens, for any slots, screens and number of runs. *)
(*                                                                           *)
(* Its invariants follow from one that has a part for each thing the host    *)
(* keeps: RequestInv for the request in progress, RandrInv for X11's         *)
(* monitors, SessionsInv for GNOME's, DarkInv for the main screen and        *)
(* ListInv for the clients' list.                                            *)
EXTENDS VirtualScreens, TLAPS, FiniteSetTheorems, WellFoundedInduction

USE ManagerAssumption, X11Assumption

(* A set of naturals has a least element. *)
LEMMA LeastOf ==
  ASSUME NEW S, S \subseteq Nat, S # {}
  PROVE  \E n \in S : \A k \in S : n <= k
<1>1. PICK n \in S : \A k \in S : <<k, n>> \notin OpToRel(<, Nat)
  BY NatLessThanWellFounded, WFMin
<1>2. \A k \in S : ~(k < n)
  BY <1>1 DEF OpToRel
<1>3. QED BY <1>2

(* A free slot is free. *)
LEMMA LowestIn ==
  ASSUME NEW free, free \subseteq Slots, free # {}
  PROVE  Lowest(free) \in free
  BY LeastOf DEF Lowest

(* Of finitely many screens one reaches furthest. *)
LEMMA Furthest ==
  ASSUME NEW D, IsFiniteSet(D), D # {}, NEW f \in [D -> Nat]
  PROVE  \E n \in D : \A k \in D : f[k] <= f[n]
<1> DEFINE HasMax(T) == \E n \in T : \A k \in T : f[k] <= f[n]
           Bad == {T \in SUBSET D : T # {} /\ ~HasMax(T)}
           Sizes == {Cardinality(T) : T \in Bad}
<1>1. SUFFICES ASSUME D \in Bad PROVE FALSE
  OBVIOUS
<1>2. \A T \in SUBSET D : IsFiniteSet(T) /\ Cardinality(T) \in Nat
  BY FS_Subset, FS_CardinalityType
<1>3. Sizes \subseteq Nat /\ Sizes # {}
  BY <1>1, <1>2
<1>4. PICK least \in Sizes : \A k \in Sizes : least <= k
  <2> HIDE DEF Sizes
  <2> QED BY <1>3, LeastOf
<1>5. PICK T \in Bad : Cardinality(T) = least
  BY <1>4
<1>6. PICK x \in T : TRUE
  BY <1>5
<1>7. T \ {x} \notin Bad
  <2>1. Cardinality(T \ {x}) = Cardinality(T) - 1
    BY <1>2, <1>5, <1>6, FS_RemoveElement
  <2>2. ~(least <= Cardinality(T \ {x}))
    BY <1>2, <1>5, <2>1
  <2>3. T \ {x} \in Bad => Cardinality(T \ {x}) \in Sizes
    OBVIOUS
  <2>4. QED
    <3> HIDE DEF Bad, Sizes
    <3> QED BY <1>4, <2>2, <2>3
<1>8. CASE T \ {x} = {}
  <2>1. \A k \in T : f[k] <= f[x]
    BY <1>5, <1>6, <1>8
  <2>2. QED BY <1>5, <1>6, <2>1
<1>9. CASE T \ {x} # {}
  <2>1. PICK n \in T \ {x} : \A k \in T \ {x} : f[k] <= f[n]
    BY <1>5, <1>7, <1>9
  <2>2. n \in D /\ x \in D /\ f[n] \in Nat /\ f[x] \in Nat /\ \A k \in T : f[k] \in Nat
    BY <1>5, <1>6, <2>1
  <2>3. CASE f[x] <= f[n]
    <3>1. \A k \in T : f[k] <= f[n]
      BY <2>1, <2>3
    <3>2. QED BY <1>5, <2>1, <3>1
  <2>4. CASE ~(f[x] <= f[n])
    <3>1. \A k \in T : f[k] <= f[x]
      BY <2>1, <2>2, <2>4
    <3>2. QED BY <1>5, <1>6, <3>1
  <2>5. QED BY <2>3, <2>4
<1>10. QED BY <1>8, <1>9

Placed == [x : Nat, w : Nat]

(* The right edge is where nothing reaches beyond. *)
LEMMA EdgeBounds ==
  ASSUME NEW ms, DOMAIN ms \subseteq Slots, ms \in [DOMAIN ms -> Placed], NEW least \in Nat
  PROVE  /\ Edge(ms, least) \in Nat /\ least <= Edge(ms, least)
         /\ \A n \in DOMAIN ms : ms[n].x + ms[n].w <= Edge(ms, least)
         /\ \A e \in Nat : least <= e /\ (\A n \in DOMAIN ms : ms[n].x + ms[n].w <= e) => Edge(ms, least) <= e
<1> DEFINE f == [n \in DOMAIN ms |-> ms[n].x + ms[n].w]
           S == {least} \cup {ms[n].x + ms[n].w : n \in DOMAIN ms}
<1>1. f \in [DOMAIN ms -> Nat] /\ S \subseteq Nat
  BY DEF Placed
<1>2. \E x \in S : \A y \in S : x >= y
  <2>1. CASE DOMAIN ms = {}
    BY <2>1
  <2>2. CASE DOMAIN ms # {}
    <3>1. IsFiniteSet(DOMAIN ms)
      BY FS_Subset
    <3>2. \E n \in DOMAIN ms : \A k \in DOMAIN ms : f[k] <= f[n]
      <4> HIDE DEF f
      <4> QED BY <1>1, <2>2, <3>1, Furthest
    <3>3. PICK n \in DOMAIN ms : \A k \in DOMAIN ms : ms[k].x + ms[k].w <= ms[n].x + ms[n].w
      BY <3>2
    <3>4. CASE least <= ms[n].x + ms[n].w
      <4>1. \A y \in S : ms[n].x + ms[n].w >= y
        BY <1>1, <3>3, <3>4
      <4>2. QED BY <4>1
    <3>5. CASE ~(least <= ms[n].x + ms[n].w)
      <4>1. \A y \in S : least >= y
        BY <1>1, <3>3, <3>5
      <4>2. QED BY <4>1
    <3>6. QED BY <3>4, <3>5
  <2>3. QED BY <2>1, <2>2
<1>3. Edge(ms, least) \in S /\ \A y \in S : Edge(ms, least) >= y
  BY <1>2 DEF Edge, Max
<1>4. QED BY <1>1, <1>3

-----------------------------------------------------------------------------
Signals == [signal : {"Closed", "PipeWireStreamAdded"}, session : Sessions]
Setting == {"off", "renew", "light"}

RequestInv ==
  /\ backend \in {"x11", "mutter", "windows"}
  /\ op \in {"idle", "make", "list"} \cup Setting
  /\ op \in Setting => Gnome
  /\ op = "make" => Gnome
  /\ op = "make" <=> making # None
  /\ host \in {"down", "killed"} =>
       op = "idle" /\ ~held /\ active_ = NoScreens /\ g_screens = NoneMade

(* X11: the server's monitors are the host's screens, side by side. *)
RandrInv ==
  /\ physical \in Nat /\ rootWidth \in Nat /\ base_w_ \in Nat /\ relaid \in BOOLEAN
  /\ DOMAIN active_ \subseteq Slots /\ active_ \in [DOMAIN active_ -> Placed]
  /\ DOMAIN monitors \subseteq Slots /\ monitors \in [DOMAIN monitors -> Placed]
  /\ \A n \in DOMAIN active_ : n \in DOMAIN monitors /\ monitors[n] = active_[n]
  /\ host # "killed" => DOMAIN monitors \subseteq DOMAIN active_
  /\ ~X11 => DOMAIN monitors = {}
  /\ \A m, n \in DOMAIN active_ : m # n =>
        active_[m].x + active_[m].w <= active_[n].x \/ active_[n].x + active_[n].w <= active_[m].x
  /\ ~relaid => Edge(active_, 0) <= rootWidth /\ base_w_ <= rootWidth
  /\ Wanted(active_) = base_w_ \/ Wanted(active_) <= MaxWidth
  /\ GrownAsNeeded

(* GNOME: a session the host was told of is a screen's, or the one being *)
(* made, until it ends.                                                  *)
SessionsInv ==
  /\ bus \in BOOLEAN /\ sessions \subseteq Sessions /\ queue \in Seq(Signals)
  /\ g_screens \in [Slots -> Sessions \cup {None}]
  /\ making \in [slot : Slots, session : Sessions] \cup {None}
  /\ making # None => making.slot = slot /\ g_screens[slot] = None
  /\ \A s \in sessions \ orphans :
        (\E n \in Slots : g_screens[n] = s) \/ (making # None /\ making.session = s)
  /\ \A s \in sessions : ~Contains(queue, Closed(s))

(* What was darkened can be lit again, and the host knows that it was. *)
DarkInv ==
  /\ TypeOKScreen /\ held \in BOOLEAN /\ killed \in BOOLEAN
  /\ host \in {"down", "killed"} => saved_gamma = NoneSaved /\ ~dark_ /\ ~curtain
  /\ ~killed => host # "killed"
  /\ X11 /\ ~held => saved_gamma = NoneSaved
  /\ ~Windows /\ ~lost /\ host # "killed" =>
       \A c \in Crtcs : saved_gamma[c] \in {"own", None} /\ (saved_gamma[c] = None => ramp[c] = "own")
  /\ Gnome =>
       /\ dark_ <=> held \/ op = "light"
       /\ op = "renew" => held
       /\ op \in {"off", "light"} => ~held
       /\ resources = "stale" => ramp = AllOwn
       /\ ~lost /\ host # "killed" /\ ~dark_ => ramp = AllOwn
       /\ ~lost => \A c \in Crtcs : ramp[c] = "zero" => c = primary
  /\ Windows => ramp = AllOwn
  /\ curtain => Windows /\ held
  /\ ~killed /\ ~lost /\ backlight = "min" => Gnome /\ dark_ /\ saved_backlight = "own"

(* A screen the clients do not know of is the one being listed. *)
ListInv ==
  host = "up" /\ probed => Active \subseteq told \cup (IF op = "list" THEN {slot} ELSE {})

ScreensInv == RequestInv /\ RandrInv /\ SessionsInv /\ DarkInv /\ ListInv

-----------------------------------------------------------------------------
(* X11. *)

(* fit_screen() makes room, or leaves the screen as it was. *)
LEMMA FitFrame ==
  ASSUME RandrInv, NEW act, DOMAIN act \subseteq Slots, act \in [DOMAIN act -> Placed], Fit(act),
         base_w_' = base_w_, physical' = physical
  PROVE  /\ rootWidth' \in Nat /\ relaid' \in BOOLEAN
         /\ \/ UNCHANGED <<rootWidth, relaid>>
            \/ Edge(act, 0) <= rootWidth' /\ base_w_ <= rootWidth'
         /\ Wanted(act) \in Nat /\ base_w_ <= Wanted(act) /\ Edge(act, 0) <= Wanted(act)
<1>1. base_w_ \in Nat /\ rootWidth \in Nat /\ relaid \in BOOLEAN
  BY DEF RandrInv
<1>2. Wanted(act) \in Nat /\ base_w_ <= Wanted(act)
  BY <1>1, EdgeBounds DEF Wanted
<1>3. Edge(act, 0) <= Wanted(act)
  <2>1. \A n \in DOMAIN act : act[n].x + act[n].w <= Wanted(act)
    BY <1>1, EdgeBounds DEF Wanted
  <2>2. QED BY <1>2, <2>1, EdgeBounds
<1>4. QED BY <1>1, <1>2, <1>3 DEF Fit

(* What fits and needs more than the desktop had gets what it needs. *)
LEMMA FitGrows ==
  ASSUME RandrInv, NEW act, Fit(act), base_w_' = base_w_, physical' = physical, active_' = act,
         Wanted(act) \in Nat, Wanted(act) = base_w_ \/ Wanted(act) <= MaxWidth
  PROVE  GrownAsNeeded' /\ (Wanted(active_)' = base_w_' \/ Wanted(active_)' <= MaxWidth)
<1>1. base_w_ \in Nat /\ physical \in Nat /\ MaxWidth \in Nat
  BY DEF RandrInv
<1>2. Wanted(active_)' = Wanted(act)
  BY DEF Wanted
<1>3. ASSUME physical <= base_w_, Wanted(act) > base_w_ PROVE rootWidth' = Wanted(act)
  <2>1. Wanted(act) \in physical..MaxWidth /\ Wanted(act) # base_w_
    BY <1>1, <1>3
  <2>2. QED BY <2>1 DEF Fit, Fits
<1>4. QED BY <1>2, <1>3 DEF GrownAsNeeded

(* Screens that stay as they are need what they needed. *)
LEMMA GrownStands ==
  ASSUME RandrInv, UNCHANGED <<active_, base_w_>>,
         relaid' \/ Wanted(active_) = base_w_ \/ UNCHANGED <<physical, rootWidth, relaid>>
  PROVE  GrownAsNeeded' /\ (Wanted(active_)' = base_w_' \/ Wanted(active_)' <= MaxWidth)
<1>1. Wanted(active_)' = Wanted(active_) /\ base_w_ \in Nat
  BY DEF Wanted, RandrInv
<1>2. QED BY <1>1 DEF RandrInv, GrownAsNeeded

(* A new monitor goes right of all others, and the screen grows with it. *)
LEMMA CreateRandr ==
  ASSUME RandrInv, X11, host # "killed", UNCHANGED <<backend, host>>, NEW w \in Widths, NEW n \in Slots,
         n \notin DOMAIN active_, X11Create(w, n)
  PROVE  RandrInv'
<1> DEFINE r == [x |-> RightOfAll, w |-> w]
           act == With(active_, n, r)
<1>1. /\ physical \in Nat /\ rootWidth \in Nat /\ base_w_ \in Nat /\ relaid \in BOOLEAN
      /\ DOMAIN active_ \subseteq Slots /\ active_ \in [DOMAIN active_ -> Placed]
      /\ DOMAIN monitors = DOMAIN active_ /\ \A k \in DOMAIN active_ : monitors[k] = active_[k]
      /\ monitors \in [DOMAIN monitors -> Placed]
  BY DEF RandrInv
<1>2. RightOfAll \in Nat /\ \A k \in DOMAIN active_ : active_[k].x + active_[k].w <= RightOfAll
  BY <1>1, EdgeBounds DEF RightOfAll
<1>3. r \in Placed /\ r.x = RightOfAll /\ r.w = w
  BY <1>2 DEF Placed
<1> HIDE DEF r
<1>4. /\ DOMAIN act = DOMAIN active_ \cup {n} /\ act[n] = r
      /\ \A k \in DOMAIN active_ : act[k] = active_[k]
      /\ act \in [DOMAIN act -> Placed]
      /\ DOMAIN act \subseteq Slots
  BY <1>1, <1>3 DEF With
<1>5. UNCHANGED <<physical, base_w_>>
  BY DEF X11Create
<1> HIDE DEF act
<1>6. CASE Fits(act) /\ Fit(act) /\ active_' = act /\ monitors' = With(monitors, n, r)
  <2>1. /\ DOMAIN monitors' = DOMAIN act /\ \A k \in DOMAIN act : monitors'[k] = act[k]
        /\ monitors' \in [DOMAIN monitors' -> Placed]
    BY <1>1, <1>3, <1>4, <1>6 DEF With
  <2>2. \A k, m \in DOMAIN act : m # k =>
          act[m].x + act[m].w <= act[k].x \/ act[k].x + act[k].w <= act[m].x
    BY <1>2, <1>3, <1>4 DEF RandrInv
  <2>3. rootWidth' \in Nat /\ relaid' \in BOOLEAN
        /\ (~relaid' => Edge(act, 0) <= rootWidth' /\ base_w_ <= rootWidth')
    <3>1. CASE Wanted(act) # base_w_
      <4>1. rootWidth' = Wanted(act) /\ relaid' = FALSE
        BY <1>6, <3>1 DEF Fit
      <4>2. QED BY <1>4, <1>5, <1>6, <4>1, FitFrame
    <3>2. CASE Wanted(act) = base_w_
      <4>1. UNCHANGED <<rootWidth, relaid>>
        BY <1>6, <3>2 DEF Fit
      <4>2. Edge(act, 0) <= base_w_ /\ Edge(act, 0) \in Nat
        BY <1>4, <1>5, <1>6, <3>2, FitFrame, EdgeBounds
      <4>3. QED BY <1>1, <4>1, <4>2 DEF RandrInv
    <3>3. QED BY <3>1, <3>2
  <2>4. GrownAsNeeded' /\ (Wanted(active_)' = base_w_' \/ Wanted(active_)' <= MaxWidth)
    <3>1. Wanted(act) \in Nat /\ (Wanted(act) = base_w_ \/ Wanted(act) <= MaxWidth)
      BY <1>1, <1>4, <1>5, <1>6, FitFrame DEF Fits
    <3>2. QED BY <1>5, <1>6, <3>1, FitGrows
  <2>5. QED BY <1>1, <1>4, <1>5, <1>6, <2>1, <2>2, <2>3, <2>4 DEF RandrInv, X11
<1>7. CASE /\ IF Fits(act) /\ Wanted(active_) = base_w_ THEN Fit(act) ELSE Fit(active_)
           /\ UNCHANGED <<active_, monitors>>
  <2>1. /\ rootWidth' \in Nat /\ relaid' \in BOOLEAN
        /\ (~relaid' => Edge(active_, 0) <= rootWidth' /\ base_w_ <= rootWidth')
    <3>1. CASE Fits(act) /\ Wanted(active_) = base_w_ /\ Fit(act)
      <4>1. Edge(active_, 0) <= base_w_ /\ Edge(active_, 0) \in Nat
        <5>1. \A k \in DOMAIN active_ : active_[k].x + active_[k].w <= base_w_
          BY <1>1, <3>1, EdgeBounds DEF Wanted
        <5>2. QED BY <1>1, <5>1, EdgeBounds
      <4>2. /\ rootWidth' \in Nat /\ relaid' \in BOOLEAN
            /\ UNCHANGED <<rootWidth, relaid>> \/ base_w_ <= rootWidth'
        BY <1>4, <1>5, <3>1, FitFrame
      <4>3. QED BY <1>1, <4>1, <4>2 DEF RandrInv
    <3>2. CASE Fit(active_)
      <4>1. /\ rootWidth' \in Nat /\ relaid' \in BOOLEAN
            /\ \/ UNCHANGED <<rootWidth, relaid>>
               \/ Edge(active_, 0) <= rootWidth' /\ base_w_ <= rootWidth'
        BY <1>1, <1>5, <3>2, FitFrame
      <4>2. QED BY <4>1 DEF RandrInv
    <3>3. QED BY <1>7, <3>1, <3>2
  <2>2. GrownAsNeeded' /\ (Wanted(active_)' = base_w_' \/ Wanted(active_)' <= MaxWidth)
    <3>1. CASE Wanted(active_) = base_w_
      BY <1>5, <1>7, <3>1, GrownStands
    <3>2. CASE Fit(active_)
      <4>1. Wanted(active_) \in Nat
        BY <1>1, EdgeBounds DEF Wanted
      <4>2. QED BY <1>5, <1>7, <3>2, <4>1, FitGrows DEF RandrInv
    <3>3. QED BY <1>7, <3>1, <3>2
  <2>3. QED BY <1>1, <1>5, <1>7, <2>1, <2>2 DEF RandrInv, X11
<1>8. QED BY <1>6, <1>7 DEF X11Create, act, r

(* The screen may stay wider than what is left needs. *)
LEMMA RemoveRandr ==
  ASSUME RandrInv, X11, host # "killed", UNCHANGED <<backend, host>>, NEW n, X11Remove(n)
  PROVE  RandrInv'
<1> DEFINE act == Without(active_, n)
<1>1. /\ physical \in Nat /\ rootWidth \in Nat /\ base_w_ \in Nat /\ relaid \in BOOLEAN
      /\ DOMAIN active_ \subseteq Slots /\ active_ \in [DOMAIN active_ -> Placed]
      /\ DOMAIN monitors = DOMAIN active_ /\ \A k \in DOMAIN active_ : monitors[k] = active_[k]
  BY DEF RandrInv
<1>2. /\ DOMAIN act = DOMAIN active_ \ {n} /\ act \in [DOMAIN act -> Placed]
      /\ \A k \in DOMAIN act : act[k] = active_[k]
  BY <1>1 DEF Without, Restrict
<1>3. /\ DOMAIN monitors' = DOMAIN act /\ \A k \in DOMAIN act : monitors'[k] = act[k]
      /\ monitors' \in [DOMAIN monitors' -> Placed]
  BY <1>1, <1>2 DEF X11Remove, DeleteMonitor, Without, Restrict
<1>4. active_' = act /\ Fit(act) /\ UNCHANGED <<physical, base_w_>>
  BY DEF X11Remove
<1> HIDE DEF act
<1>5. Edge(act, 0) \in Nat /\ Edge(active_, 0) \in Nat /\ Edge(act, 0) <= Edge(active_, 0)
  <2>1. Edge(active_, 0) \in Nat /\ \A k \in DOMAIN act : act[k].x + act[k].w <= Edge(active_, 0)
    BY <1>1, <1>2, EdgeBounds
  <2>2. QED BY <1>1, <1>2, <2>1, EdgeBounds
<1>6. /\ rootWidth' \in Nat /\ relaid' \in BOOLEAN
      /\ \/ UNCHANGED <<rootWidth, relaid>>
         \/ Edge(act, 0) <= rootWidth' /\ base_w_ <= rootWidth'
  BY <1>1, <1>2, <1>4, FitFrame
<1>7. ~relaid' => Edge(act, 0) <= rootWidth' /\ base_w_ <= rootWidth'
  BY <1>1, <1>5, <1>6 DEF RandrInv
<1>8. \A k, m \in DOMAIN act : m # k =>
        act[m].x + act[m].w <= act[k].x \/ act[k].x + act[k].w <= act[m].x
  BY <1>2 DEF RandrInv
<1>9. GrownAsNeeded' /\ (Wanted(active_)' = base_w_' \/ Wanted(active_)' <= MaxWidth)
  <2>1. /\ Wanted(act) \in Nat /\ base_w_ <= Wanted(act)
        /\ Wanted(active_) \in Nat /\ base_w_ <= Wanted(active_)
    BY <1>1, <1>2, EdgeBounds DEF Wanted
  <2>2. Wanted(act) <= Wanted(active_)
    <3>1. \A k \in DOMAIN act : act[k].x + act[k].w <= Wanted(active_)
      BY <1>1, <1>2, EdgeBounds DEF Wanted
    <3>2. DOMAIN act \subseteq Slots
      BY <1>1, <1>2
    <3>3. QED BY <1>1, <1>2, <2>1, <3>1, <3>2, EdgeBounds DEF Wanted
  <2>3. Wanted(act) = base_w_ \/ Wanted(act) <= MaxWidth
    BY <1>1, <2>1, <2>2 DEF RandrInv
  <2>4. QED BY <1>4, <2>1, <2>3, FitGrows
<1>10. QED BY <1>1, <1>2, <1>3, <1>4, <1>6, <1>7, <1>8, <1>9 DEF RandrInv, X11

(* Without screens the edge is the least one asked for. *)
LEMMA EdgeOfNone == \A least \in Nat : Edge(NoScreens, least) = least
<1>1. ASSUME NEW least \in Nat PROVE Edge(NoScreens, least) = least
  <2>1. DOMAIN NoScreens = {} /\ NoScreens \in [DOMAIN NoScreens -> Placed]
    BY DEF NoScreens
  <2>2. /\ Edge(NoScreens, least) \in Nat /\ least <= Edge(NoScreens, least)
        /\ \A e \in Nat : least <= e /\ (\A n \in DOMAIN NoScreens : NoScreens[n].x + NoScreens[n].w <= e)
                       => Edge(NoScreens, least) <= e
    <3>1. DOMAIN NoScreens \subseteq Slots
      BY <2>1
    <3>2. QED BY <2>1, <3>1, EdgeBounds
  <2>3. QED BY <1>1, <2>1, <2>2
<1>2. QED BY <1>1

(* Then nothing is needed but what the desktop had. *)
LEMMA NothingGrown ==
  ASSUME active_' = NoScreens, base_w_' \in Nat
  PROVE  GrownAsNeeded' /\ Wanted(active_)' = base_w_'
<1>1. Wanted(active_)' = base_w_'
  BY EdgeOfNone DEF Wanted
<1>2. QED BY <1>1 DEF GrownAsNeeded

(* What the host leaves to the desktop. *)
LEMMA RandrStands ==
  ASSUME RandrInv, UNCHANGED <<backend, x11Vars>>, host = "killed" => host' = "killed"
  PROVE  RandrInv'
  BY DEF RandrInv, x11Vars, X11, GrownAsNeeded, Wanted

(* The desktop stays the one the host was started on. *)
LEMMA BackendStands == Next => backend' = backend
<1>1. Start \/ Quit \/ QuitRemoves \/ Quitted \/ Kill \/ (\E w \in Widths : Create(w)) => backend' = backend
  BY DEF Start, Quit, QuitRemoves, Quitted, Kill, Create
<1>2. Made \/ ListNew \/ GiveUp \/ (\E n \in Slots : RemoveAsked(n)) => backend' = backend
  BY DEF Made, ListNew, GiveUp, RemoveAsked
<1>3. SwitchOff \/ Renew \/ Light \/ Set \/ Exists => backend' = backend
  BY DEF SwitchOff, Renew, Light, SetOff, Set, Exists
<1>4. Rearranged \/ SessionCloses \/ StreamComes => backend' = backend
  BY DEF Rearranged, SessionCloses, StreamComes
<1>5. QED BY <1>1, <1>2, <1>3, <1>4 DEF Next

(* RandrInv over every step: five of them touch RandR. *)
LEMMA RandrKept ==
  ASSUME RequestInv, RandrInv, Next
  PROVE  RandrInv'
<1>0. backend' = backend
  BY BackendStands
<1>1. ASSUME Start PROVE RandrInv'
  <2>1. CASE X11
    <3>1. /\ base_w_' = rootWidth /\ monitors' = NoScreens /\ relaid' = FALSE /\ active_' = NoScreens
          /\ UNCHANGED <<physical, rootWidth>>
      BY <1>1, <2>1 DEF Start, X11Start, RemoveLeftovers, RequestInv
    <3>2. rootWidth \in Nat /\ physical \in Nat
      BY DEF RandrInv
    <3>3. DOMAIN NoScreens = {} /\ NoScreens \in [DOMAIN NoScreens -> Placed]
      BY DEF NoScreens
    <3>4. Edge(active_', 0) <= rootWidth' /\ base_w_' <= rootWidth'
      <4>1. Edge(NoScreens, 0) = 0
        BY EdgeOfNone
      <4>2. QED BY <3>1, <3>2, <4>1
    <3>5. GrownAsNeeded' /\ Wanted(active_)' = base_w_'
      BY <3>1, <3>2, NothingGrown
    <3>6. QED BY <3>1, <3>2, <3>3, <3>4, <3>5, <2>1, <1>0 DEF RandrInv, X11
  <2>2. CASE ~X11
    <3>1. UNCHANGED x11Vars /\ host \in {"down", "killed"} /\ host' = "up"
      BY <1>1, <2>2 DEF Start
    <3>2. DOMAIN monitors = {}
      BY <2>2 DEF RandrInv
    <3>3. UNCHANGED <<physical, rootWidth, monitors, base_w_, active_, relaid>>
      BY <3>1 DEF x11Vars
    <3>4. GrownAsNeeded' /\ (Wanted(active_)' = base_w_' \/ Wanted(active_)' <= MaxWidth)
      BY <3>3, GrownStands
    <3>5. QED BY <1>0, <3>2, <3>3, <3>4 DEF RandrInv, X11
  <2>3. QED BY <2>1, <2>2
<1>2. ASSUME NEW w \in Widths, Create(w) PROVE RandrInv'
  <2>1. host = "up" /\ host' = host
    BY <1>2 DEF Create, Idle
  <2>2. CASE X11
    <3>1. slot' = Lowest(Slots \ DOMAIN active_) /\ X11Create(w, slot') /\ Slots \ DOMAIN active_ # {}
      BY <1>2, <2>2 DEF Create, Active
    <3>2. slot' \in Slots /\ slot' \notin DOMAIN active_
      BY <3>1, LowestIn
    <3>3. \A n \in Slots : n \notin DOMAIN active_ /\ X11Create(w, n) => RandrInv'
      BY <1>0, <2>1, <2>2, CreateRandr
    <3>4. QED BY <3>1, <3>2, <3>3
  <2>3. CASE ~X11
    BY <1>0, <1>2, <2>1, <2>3, RandrStands DEF Create
  <2>4. QED BY <2>2, <2>3
<1>3. ASSUME GiveUp PROVE RandrInv'
  <2>1. host' = host /\ op = "list" /\ TakeBack
    BY <1>3 DEF GiveUp
  <2>2. host # "killed"
    BY <2>1 DEF RequestInv
  <2>3. (X11 /\ X11Remove(slot)) \/ UNCHANGED x11Vars
    BY <2>1 DEF TakeBack
  <2>4. QED BY <1>0, <2>1, <2>2, <2>3, RemoveRandr, RandrStands
<1>4. ASSUME NEW n, RemoveScreen(n), host # "killed", host' = host PROVE RandrInv'
  BY <1>0, <1>4, RemoveRandr, RandrStands DEF RemoveScreen
<1>5. ASSUME Kill PROVE RandrInv'
  <2>1. /\ host' = "killed" /\ active_' = NoScreens
        /\ UNCHANGED <<physical, rootWidth, monitors, base_w_, relaid>>
    BY <1>5 DEF Kill, X11Killed
  <2>2. DOMAIN NoScreens = {} /\ NoScreens \in [DOMAIN NoScreens -> Placed]
    BY DEF NoScreens
  <2>3. GrownAsNeeded' /\ Wanted(active_)' = base_w_'
    BY <2>1, NothingGrown DEF RandrInv
  <2>4. QED BY <1>0, <2>1, <2>2, <2>3, EdgeOfNone DEF RandrInv, X11
<1>6. ASSUME Rearranged PROVE RandrInv'
  <2>1. host' = host
    BY <1>6 DEF Rearranged, hostVars
  <2>2. ASSUME NEW p \in Layouts, Relayout(p) PROVE RandrInv'
    <3>1. Max({p, rootWidth}) \in Nat
      <4>1. p \in Nat /\ rootWidth \in Nat
        BY <2>2 DEF RandrInv
      <4>2. \E x \in {p, rootWidth} : \A y \in {p, rootWidth} : x >= y
        BY <4>1
      <4>3. QED BY <4>1, <4>2 DEF Max
    <3>2. GrownAsNeeded' /\ (Wanted(active_)' = base_w_' \/ Wanted(active_)' <= MaxWidth)
      BY <2>2, GrownStands DEF Relayout
    <3>3. QED BY <1>0, <2>1, <2>2, <3>1, <3>2 DEF Relayout, RandrInv, X11
  <2>3. UNCHANGED x11Vars \/ \E p \in Layouts : Relayout(p)
    BY <1>6 DEF Rearranged
  <2>4. QED BY <1>0, <2>1, <2>2, <2>3, RandrStands
<1>7. ASSUME UNCHANGED x11Vars, host # "killed" PROVE RandrInv'
  BY <1>0, <1>7, RandrStands
<1>8. CASE Quit \/ Quitted \/ Made \/ ListNew \/ SwitchOff \/ Renew \/ Light \/ Set \/ Exists
  BY <1>7, <1>8 DEF Quit, Quitted, Made, ListNew, SwitchOff, Renew, Light, SetOff, Set, Exists, Idle,
     RequestInv
<1>9. CASE SessionCloses \/ StreamComes
  BY <1>0, <1>9, RandrStands DEF SessionCloses, StreamComes, hostVars
<1>10. CASE QuitRemoves \/ \E n \in Slots : RemoveAsked(n)
  BY <1>4, <1>10 DEF QuitRemoves, RemoveAsked, Idle, hostVars
<1>11. QED BY <1>1, <1>2, <1>3, <1>5, <1>6, <1>8, <1>9, <1>10 DEF Next

-----------------------------------------------------------------------------
(* Requests. *)

(* Exactly one back end is in use. *)
LEMMA OneBackend ==
  ASSUME RequestInv
  PROVE  \/ X11 /\ ~Gnome /\ ~Windows
         \/ Gnome /\ ~X11 /\ ~Windows
         \/ Windows /\ ~X11 /\ ~Gnome
  BY DEF RequestInv, X11, Gnome, Windows

(* RequestInv over every step. *)
LEMMA RequestKept ==
  ASSUME RequestInv, RandrInv, SessionsInv, Next
  PROVE  RequestInv'
<1>0. backend' = backend
  BY BackendStands
<1> USE DEF RequestInv
<1>1. CASE Start
  BY <1>0, <1>1 DEF Start, mutterVars, Setting, Gnome
<1>2. ASSUME NEW w \in Widths, Create(w) PROVE RequestInv'
  <2>1. op = "idle" /\ making = None /\ host' = host /\ host = "up" /\ held' = held
    BY <1>2 DEF Create, Idle
  <2>2. CASE X11
    <3>1. making' = None /\ op' \in {"list", "idle"}
      BY <1>2, <2>1, <2>2 DEF Create, mutterVars
    <3>2. QED BY <1>0, <2>1, <3>1 DEF Setting, Gnome
  <2>3. CASE ~X11
    <3>1. op' = IF making' # None THEN "make" ELSE "idle"
      BY <1>2, <2>3 DEF Create
    <3>2. Gnome
      BY <1>2, <2>3, OneBackend DEF Create
    <3>3. QED BY <1>0, <2>1, <3>1, <3>2 DEF Setting, Gnome
  <2>4. QED BY <2>2, <2>3
<1>3. CASE Made
  <2>1. op = "make" /\ making' = None /\ op' \in {"list", "idle"} /\ UNCHANGED <<host, held>>
    BY <1>3 DEF Made, MutterMade, MutterTimesOut
  <2>2. QED BY <1>0, <2>1 DEF Setting, Gnome
<1>4. CASE ListNew
  <2>1. op = "list" /\ op' = "idle" /\ making' = making /\ UNCHANGED <<host, held>>
    BY <1>4 DEF ListNew, Refresh, Pump, mutterVars
  <2>2. QED BY <1>0, <2>1 DEF Setting, Gnome
<1>5. CASE GiveUp
  <2>1. op = "list" /\ op' = "idle" /\ making' = making /\ UNCHANGED <<host, held>>
    BY <1>5 DEF GiveUp, TakeBack, MutterRemove, mutterVars
  <2>2. QED BY <1>0, <2>1 DEF Setting, Gnome
<1>6. ASSUME NEW n \in Slots, RemoveAsked(n) PROVE RequestInv'
  <2>1. host = "up" /\ making' = making /\ UNCHANGED <<host, op, held>>
    BY <1>6 DEF RemoveAsked, Idle, RemoveScreen, MutterRemove, mutterVars
  <2>2. QED BY <1>0, <2>1 DEF Setting, Gnome
<1>7. CASE SwitchOff \/ Renew \/ Light
  <2>1. op = "idle" /\ host \in {"up", "quitting"} /\ UNCHANGED <<host, making>>
        /\ op' \in {"idle"} \cup Setting /\ (op' \in Setting => Gnome)
    BY <1>7 DEF SwitchOff, Renew, Light, Idle, SetOff, mutterVars, Setting
  <2>2. QED BY <1>0, <2>1 DEF Setting, Gnome
<1>8. CASE Set
  <2>1. op \in Setting /\ op' = "idle" /\ UNCHANGED <<host, making>>
    BY <1>8 DEF Set, mutterVars, Setting
  <2>2. QED BY <1>0, <2>1 DEF Setting, Gnome
<1>9. CASE Quit
  BY <1>0, <1>9 DEF Quit, mutterVars, Setting, Gnome
<1>10. CASE QuitRemoves
  <2>1. host = "quitting" /\ making' = making /\ UNCHANGED <<host, op, held>>
    BY <1>10 DEF QuitRemoves, RemoveScreen, MutterRemove, mutterVars, hostVars
  <2>2. QED BY <1>0, <2>1 DEF Setting, Gnome
<1>11. CASE Quitted
  <2>1. op' = "idle" /\ ~held' /\ making' = None /\ g_screens' = NoneMade /\ host' = "down"
        /\ active_' = active_ /\ Active = {}
    BY <1>11 DEF Quitted, MutterKilled, x11Vars
  <2>2. DOMAIN active_ = {}
    BY <2>1 DEF Active, RandrInv
  <2>3. active_ = NoScreens
    BY <2>2 DEF NoScreens, RandrInv
  <2>4. QED BY <1>0, <2>1, <2>3 DEF Setting, Gnome
<1>12. CASE Kill
  BY <1>0, <1>12 DEF Kill, X11Killed, MutterKilled, Setting, Gnome
<1>13. CASE Exists
  <2>1. host \in {"up", "quitting"} /\ making' = making /\ UNCHANGED <<host, op, held>>
    BY <1>13 DEF Exists, Pump, hostVars
  <2>2. QED BY <1>0, <2>1 DEF Setting, Gnome
<1>14. CASE Rearranged
  <2>1. UNCHANGED <<host, op, held, making, g_screens, active_>>
    BY <1>14 DEF Rearranged, Relayout, mutterVars, hostVars, x11Vars
  <2>2. QED BY <1>0, <2>1 DEF Setting, Gnome
<1>15. CASE SessionCloses \/ StreamComes
  <2>1. UNCHANGED <<host, op, held, making, g_screens, active_>>
    BY <1>15 DEF SessionCloses, StreamComes, CompositorCloses, BusLost, StreamAdded, hostVars, x11Vars
  <2>2. QED BY <1>0, <2>1 DEF Setting, Gnome
<1>16. QED
  BY <1>1, <1>2, <1>3, <1>4, <1>5, <1>6, <1>7, <1>8, <1>9, <1>10, <1>11, <1>12, <1>13, <1>14, <1>15
  DEF Next

-----------------------------------------------------------------------------
(* GNOME's sessions. *)

USE MutterAssumption

(* A signal more is contained, and nothing else. *)
LEMMA ContainsAppend ==
  ASSUME NEW q \in Seq(Signals), NEW e \in Signals
  PROVE  /\ Append(q, e) \in Seq(Signals)
         /\ \A f : Contains(Append(q, e), f) <=> Contains(q, f) \/ e = f
<1>1. Append(q, e) \in Seq(Signals) /\ Len(Append(q, e)) = Len(q) + 1
      /\ Append(q, e)[Len(q) + 1] = e /\ \A i \in 1..Len(q) : Append(q, e)[i] = q[i]
  OBVIOUS
<1>2. Len(q) \in Nat
  OBVIOUS
<1>3. QED BY <1>1, <1>2 DEF Contains

(* What is read last leaves only what came after it. *)
LEMMA ContainsRest ==
  ASSUME NEW q \in Seq(Signals), NEW i \in 1..Len(q)
  PROVE  /\ SubSeq(q, i + 1, Len(q)) \in Seq(Signals)
         /\ \A f : Contains(SubSeq(q, i + 1, Len(q)), f) => Contains(q, f)
<1>1. Len(q) \in Nat /\ i + 1 \in 1..Len(q) + 1
  OBVIOUS
<1>2. /\ Len(SubSeq(q, i + 1, Len(q))) = Len(q) - i
      /\ \A k \in 1..(Len(q) - i) : SubSeq(q, i + 1, Len(q))[k] = q[k + i]
  BY <1>1
<1>3. SubSeq(q, i + 1, Len(q)) \in Seq(Signals)
  BY <1>1
<1>4. QED BY <1>1, <1>2, <1>3 DEF Contains

(* No signal is in an empty queue. *)
LEMMA NothingContained == \A f : ~Contains(<<>>, f)
  BY DEF Contains

(* The end of a session is no other's, and not its stream. *)
LEMMA SignalsDiffer ==
  ASSUME NEW s \in Sessions, NEW t \in Sessions
  PROVE  Closed(s) \in Signals /\ Added(s) \in Signals /\ Closed(s) # Added(t)
         /\ (Closed(s) = Closed(t) => s = t)
  BY DEF Closed, Added, Signals

(* Steps that do not touch the compositor's sessions. *)
LEMMA SessionsStand ==
  ASSUME SessionsInv, UNCHANGED mutterVars, slot' = slot \/ making = None
  PROVE  SessionsInv'
  BY DEF SessionsInv, mutterVars


(* Reading the signals takes away no screen whose session still runs. *)
LEMMA PumpedScreens ==
  ASSUME SessionsInv
  PROVE  /\ Pumped \in [Slots -> Sessions \cup {None}]
         /\ \A n \in Slots : Pumped[n] \in {g_screens[n], None}
         /\ \A n \in Slots : g_screens[n] \in sessions => Pumped[n] = g_screens[n]
<1>1. g_screens \in [Slots -> Sessions \cup {None}] /\ sessions \subseteq Sessions
      /\ \A s \in sessions : ~Contains(queue, Closed(s))
  BY DEF SessionsInv
<1>2. \A n \in Slots : Pumped[n] = g_screens[n] \/ (Pumped[n] = None /\ Contains(queue, Closed(g_screens[n])))
  BY DEF Pumped
<1>3. Pumped \in [Slots -> Sessions \cup {None}]
  BY <1>1 DEF Pumped
<1>4. QED BY <1>1, <1>2, <1>3

(* Closed screens are forgotten, and only those. *)
LEMMA PumpKeeps ==
  ASSUME SessionsInv, Pump
  PROVE  SessionsInv'
<1>1. /\ making = None /\ making' = None /\ g_screens' = Pumped /\ queue' = <<>> /\ bus' = bus /\ sessions' = sessions
  BY DEF Pump
<1>2. queue' \in Seq(Signals) /\ \A s \in sessions' : ~Contains(queue', Closed(s))
  BY <1>1, NothingContained
<1>3. orphans' = orphans /\ \A s \in sessions \ orphans : \E n \in Slots : Pumped[n] = s
  BY <1>1, PumpedScreens DEF SessionsInv, Pump
<1>4. QED BY <1>1, <1>2, <1>3, PumpedScreens DEF SessionsInv

(* create_display() up to Start: the session is that of the screen being made. *)
LEMMA BeginKeeps ==
  ASSUME SessionsInv, NEW n \in Slots, MutterBegin(n), slot' = n
  PROVE  SessionsInv'
<1>1. making = None /\ g_screens' = Reconnected /\ bus' = TRUE /\ queue' = <<>>
  BY DEF MutterBegin
<1>2. /\ Reconnected \in [Slots -> Sessions \cup {None}]
      /\ \A s \in sessions \ orphans : \E k \in Slots : Reconnected[k] = s
  <2>1. \A s \in sessions \ orphans : \E k \in Slots : g_screens[k] = s
    BY <1>1 DEF SessionsInv
  <2>2. g_screens \in [Slots -> Sessions \cup {None}]
    BY DEF SessionsInv
  <2>3. QED BY <2>1, <2>2, PumpedScreens DEF Reconnected
<1>3. queue' \in Seq(Signals) /\ \A s : ~Contains(queue', Closed(s))
  BY <1>1, NothingContained
<1>4. sessions \subseteq Sessions
  BY DEF SessionsInv
<1>5. CASE UNCHANGED <<sessions, making, orphans>>
  BY <1>1, <1>2, <1>3, <1>4, <1>5 DEF SessionsInv
<1>6. CASE /\ Reconnected[n] = None /\ UNCHANGED orphans
           /\ \E s \in Fresh : sessions' = sessions \cup {s} /\ making' = [slot |-> n, session |-> s]
  <2>1. PICK s \in Fresh : sessions' = sessions \cup {s} /\ making' = [slot |-> n, session |-> s]
    BY <1>6
  <2>2. s \in Sessions
    BY DEF Fresh
  <2>3. making' \in [slot : Slots, session : Sessions] /\ making'.slot = n /\ making'.session = s /\ making' # None
    <3>1. making' # None
      BY <1>6, <2>1, <2>2 DEF MutterBegin
    <3>2. QED BY <2>1, <2>2, <3>1
  <2>4. QED BY <1>1, <1>2, <1>3, <1>4, <1>6, <2>1, <2>2, <2>3 DEF SessionsInv
<1>7. CASE SessionUnheard
  <2>1. PICK s \in Fresh : sessions' = sessions \cup {s} /\ orphans' = orphans \cup {s}
    BY <1>7 DEF SessionUnheard
  <2>2. s \in Sessions /\ making' = making
    BY <1>7 DEF Fresh, SessionUnheard
  <2>3. QED BY <1>1, <1>2, <1>3, <1>4, <2>1, <2>2 DEF SessionsInv
<1>8. QED BY <1>5, <1>6, <1>7 DEF MutterBegin

(* Its end: the session is a screen's, or stopped. *)
LEMMA MadeKeeps ==
  ASSUME SessionsInv, MutterMade
  PROVE  SessionsInv'
<1> DEFINE found == CHOOSE i \in DOMAIN queue : queue[i] = Added(making.session)
<1>1. /\ making # None /\ Contains(queue, Added(making.session)) /\ making' = None /\ bus' = bus
      /\ orphans' = orphans /\ queue' = SubSeq(queue, found + 1, Len(queue))
  BY DEF MutterMade
<1>2. /\ making \in [slot : Slots, session : Sessions] /\ making.slot = slot /\ g_screens[slot] = None
      /\ g_screens \in [Slots -> Sessions \cup {None}] /\ sessions \subseteq Sessions /\ queue \in Seq(Signals)
  BY <1>1 DEF SessionsInv
<1>3. found \in 1..Len(queue)
  <2>1. \E i \in DOMAIN queue : queue[i] = Added(making.session)
    BY <1>1, <1>2 DEF Contains
  <2>2. found \in DOMAIN queue
    BY <2>1
  <2>3. QED BY <1>2, <2>2
<1> HIDE DEF found
<1>4. queue' \in Seq(Signals) /\ \A s \in sessions : ~Contains(queue', Closed(s))
  BY <1>1, <1>2, <1>3, ContainsRest DEF SessionsInv
<1>5. CASE g_screens' = [g_screens EXCEPT ![making.slot] = making.session] /\ UNCHANGED sessions
  <2>1. g_screens'[slot] = making.session /\ \A k \in Slots : k # slot => g_screens'[k] = g_screens[k]
    BY <1>2, <1>5
  <2>2. \A s \in sessions \ orphans : \E k \in Slots : g_screens'[k] = s
    <3>1. ASSUME NEW s \in sessions \ orphans PROVE \E k \in Slots : g_screens'[k] = s
      <4>1. CASE s = making.session
        BY <1>2, <2>1, <4>1
      <4>2. CASE s # making.session
        <5>1. PICK k \in Slots : g_screens[k] = s
          BY <4>2 DEF SessionsInv
        <5>2. k # slot
          BY <1>2, <5>1
        <5>3. QED BY <2>1, <5>1, <5>2
      <4>3. QED BY <4>1, <4>2
    <3>2. QED BY <3>1
  <2>3. g_screens' \in [Slots -> Sessions \cup {None}]
    BY <1>2, <1>5
  <2>4. QED BY <1>1, <1>2, <1>4, <1>5, <2>2, <2>3 DEF SessionsInv
<1>6. CASE sessions' = Stopped /\ UNCHANGED g_screens
  <2>1. Stopped \subseteq sessions /\ \A s \in Stopped \ orphans : \E k \in Slots : g_screens[k] = s
    BY DEF Stopped, SessionsInv
  <2>2. QED BY <1>1, <1>2, <1>4, <1>6, <2>1 DEF SessionsInv
<1>7. QED BY <1>5, <1>6 DEF MutterMade

(* The stream did not come: stopped. *)
LEMMA TimeOutKeeps ==
  ASSUME SessionsInv, MutterTimesOut
  PROVE  SessionsInv'
<1>1. /\ queue' = <<>> /\ sessions' = Stopped /\ making' = None
      /\ UNCHANGED <<bus, g_screens, orphans>>
  BY DEF MutterTimesOut
<1>2. Stopped \subseteq sessions /\ \A s \in Stopped \ orphans : \E k \in Slots : g_screens[k] = s
  BY DEF Stopped, SessionsInv
<1>3. queue' \in Seq(Signals) /\ \A s : ~Contains(queue', Closed(s))
  BY <1>1, NothingContained
<1>4. QED BY <1>1, <1>2, <1>3 DEF SessionsInv

(* remove_display() stops the session of the screen it forgets. *)
LEMMA RemoveKeeps ==
  ASSUME SessionsInv, NEW n, MutterRemove(n)
  PROVE  SessionsInv'
<1>1. /\ making = None /\ n \in Slots /\ sessions' = sessions \ {g_screens[n]}
      /\ g_screens' = [g_screens EXCEPT ![n] = None] /\ UNCHANGED <<bus, queue, making, orphans>>
  BY DEF MutterRemove, Used
<1>2. g_screens \in [Slots -> Sessions \cup {None}]
  BY DEF SessionsInv
<1>3. \A s \in sessions' \ orphans : \E k \in Slots : g_screens'[k] = s
  <2>1. ASSUME NEW s \in sessions \ orphans, s # g_screens[n] PROVE \E k \in Slots : g_screens'[k] = s
    <3>1. PICK k \in Slots : g_screens[k] = s
      BY <1>1 DEF SessionsInv
    <3>2. k # n
      BY <2>1, <3>1
    <3>3. QED BY <1>1, <1>2, <3>1, <3>2
  <2>2. QED BY <1>1, <2>1
<1>4. g_screens' \in [Slots -> Sessions \cup {None}]
  BY <1>1, <1>2
<1>5. QED BY <1>1, <1>3, <1>4 DEF SessionsInv

(* With the connection all sessions go. *)
LEMMA KilledKeeps ==
  ASSUME MutterKilled
  PROVE  SessionsInv'
<1>1. bus' = TRUE /\ sessions' = {} /\ queue' = <<>> /\ g_screens' = NoneMade /\ making' = None
  BY DEF MutterKilled
<1>2. g_screens' \in [Slots -> Sessions \cup {None}]
  BY <1>1 DEF NoneMade
<1>3. queue' \in Seq(Signals)
  BY <1>1
<1>4. QED BY <1>1, <1>2, <1>3 DEF SessionsInv

(* Signals are sent for sessions that ended. *)
LEMMA CompositorKeeps ==
  ASSUME SessionsInv, slot' = slot, StreamAdded \/ BusLost \/ \E s \in sessions : CompositorCloses(s)
  PROVE  SessionsInv'
<1>1. queue \in Seq(Signals) /\ sessions \subseteq Sessions
      /\ making \in [slot : Slots, session : Sessions] \cup {None}
      /\ \A s \in sessions : ~Contains(queue, Closed(s))
  BY DEF SessionsInv
<1>2. CASE StreamAdded
  <2>1. /\ making # None /\ queue' = Append(queue, Added(making.session))
        /\ UNCHANGED <<bus, sessions, g_screens, making, orphans>>
    BY <1>2 DEF StreamAdded
  <2>2. making.session \in Sessions
    BY <1>1, <2>1
  <2>3. Added(making.session) \in Signals
    BY <2>2, SignalsDiffer
  <2>4. queue' \in Seq(Signals) /\ \A s \in sessions : ~Contains(queue', Closed(s))
    <3>1. \A s \in sessions : Closed(s) # Added(making.session)
      BY <1>1, <2>2, SignalsDiffer
    <3>2. QED BY <1>1, <2>1, <2>3, <3>1, ContainsAppend
  <2>5. QED BY <2>1, <2>4 DEF SessionsInv
<1>3. CASE BusLost
  BY <1>1, <1>3 DEF BusLost, SessionsInv
<1>4. ASSUME NEW s \in sessions, CompositorCloses(s) PROVE SessionsInv'
  <2>1. /\ sessions' = sessions \ {s} /\ queue' = Append(queue, Closed(s))
        /\ UNCHANGED <<bus, g_screens, making, orphans>>
    BY <1>4 DEF CompositorCloses
  <2>2. s \in Sessions /\ Closed(s) \in Signals
    BY <1>1, SignalsDiffer
  <2>3. queue' \in Seq(Signals) /\ \A t \in sessions' : ~Contains(queue', Closed(t))
    <3>1. \A t \in sessions' : t \in sessions /\ Closed(t) # Closed(s)
      BY <1>1, <2>1, <2>2, SignalsDiffer
    <3>2. QED BY <1>1, <2>1, <2>2, <3>1, ContainsAppend
  <2>4. QED BY <2>1, <2>3 DEF SessionsInv
<1>5. QED BY <1>2, <1>3, <1>4

(* SessionsInv over every step. *)
LEMMA SessionsKept ==
  ASSUME RequestInv, SessionsInv, Next
  PROVE  SessionsInv'
<1>1. CASE Start
  BY <1>1, SessionsStand DEF Start
<1>2. ASSUME NEW w \in Widths, Create(w) PROVE SessionsInv'
  <2>1. making = None
    BY <1>2 DEF Create, Idle, RequestInv
  <2>2. CASE X11
    BY <1>2, <2>1, <2>2, SessionsStand DEF Create
  <2>3. CASE ~X11
    <3>1. /\ slot' = Lowest({n \in Slots : Reconnected[n] = None}) /\ MutterBegin(slot')
          /\ Slots \ Used # {}
      BY <1>2, <2>3 DEF Create, Active
    <3>2. PICK n \in Slots : g_screens[n] = None
      BY <3>1 DEF Used
    <3>3. Reconnected[n] = None
      BY <3>2, PumpedScreens DEF Reconnected
    <3>4. slot' \in Slots
      <4>1. {k \in Slots : Reconnected[k] = None} # {}
        BY <3>3
      <4>2. QED BY <3>1, <4>1, LowestIn
    <3>5. \A k \in Slots : MutterBegin(k) /\ slot' = k => SessionsInv'
      BY BeginKeeps
    <3>6. QED BY <3>1, <3>4, <3>5
  <2>4. QED BY <2>2, <2>3
<1>3. CASE Made
  BY <1>3, MadeKeeps, TimeOutKeeps DEF Made
<1>4. CASE ListNew
  <2>1. slot' = slot /\ (Pump \/ UNCHANGED mutterVars)
    BY <1>4 DEF ListNew, Refresh
  <2>2. QED BY <2>1, PumpKeeps, SessionsStand
<1>5. CASE GiveUp
  <2>1. slot' = slot /\ (MutterRemove(slot) \/ UNCHANGED mutterVars)
    BY <1>5 DEF GiveUp, TakeBack
  <2>2. QED BY <2>1, RemoveKeeps, SessionsStand
<1>6. ASSUME NEW n, RemoveScreen(n), slot' = slot PROVE SessionsInv'
  <2>1. MutterRemove(n) \/ UNCHANGED mutterVars
    BY <1>6 DEF RemoveScreen
  <2>2. QED BY <1>6, <2>1, RemoveKeeps, SessionsStand
<1>7. CASE QuitRemoves \/ \E n \in Slots : RemoveAsked(n)
  BY <1>6, <1>7 DEF QuitRemoves, RemoveAsked, hostVars
<1>8. CASE Quitted \/ Kill
  BY <1>8, KilledKeeps DEF Quitted, Kill
<1>9. CASE Exists
  BY <1>9, PumpKeeps DEF Exists
<1>10. CASE SessionCloses \/ StreamComes
  BY <1>10, CompositorKeeps DEF SessionCloses, StreamComes, hostVars
<1>11. CASE SwitchOff \/ Renew \/ Light \/ Set \/ Quit \/ Rearranged
  BY <1>11, SessionsStand DEF SwitchOff, Renew, Light, SetOff, Set, Quit, Rearranged, hostVars
<1>12. QED
  BY <1>1, <1>2, <1>3, <1>4, <1>5, <1>7, <1>8, <1>9, <1>10, <1>11 DEF Next

-----------------------------------------------------------------------------
(* The main screen. *)

USE MainScreenAssumption

(* All ramps are the monitors' own. *)
LEMMA AllOwnIs ==
  ASSUME NEW r \in [Crtcs -> {"own", "zero"}]
  PROVE  r = AllOwn <=> \A c \in Crtcs : r[c] = "own"
  BY DEF AllOwn

(* Nothing is to be put back. *)
LEMMA NoneSavedIs ==
  ASSUME NEW s \in [Crtcs -> {"own", "zero", None}]
  PROVE  s = NoneSaved <=> \A c \in Crtcs : s[c] = None
  BY DEF NoneSaved

SameRequest == /\ op' = op \/ (op \notin Setting /\ op' \notin Setting)
               /\ host' = host \/ (host = "up" /\ host' = "quitting")
               /\ UNCHANGED <<backend, held, killed>>

(* Steps that leave the main screen alone. *)
LEMMA DarkStands ==
  ASSUME DarkInv, SameRequest, UNCHANGED screenVars
  PROVE  DarkInv'
<1>1. UNCHANGED <<primary, ramp, backlight, saved_gamma, saved_backlight, dark_, resources, curtain, lost>>
  BY DEF screenVars, desk, kept
<1>2. (op' = "light" <=> op = "light") /\ (op' = "renew" <=> op = "renew") /\ (op' = "off" <=> op = "off")
  BY DEF SameRequest, Setting
<1>3. QED BY <1>1, <1>2 DEF DarkInv, TypeOKScreen, SameRequest, X11, Gnome, Windows, NoneSaved, AllOwn

(* A change of monitors puts GNOME's own ramps back. *)
LEMMA DarkMoves ==
  ASSUME DarkInv, RequestInv, SameRequest, Gnome, NEW p \in Crtcs, MonitorsChange(p)
  PROVE  DarkInv'
<1>1. /\ primary' = p /\ ramp' = AllOwn
      /\ resources' = IF resources = "current" THEN "stale" ELSE resources
      /\ UNCHANGED <<backlight, saved_gamma, saved_backlight, dark_, curtain, lost>>
  BY DEF MonitorsChange
<1>2. (op' = "light" <=> op = "light") /\ (op' = "renew" <=> op = "renew") /\ (op' = "off" <=> op = "off")
  BY DEF SameRequest, Setting
<1>3. ramp' \in [Crtcs -> {"own", "zero"}] /\ \A c \in Crtcs : ramp'[c] = "own"
  BY <1>1 DEF AllOwn
<1>4. TypeOKScreen'
  BY <1>1, <1>3 DEF DarkInv, TypeOKScreen
<1>5. /\ host' \in {"down", "killed"} => saved_gamma' = NoneSaved /\ ~dark_' /\ ~curtain'
      /\ ~killed' => host' # "killed"
      /\ X11' /\ ~held' => saved_gamma' = NoneSaved
      /\ Windows' => ramp' = AllOwn
      /\ curtain' => Windows' /\ held'
      /\ ~killed' /\ ~lost' /\ backlight' = "min" => Gnome' /\ dark_' /\ saved_backlight' = "own"
  BY <1>1 DEF DarkInv, SameRequest, X11, Windows, Gnome
<1>6. ~Windows' /\ ~lost' /\ host' # "killed" =>
       \A c \in Crtcs : saved_gamma'[c] \in {"own", None} /\ (saved_gamma'[c] = None => ramp'[c] = "own")
  BY <1>1, <1>3 DEF DarkInv, SameRequest, Windows
<1>7. /\ dark_' <=> held' \/ op' = "light"
      /\ op' = "renew" => held'
      /\ op' \in {"off", "light"} => ~held'
  BY <1>1, <1>2 DEF DarkInv, SameRequest
<1>8. held' \in BOOLEAN /\ killed' \in BOOLEAN
  BY DEF DarkInv, SameRequest
<1>9. AllOwn' = AllOwn /\ NoneSaved' = NoneSaved
  BY DEF AllOwn, NoneSaved
<1>10. QED BY <1>1, <1>3, <1>4, <1>5, <1>6, <1>7, <1>8, <1>9 DEF DarkInv

(* The start relights what a killed host left dark. *)
LEMMA DarkStart ==
  ASSUME DarkInv, RequestInv, Start
  PROVE  DarkInv'
<1>1. /\ host \in {"down", "killed"} /\ host' = "up"
      /\ UNCHANGED <<backend, primary, saved_gamma, saved_backlight, dark_, resources, curtain, op, held, killed>>
  BY DEF Start, kept
<1>2. saved_gamma = NoneSaved /\ ~dark_ /\ ~curtain /\ ~held /\ op = "idle"
  BY <1>1 DEF DarkInv, RequestInv
<1>3. /\ primary \in Crtcs /\ ramp \in [Crtcs -> {"own", "zero"}] /\ backlight \in {"own", "min"}
      /\ lost \in BOOLEAN
  BY DEF DarkInv, TypeOKScreen
<1>4. /\ ramp' \in [Crtcs -> {"own", "zero"}] /\ backlight' \in {"own", "min"} /\ lost' \in BOOLEAN
      /\ lost => lost'
      /\ ~lost' => ramp' = AllOwn
      /\ Windows => ramp' = AllOwn
      /\ backlight' = "min" => backlight = "min"
      /\ resources = "stale" => ramp' = AllOwn
  <2>1. CASE X11
    <3>1. ramp' = AllOwn /\ UNCHANGED <<backlight, lost>>
      BY <2>1 DEF Start, X11Relight
    <3>2. QED BY <1>3, <3>1, <2>1 DEF AllOwn, X11, Windows
  <2>2. CASE Windows
    <3>1. UNCHANGED <<ramp, backlight, lost>> /\ ramp = AllOwn
      BY <2>2 DEF Start, DarkInv
    <3>2. QED BY <1>3, <3>1
  <2>3. CASE Gnome
    <3>1. MutterRelight /\ ~Windows
      BY <2>3 DEF Start, Windows, Gnome
    <3>2. ~lost => \A c \in Crtcs : ramp[c] = "zero" => c = primary
      BY <2>3 DEF DarkInv
    <3>3. resources = "stale" => ramp = AllOwn
      BY <2>3 DEF DarkInv
    <3>4. CASE ramp[primary] = "own" /\ UNCHANGED <<ramp, backlight, lost>>
      <4>1. ~lost => \A c \in Crtcs : ramp[c] = "own"
        BY <1>3, <3>2, <3>4
      <4>2. QED BY <1>3, <3>1, <3>3, <3>4, <4>1, AllOwnIs
    <3>5. CASE /\ ramp[primary] = "zero" /\ UNCHANGED lost
               /\ ramp' = [ramp EXCEPT ![primary] = "own"]
               /\ backlight' = IF primary = Panel THEN "own" ELSE backlight
      <4>1. ramp' \in [Crtcs -> {"own", "zero"}]
        BY <1>3, <3>5
      <4>2. ~lost => \A c \in Crtcs : ramp'[c] = "own"
        BY <1>3, <3>2, <3>5
      <4>3. resources = "stale" => \A c \in Crtcs : ramp'[c] = "own"
        BY <1>3, <3>3, <3>5 DEF AllOwn
      <4>4. QED BY <1>3, <3>1, <3>5, <4>1, <4>2, <4>3, AllOwnIs
    <3>6. CASE lost' = TRUE /\ UNCHANGED <<ramp, backlight>>
      BY <1>3, <3>1, <3>3, <3>6
    <3>7. QED BY <3>1, <3>4, <3>5, <3>6 DEF MutterRelight
  <2>4. QED BY <2>1, <2>2, <2>3, OneBackend
<1>5. TypeOKScreen'
  BY <1>1, <1>4 DEF DarkInv, TypeOKScreen
<1>6. AllOwn' = AllOwn /\ NoneSaved' = NoneSaved
  BY DEF AllOwn, NoneSaved
<1>7. ~lost' => /\ \A c \in Crtcs : saved_gamma'[c] = None
                /\ \A c \in Crtcs : ramp'[c] = "own"
  BY <1>1, <1>2, <1>4 DEF AllOwn, NoneSaved
<1>8. ~killed' /\ ~lost' => backlight' # "min"
  BY <1>1, <1>2, <1>4 DEF DarkInv
<1>9. Gnome' <=> Gnome
  BY <1>1 DEF Gnome
<1>10. (X11' <=> X11) /\ (Windows' <=> Windows)
  BY <1>1 DEF X11, Windows
<1>11. held' \in BOOLEAN /\ killed' \in BOOLEAN
  BY <1>1 DEF DarkInv
<1>12. QED BY <1>1, <1>2, <1>4, <1>5, <1>6, <1>7, <1>8, <1>9, <1>10, <1>11 DEF DarkInv

(* X11: what is zeroed was saved, what was saved is put back. *)
LEMMA DarkX11Set ==
  ASSUME DarkInv, RequestInv, X11, NEW o \in Setting, NEW off \in BOOLEAN, SetOff(o, off),
         op = "idle", host \in {"up", "quitting"}, held \/ off, held' = (off /\ (held \/ X11IsOff)), UNCHANGED killed
  PROVE  DarkInv'
<1>1. ~Gnome /\ ~Windows
  BY OneBackend
<1>2. /\ op' = "idle" /\ X11Set(off) /\ UNCHANGED <<backend, host>>
  BY <1>1 DEF SetOff
<1>3. UNCHANGED <<primary, backlight, curtain, saved_backlight, dark_, resources, lost>>
  BY <1>2 DEF X11Set
<1>4. /\ primary \in Crtcs /\ ramp \in [Crtcs -> {"own", "zero"}]
      /\ saved_gamma \in [Crtcs -> {"own", "zero", None}]
  BY DEF DarkInv, TypeOKScreen
<1>5. ~lost => \A c \in Crtcs : saved_gamma[c] \in {"own", None} /\ (saved_gamma[c] = None => ramp[c] = "own")
  BY <1>1 DEF DarkInv
<1>6. /\ ramp' \in [Crtcs -> {"own", "zero"}]
      /\ saved_gamma' \in [Crtcs -> {"own", "zero", None}]
      /\ ~lost => \A c \in Crtcs : saved_gamma'[c] \in {"own", None} /\ (saved_gamma'[c] = None => ramp'[c] = "own")
      /\ ~off => saved_gamma' = NoneSaved
  <2>1. CASE off
    <3>1. CASE UNCHANGED <<ramp, saved_gamma>>
      BY <1>4, <1>5, <2>1, <3>1
    <3>2. CASE /\ saved_gamma = NoneSaved
               /\ ramp' = [ramp EXCEPT ![primary] = "zero"]
               /\ saved_gamma' = [saved_gamma EXCEPT ![primary] = ramp[primary]]
      <4>1. ~lost => \A c \in Crtcs : ramp[c] = "own"
        BY <1>5, <3>2 DEF NoneSaved
      <4>2. QED BY <1>4, <1>5, <2>1, <3>2, <4>1
    <3>3. QED BY <1>2, <2>1, <3>1, <3>2 DEF X11Set, X11Darken
  <2>2. CASE ~off
    <3>1. /\ ramp' = [c \in Crtcs |-> IF saved_gamma[c] = None THEN ramp[c] ELSE saved_gamma[c]]
          /\ saved_gamma' = NoneSaved
      BY <1>2, <2>2 DEF X11Set, X11Light
    <3>2. saved_gamma' \in [Crtcs -> {"own", "zero", None}] /\ \A c \in Crtcs : saved_gamma'[c] = None
      BY <3>1 DEF NoneSaved
    <3>3. QED BY <1>4, <1>5, <2>2, <3>1, <3>2
  <2>3. QED BY <2>1, <2>2
<1>7. ~held' => saved_gamma' = NoneSaved
  <2>1. CASE off
    <3>1. ~held' => ~held /\ ~X11IsOff
      BY <2>1
    <3>2. QED BY <3>1 DEF X11IsOff
  <2>2. QED BY <1>6, <2>1
<1>8. TypeOKScreen'
  BY <1>3, <1>6 DEF DarkInv, TypeOKScreen
<1>9. held' \in BOOLEAN /\ killed' \in BOOLEAN
  BY DEF DarkInv, X11IsOff
<1>10. X11' /\ ~Gnome' /\ ~Windows'
  BY <1>1, <1>2 DEF X11, Gnome, Windows
<1>11. NoneSaved' = NoneSaved
  BY DEF NoneSaved
<1>12. ~curtain /\ ~(~killed /\ ~lost /\ backlight = "min")
  BY <1>1 DEF DarkInv
<1>13. QED BY <1>2, <1>3, <1>6, <1>7, <1>8, <1>9, <1>10, <1>11, <1>12 DEF DarkInv

(* Windows: the window is up only while the screen is held. *)
LEMMA DarkWindowsSet ==
  ASSUME DarkInv, RequestInv, Windows, NEW o \in Setting, NEW off \in BOOLEAN, SetOff(o, off),
         op = "idle", host \in {"up", "quitting"}, held' = (off /\ (held \/ curtain')), UNCHANGED killed
  PROVE  DarkInv'
<1>1. ~Gnome /\ ~X11
  BY OneBackend
<1>2. /\ op' = "idle" /\ WindowsSet(off) /\ UNCHANGED <<backend, host>>
  BY <1>1 DEF SetOff
<1>3. UNCHANGED <<primary, ramp, backlight, saved_gamma, saved_backlight, dark_, resources, lost>>
  BY <1>2 DEF WindowsSet, desk, kept
<1>4. curtain \in BOOLEAN
  BY DEF DarkInv, TypeOKScreen
<1>5. curtain' \in BOOLEAN /\ (curtain' => held')
  BY <1>2, <1>4 DEF WindowsSet, DarkInv
<1>6. TypeOKScreen'
  BY <1>3, <1>5 DEF DarkInv, TypeOKScreen
<1>7. held' \in BOOLEAN /\ killed' \in BOOLEAN
  BY DEF DarkInv
<1>8. ~X11' /\ ~Gnome' /\ Windows'
  BY <1>1, <1>2 DEF X11, Gnome, Windows
<1>9. NoneSaved' = NoneSaved /\ AllOwn' = AllOwn
  BY DEF NoneSaved, AllOwn
<1>10. ~(~killed /\ ~lost /\ backlight = "min") /\ ramp = AllOwn
  BY <1>1 DEF DarkInv
<1>11. QED BY <1>2, <1>3, <1>5, <1>6, <1>7, <1>8, <1>9, <1>10 DEF DarkInv

(* On GNOME the request begins, or, for a screen not darkened, is over. *)
LEMMA DarkAsk ==
  ASSUME DarkInv, RequestInv, Gnome, NEW o \in Setting, NEW off \in BOOLEAN, SetOff(o, off),
         op = "idle", host \in {"up", "quitting"}, UNCHANGED killed,
         \/ o = "off" /\ off /\ ~held /\ held' = FALSE
         \/ o = "renew" /\ off /\ held /\ held' = TRUE
         \/ o = "light" /\ ~off /\ held /\ held' = FALSE
  PROVE  DarkInv'
<1>1. ~X11 /\ ~Windows
  BY OneBackend
<1>2. dark_ <=> held
  BY DEF DarkInv
<1>3. op' = o /\ MutterAsk(off) /\ UNCHANGED <<backend, host>>
  BY <1>2 DEF SetOff
<1>4. /\ resources' \in {"current", "failed"}
      /\ UNCHANGED <<primary, ramp, backlight, saved_gamma, saved_backlight, dark_, curtain, lost>>
  BY <1>3 DEF MutterAsk, desk
<1>5. TypeOKScreen'
  BY <1>4 DEF DarkInv, TypeOKScreen
<1>6. held' \in BOOLEAN /\ killed' \in BOOLEAN
  BY DEF DarkInv
<1>7. ~X11' /\ Gnome' /\ ~Windows'
  BY <1>1, <1>3 DEF X11, Gnome, Windows
<1>8. NoneSaved' = NoneSaved /\ AllOwn' = AllOwn
  BY DEF NoneSaved, AllOwn
<1>9. dark_' <=> held' \/ op' = "light"
  BY <1>2, <1>3, <1>4
<1>10. ~curtain
  BY <1>1 DEF DarkInv
<1>11. (op' = "renew" => held') /\ (op' \in {"off", "light"} => ~held')
  BY <1>3
<1>12. ~lost /\ host # "killed" => \A c \in Crtcs : saved_gamma[c] \in {"own", None} /\ (saved_gamma[c] = None => ramp[c] = "own")
  BY <1>1 DEF DarkInv
<1>13. /\ ~lost /\ host # "killed" /\ ~dark_ => ramp = AllOwn
       /\ ~lost => \A c \in Crtcs : ramp[c] = "zero" => c = primary
       /\ ~killed /\ ~lost /\ backlight = "min" => dark_ /\ saved_backlight = "own"
  BY DEF DarkInv
<1>14. QED BY <1>3, <1>4, <1>5, <1>6, <1>7, <1>8, <1>9, <1>10, <1>11, <1>12, <1>13 DEF DarkInv

(* The three requests, on each back end. *)
LEMMA DarkSwitched ==
  ASSUME DarkInv, RequestInv, SwitchOff \/ Renew \/ Light
  PROVE  DarkInv'
<1>1. killed' = killed /\ op = "idle" /\ host \in {"up", "quitting"} /\ held \in BOOLEAN
  BY DEF SwitchOff, Renew, Light, Idle, SetOff, DarkInv
<1>2. PICK o \in Setting, off \in BOOLEAN :
        /\ SetOff(o, off)
        /\ \/ /\ o = "off" /\ off = TRUE /\ ~held
              /\ held' = IF X11 THEN X11IsOff ELSE Windows /\ curtain'
           \/ o = "renew" /\ off = TRUE /\ held /\ held' = held
           \/ o = "light" /\ off = FALSE /\ held /\ held' = FALSE
  <2>1. CASE SwitchOff
    <3>1. SetOff("off", TRUE) /\ ~held /\ held' = IF X11 THEN X11IsOff ELSE Windows /\ curtain'
      BY <2>1 DEF SwitchOff
    <3>2. QED BY <3>1 DEF Setting
  <2>2. CASE Renew
    <3>1. SetOff("renew", TRUE) /\ held /\ held' = held
      BY <2>2 DEF Renew
    <3>2. QED BY <3>1 DEF Setting
  <2>3. CASE Light
    <3>1. SetOff("light", FALSE) /\ held /\ held' = FALSE
      BY <2>3 DEF Light
    <3>2. QED BY <3>1 DEF Setting
  <2>4. QED BY <2>1, <2>2, <2>3
<1>3. CASE X11
  <2>1. held \/ off
    BY <1>2
  <2>2. held' = (off /\ (held \/ X11IsOff))
    BY <1>1, <1>2, <1>3 DEF X11IsOff
  <2>3. QED BY <1>1, <1>2, <1>3, <2>1, <2>2, DarkX11Set
<1>4. CASE Windows
  <2>1. ~X11
    BY <1>4, OneBackend
  <2>2. curtain' \in BOOLEAN
    <3>1. WindowsSet(off)
      BY <1>2, <1>4, OneBackend DEF SetOff
    <3>2. QED BY <3>1 DEF WindowsSet, DarkInv, TypeOKScreen
  <2>3. held' = (off /\ (held \/ curtain'))
    BY <1>1, <1>2, <1>4, <2>1, <2>2
  <2>4. QED BY <1>1, <1>2, <1>4, <2>3, DarkWindowsSet
<1>5. CASE Gnome
  <2>1. ~X11 /\ ~Windows
    BY <1>5, OneBackend
  <2>2. \/ o = "off" /\ off /\ ~held /\ held' = FALSE
        \/ o = "renew" /\ off /\ held /\ held' = TRUE
        \/ o = "light" /\ ~off /\ held /\ held' = FALSE
    BY <1>1, <1>2, <2>1
  <2>3. QED BY <1>1, <1>2, <1>5, <2>2, DarkAsk
<1>6. QED BY <1>3, <1>4, <1>5, OneBackend

(* GNOME's second step. *)
LEMMA DarkSet ==
  ASSUME DarkInv, RequestInv, Set
  PROVE  DarkInv'
<1>1. /\ op \in {"off", "renew", "light"} /\ op' = "idle" /\ Gnome /\ ~X11 /\ ~Windows
      /\ MutterSet(op # "light") /\ held' = IF op = "off" THEN dark_' ELSE held
      /\ UNCHANGED <<backend, host, killed>>
  BY OneBackend DEF Set, RequestInv, Setting
<1>2. host # "killed" /\ host \notin {"down", "killed"}
  BY <1>1 DEF RequestInv
<1>3. /\ primary \in Crtcs /\ ramp \in [Crtcs -> {"own", "zero"}] /\ backlight \in {"own", "min"}
      /\ saved_gamma \in [Crtcs -> {"own", "zero", None}] /\ saved_backlight \in {"own", None}
      /\ dark_ \in BOOLEAN /\ lost \in BOOLEAN /\ curtain \in BOOLEAN /\ held \in BOOLEAN /\ killed \in BOOLEAN
  BY DEF DarkInv, TypeOKScreen
<1>4. ~lost => /\ \A c \in Crtcs : saved_gamma[c] \in {"own", None} /\ (saved_gamma[c] = None => ramp[c] = "own")
               /\ \A c \in Crtcs : ramp[c] = "zero" => c = primary
               /\ ~dark_ => \A c \in Crtcs : ramp[c] = "own"
  BY <1>1, <1>2 DEF DarkInv, AllOwn
<1>5. /\ ~curtain
      /\ dark_ <=> held \/ op = "light"
      /\ op = "renew" => held
      /\ op \in {"off", "light"} => ~held
      /\ ~killed /\ ~lost /\ backlight = "min" => dark_ /\ saved_backlight = "own"
      /\ resources = "stale" => \A c \in Crtcs : ramp[c] = "own"
  BY <1>1 DEF DarkInv, AllOwn
<1>6. (X11' <=> X11) /\ (Gnome' <=> Gnome) /\ (Windows' <=> Windows)
  BY <1>1 DEF X11, Gnome, Windows
<1>7. /\ UNCHANGED <<primary, curtain>> /\ resources' = "none"
      /\ ramp' \in [Crtcs -> {"own", "zero"}] /\ backlight' \in {"own", "min"}
      /\ saved_gamma' \in [Crtcs -> {"own", "zero", None}] /\ saved_backlight' \in {"own", None}
      /\ dark_' \in BOOLEAN /\ lost' \in BOOLEAN
      /\ dark_' <=> held'
      /\ ~lost' => /\ \A c \in Crtcs : saved_gamma'[c] \in {"own", None} /\ (saved_gamma'[c] = None => ramp'[c] = "own")
                   /\ \A c \in Crtcs : ramp'[c] = "zero" => c = primary
                   /\ ~dark_' => \A c \in Crtcs : ramp'[c] = "own"
      /\ ~killed /\ ~lost' /\ backlight' = "min" => dark_' /\ saved_backlight' = "own"
  <2>1. CASE op # "light"
    <3>1. MutterDarken
      BY <1>1, <2>1 DEF MutterSet
    <3>2. UNCHANGED <<primary, curtain, lost>> /\ resources' = "none"
      BY <3>1 DEF MutterDarken
    <3>3. /\ Save(primary) \in [Crtcs -> {"own", "zero", None}]
          /\ ~lost => \A c \in Crtcs : /\ Save(primary)[c] \in {"own", None}
                                       /\ Save(primary)[c] = None => ramp[c] = "own"
          /\ ~lost => Save(primary)[primary] = "own"
      BY <1>3, <1>4 DEF Save
    <3>4. CASE UNCHANGED <<ramp, backlight, saved_gamma, saved_backlight, dark_>>
      BY <1>1, <1>3, <1>4, <1>5, <2>1, <3>2, <3>4
    <3>5. CASE saved_gamma' = Save(primary) /\ UNCHANGED <<ramp, backlight, saved_backlight, dark_>>
      BY <1>1, <1>3, <1>4, <1>5, <2>1, <3>2, <3>3, <3>5
    <3>6. CASE /\ saved_gamma' = Save(primary)
               /\ ramp' = [ramp EXCEPT ![primary] = "zero"] /\ dark_' = TRUE
               /\ Dim
      <4>1. ramp' \in [Crtcs -> {"own", "zero"}] /\ \A c \in Crtcs : c # primary => ramp'[c] = ramp[c]
        BY <1>3, <3>6
      <4>2. /\ backlight' \in {"own", "min"} /\ saved_backlight' \in {"own", None}
            /\ ~killed /\ ~lost /\ backlight' = "min" => saved_backlight' = "own"
        BY <1>3, <1>5, <3>6 DEF Dim
      <4>3. dark_' <=> held'
        BY <1>1, <1>5, <2>1, <3>6
      <4>4. ~lost => \A c \in Crtcs : saved_gamma'[c] = None => ramp'[c] = "own"
        <5>1. ASSUME ~lost, NEW c \in Crtcs, saved_gamma'[c] = None PROVE ramp'[c] = "own"
          <6>1. c # primary
            BY <3>3, <3>6, <5>1
          <6>2. QED BY <3>3, <3>6, <4>1, <5>1, <6>1
        <5>2. QED BY <5>1
      <4>5. ~lost => \A c \in Crtcs : ramp'[c] = "zero" => c = primary
        BY <1>4, <4>1
      <4>6. QED BY <1>3, <3>2, <3>3, <3>6, <4>1, <4>2, <4>3, <4>4, <4>5
    <3>7. QED BY <3>1, <3>4, <3>5, <3>6 DEF MutterDarken
  <2>2. CASE op = "light"
    <3>1. MutterLight /\ ~held /\ held' = held
      BY <1>1, <1>5, <2>2 DEF MutterSet
    <3>2. PICK gammaSet \in BOOLEAN, backlightSet \in BOOLEAN :
            /\ ramp' = [c \in Crtcs |-> IF gammaSet /\ saved_gamma[c] # None THEN saved_gamma[c] ELSE ramp[c]]
            /\ backlight' = IF backlightSet /\ saved_backlight # None THEN saved_backlight ELSE backlight
            /\ lost' = (lost \/ ~backlightSet \/ (~gammaSet /\ resources # "stale"))
      BY <3>1 DEF MutterLight
    <3>3. /\ dark_' = FALSE /\ resources' = "none" /\ saved_gamma' = NoneSaved /\ saved_backlight' = None
          /\ UNCHANGED <<primary, curtain>>
      BY <3>1 DEF MutterLight
    <3>4. saved_gamma' \in [Crtcs -> {"own", "zero", None}] /\ \A c \in Crtcs : saved_gamma'[c] = None
      BY <3>3 DEF NoneSaved
    <3>5. ~lost' => \A c \in Crtcs : ramp'[c] = "own"
      BY <1>3, <1>4, <1>5, <3>2
    <3>6. ~killed /\ ~lost' => backlight' # "min"
      BY <1>3, <1>5, <3>2
    <3>7. ramp' \in [Crtcs -> {"own", "zero"}]
      <4>1. CASE lost
        <5>1. \A c \in Crtcs : ramp'[c] \in {"own", "zero"}
          BY <1>3, <3>2
        <5>2. QED BY <3>2, <5>1
      <4>2. CASE ~lost
        <5>1. \A c \in Crtcs : ramp'[c] \in {"own", "zero"}
          BY <1>3, <3>2
        <5>2. QED BY <3>2, <5>1
      <4>3. QED BY <4>1, <4>2
    <3>8. backlight' \in {"own", "min"} /\ lost' \in BOOLEAN
      BY <1>3, <3>2
    <3>9. QED BY <3>1, <3>3, <3>4, <3>5, <3>6, <3>7, <3>8
  <2>3. QED BY <2>1, <2>2
<1>8. TypeOKScreen'
  BY <1>3, <1>7 DEF TypeOKScreen
<1>9. ~lost' /\ ~dark_' => ramp' = AllOwn
  BY <1>7 DEF AllOwn
<1>10. AllOwn' = AllOwn
  BY DEF AllOwn
<1>11. held' \in BOOLEAN /\ killed' \in BOOLEAN
  BY <1>1, <1>3, <1>7
<1>12. QED BY <1>1, <1>2, <1>5, <1>6, <1>7, <1>8, <1>9, <1>10, <1>11 DEF DarkInv

(* The host's end: nothing is remembered. *)
LEMMA DarkEnds ==
  ASSUME DarkInv, RequestInv, Quitted \/ Kill
  PROVE  DarkInv'
<1>1. /\ saved_gamma' = NoneSaved /\ saved_backlight' = None /\ dark_' = FALSE
      /\ resources' = "none" /\ curtain' = FALSE
      /\ UNCHANGED <<backend, primary, backlight, lost>>
  BY DEF Quitted, Kill, ForgetScreen, desk
<1>2. /\ op' = "idle" /\ held' = FALSE
      /\ (Quitted => op = "idle" /\ held = FALSE /\ host' = "down" /\ UNCHANGED <<ramp, killed>> /\ host = "quitting")
      /\ (Kill => host' = "killed" /\ killed' = TRUE)
      /\ ramp' \in {ramp, AllOwn}
  BY DEF Quitted, Kill, desk, DarkInv
<1>3. TypeOKScreen'
  <2>1. NoneSaved \in [Crtcs -> {"own", "zero", None}] /\ AllOwn \in [Crtcs -> {"own", "zero"}]
    BY DEF NoneSaved, AllOwn
  <2>2. QED BY <1>1, <1>2, <2>1 DEF DarkInv, TypeOKScreen
<1>4. AllOwn' = AllOwn /\ NoneSaved' = NoneSaved
  BY DEF AllOwn, NoneSaved
<1>5. \A c \in Crtcs : saved_gamma'[c] = None
  BY <1>1 DEF NoneSaved
<1>6. (X11' <=> X11) /\ (Gnome' <=> Gnome) /\ (Windows' <=> Windows)
  BY <1>1 DEF X11, Gnome, Windows
<1>7. \A c \in Crtcs : AllOwn[c] = "own"
  BY DEF AllOwn
<1>8. killed' \in BOOLEAN
  BY <1>2 DEF DarkInv
<1>9. ramp \in [Crtcs -> {"own", "zero"}] /\ ramp' \in [Crtcs -> {"own", "zero"}]
  BY <1>2 DEF DarkInv, TypeOKScreen, AllOwn
<1>10. Windows => ramp' = AllOwn
  BY <1>2 DEF DarkInv
<1>11. Gnome /\ ~lost => \A c \in Crtcs : ramp'[c] = "zero" => c = primary
  <2>1. Gnome /\ ~lost => \A c \in Crtcs : ramp[c] = "zero" => c = primary
    BY DEF DarkInv
  <2>2. QED BY <1>2, <1>7, <2>1
<1>12. CASE Quitted
  <2>1. ~Windows /\ ~lost => \A c \in Crtcs : ramp[c] = "own"
    <3>1. CASE X11
      <4>1. saved_gamma = NoneSaved
        BY <1>2, <1>12, <3>1 DEF DarkInv
      <4>2. QED BY <1>2, <1>12, <3>1, <4>1 DEF DarkInv, NoneSaved
    <3>2. CASE Gnome
      BY <1>2, <1>7, <1>12, <3>2 DEF DarkInv
    <3>3. QED BY <3>1, <3>2, OneBackend
  <2>2. ~killed /\ ~lost => backlight # "min"
    BY <1>2, <1>12 DEF DarkInv
  <2>3. Gnome /\ ~lost => ramp = AllOwn
    BY <1>9, <2>1, AllOwnIs, OneBackend
  <2>4. /\ ramp' = ramp /\ host' = "down" /\ killed' = killed /\ op' = "idle" /\ ~held' /\ held' = FALSE
        /\ lost' = lost /\ backlight' = backlight /\ primary' = primary
    BY <1>1, <1>2, <1>12
  <2>5. ~Windows' /\ ~lost' =>
          \A c \in Crtcs : saved_gamma'[c] \in {"own", None} /\ (saved_gamma'[c] = None => ramp'[c] = "own")
    BY <1>5, <1>6, <2>1, <2>4
  <2>6. Gnome' =>
          /\ dark_' <=> held' \/ op' = "light"
          /\ op' = "renew" => held'
          /\ op' \in {"off", "light"} => ~held'
          /\ resources' = "stale" => ramp' = AllOwn'
          /\ ~lost' /\ host' # "killed" /\ ~dark_' => ramp' = AllOwn'
          /\ ~lost' => \A c \in Crtcs : ramp'[c] = "zero" => c = primary'
    BY <1>1, <1>4, <1>6, <1>11, <2>3, <2>4
  <2>7. /\ saved_gamma' = NoneSaved' /\ ~dark_' /\ ~curtain' /\ host' # "killed"
        /\ Windows' => ramp' = AllOwn'
        /\ ~(~killed' /\ ~lost' /\ backlight' = "min")
    BY <1>1, <1>4, <1>6, <1>10, <2>2, <2>4
  <2>8. held' \in BOOLEAN
    BY <2>4
  <2>9. QED BY <1>3, <1>8, <2>5, <2>6, <2>7, <2>8 DEF DarkInv
<1>13. CASE Kill
  BY <1>1, <1>2, <1>3, <1>4, <1>6, <1>8, <1>10, <1>11, <1>13 DEF DarkInv
<1>14. QED BY <1>12, <1>13

(* The main monitor becomes another. *)
LEMMA DarkRearranged ==
  ASSUME DarkInv, RequestInv, Rearranged
  PROVE  DarkInv'
<1>1. UNCHANGED <<backend, host, op, held, killed>>
  BY DEF Rearranged, hostVars
<1>2. PICK c \in Crtcs :
          IF Gnome THEN MonitorsChange(c)
          ELSE primary' = c /\ UNCHANGED <<ramp, backlight, kept, curtain, lost>>
  BY DEF Rearranged
<1>3. CASE Gnome
  BY <1>1, <1>2, <1>3, DarkMoves DEF SameRequest
<1>4. CASE ~Gnome
  <2>1. primary' \in Crtcs /\ UNCHANGED <<ramp, backlight, curtain, lost, saved_gamma, saved_backlight, dark_, resources>>
    BY <1>2, <1>4 DEF kept
  <2>2. ~Gnome' /\ (X11' <=> X11) /\ (Windows' <=> Windows)
    BY <1>1, <1>4 DEF Gnome, X11, Windows
  <2>3. AllOwn' = AllOwn /\ NoneSaved' = NoneSaved
    BY DEF AllOwn, NoneSaved
  <2>4. TypeOKScreen'
    BY <2>1 DEF DarkInv, TypeOKScreen
  <2>5. QED BY <1>1, <1>4, <2>1, <2>2, <2>3, <2>4 DEF DarkInv
<1>5. QED BY <1>3, <1>4

(* DarkInv over every step. *)
LEMMA DarkKept ==
  ASSUME RequestInv, DarkInv, Next
  PROVE  DarkInv'
<1>0. backend' = backend /\ primary \in Crtcs
  BY BackendStands DEF DarkInv, TypeOKScreen
<1>1. ASSUME SameRequest, UNCHANGED screenVars \/ (Gnome /\ MonitorsChange(primary)) PROVE DarkInv'
  BY <1>0, <1>1, DarkStands, DarkMoves
<1>2. CASE Quit \/ ListNew \/ Exists \/ StreamComes \/ QuitRemoves
  BY <1>0, <1>1, <1>2 DEF Quit, ListNew, Exists, StreamComes, QuitRemoves, RemoveScreen, hostVars, SameRequest, Setting
<1>3. ASSUME NEW w \in Widths, Create(w) PROVE DarkInv'
  <2>1. op = "idle" /\ op' \in {"idle", "list", "make"} /\ UNCHANGED <<host, held, killed, screenVars>>
    BY <1>3 DEF Create, Idle
  <2>2. QED BY <1>0, <1>1, <2>1 DEF SameRequest, Setting
<1>4. CASE Made
  <2>1. op = "make" /\ op' \in {"idle", "list"} /\ MonitorsChange(primary) /\ UNCHANGED <<host, held, killed>>
    BY <1>4 DEF Made
  <2>2. Gnome
    BY <2>1 DEF RequestInv
  <2>3. QED BY <1>0, <1>1, <2>1, <2>2 DEF SameRequest, Setting
<1>5. CASE GiveUp
  <2>1. op = "list" /\ op' = "idle" /\ UNCHANGED <<host, held, killed>>
        /\ (UNCHANGED screenVars \/ (Gnome /\ MonitorsChange(primary)))
    BY <1>5 DEF GiveUp
  <2>2. QED BY <1>0, <1>1, <2>1 DEF SameRequest, Setting
<1>6. ASSUME NEW n \in Slots, RemoveAsked(n) PROVE DarkInv'
  <2>1. UNCHANGED <<host, op, held, killed>>
        /\ (UNCHANGED screenVars \/ (Gnome /\ MonitorsChange(primary)))
    BY <1>6 DEF RemoveAsked, RemoveScreen
  <2>2. QED BY <1>0, <1>1, <2>1 DEF SameRequest
<1>7. CASE SessionCloses
  <2>1. UNCHANGED <<host, op, held, killed>> /\ Gnome /\ MonitorsChange(primary)
    BY <1>7 DEF SessionCloses, hostVars
  <2>2. QED BY <1>0, <1>1, <2>1 DEF SameRequest
<1>8. QED
  BY <1>2, <1>3, <1>4, <1>5, <1>6, <1>7, DarkStart, DarkSwitched, DarkSet, DarkEnds, DarkRearranged
  DEF Next

-----------------------------------------------------------------------------
(* The list. *)

(* Steps that add no screen and send no list. *)
LEMMA ListStands ==
  ASSUME ListInv, UNCHANGED <<backend, told, probed>>, host' = "up" => host = "up",
         op' = op \/ op # "list", op # "list" \/ slot' = slot,
         DOMAIN active_' \subseteq DOMAIN active_, Used' \subseteq Used
  PROVE  ListInv'
<1>1. Active' \subseteq Active
  BY DEF Active, X11
<1>2. QED BY <1>1 DEF ListInv

(* Reading signals adds no screen. *)
LEMMA PumpedUsed ==
  ASSUME g_screens' \in {Pumped, Reconnected, g_screens}
  PROVE  Used' \subseteq Used
  BY DEF Used, Pumped, Reconnected

(* A new screen is the one being listed. *)
LEMMA CreateListed ==
  ASSUME RequestInv, ListInv, NEW w \in Widths, Create(w)
  PROVE  ListInv'
<1>1. host = "up" /\ op = "idle" /\ UNCHANGED <<backend, host, told, probed>>
  BY DEF Create, Idle
<1>2. CASE X11
  <2>1. X11Create(w, slot') /\ op' = (IF slot' \in DOMAIN active_' THEN "list" ELSE "idle")
    BY <1>2 DEF Create, IdAfter
  <2>2. active_' = active_ \/ DOMAIN active_' = DOMAIN active_ \cup {slot'}
    BY <2>1 DEF X11Create, With
  <2>3. probed => DOMAIN active_ \subseteq told
    BY <1>1, <1>2 DEF ListInv, Active
  <2>4. probed => DOMAIN active_' \subseteq told \cup (IF op' = "list" THEN {slot'} ELSE {})
    BY <2>1, <2>2, <2>3
  <2>5. QED BY <1>1, <1>2, <2>4 DEF ListInv, Active, X11
<1>3. CASE ~X11
  <2>1. MutterBegin(slot') /\ active_' = active_ /\ op' \in {"make", "idle"}
    BY <1>3 DEF Create, x11Vars
  <2>2. Used' \subseteq Used
    BY <2>1, PumpedUsed DEF MutterBegin
  <2>3. QED BY <1>1, <2>1, <2>2, ListStands
<1>4. QED BY <1>2, <1>3

(* On GNOME it is when its stream came. *)
LEMMA MadeListed ==
  ASSUME RequestInv, SessionsInv, ListInv, Made
  PROVE  ListInv'
<1>1. /\ op = "make" /\ op' = (IF g_screens' # g_screens THEN "list" ELSE "idle") /\ active_' = active_
      /\ UNCHANGED <<backend, host, told, probed, slot>>
  BY DEF Made, x11Vars
<1>2. CASE g_screens' = g_screens
  <2>1. Used' = Used
    BY <1>2 DEF Used
  <2>2. QED BY <1>1, <2>1, ListStands
<1>3. CASE g_screens' # g_screens
  <2>1. making # None /\ g_screens' = [g_screens EXCEPT ![making.slot] = making.session]
    BY <1>3 DEF Made, MutterMade, MutterTimesOut
  <2>2. making.slot = slot
    BY <2>1 DEF SessionsInv
  <2>3. Used' \subseteq Used \cup {slot'}
    BY <1>1, <2>1, <2>2 DEF Used, SessionsInv
  <2>4. Active' \subseteq Active \cup {slot'}
    BY <1>1, <2>3 DEF Active, X11
  <2>5. op' = "list"
    BY <1>1, <1>3
  <2>6. host' = "up" /\ probed' => Active \subseteq told'
    BY <1>1 DEF ListInv
  <2>7. QED BY <2>4, <2>5, <2>6 DEF ListInv
<1>4. QED BY <1>2, <1>3

(* A removed screen is no longer the host's. *)
LEMMA RemovedFrom ==
  ASSUME RandrInv, SessionsInv, backend' = backend, NEW n, n \in Active,
         IF X11 THEN X11Remove(n) /\ UNCHANGED mutterVars ELSE UNCHANGED x11Vars /\ MutterRemove(n)
  PROVE  Active' \subseteq Active \ {n}
<1>1. CASE X11
  <2>1. active_' = Without(active_, n)
    BY <1>1 DEF X11Remove
  <2>2. DOMAIN active_' = DOMAIN active_ \ {n}
    BY <2>1 DEF Without, Restrict
  <2>3. QED BY <1>1, <2>2 DEF Active, X11
<1>2. CASE ~X11
  <2>1. g_screens' = [g_screens EXCEPT ![n] = None] /\ g_screens \in [Slots -> Sessions \cup {None}]
    BY <1>2 DEF MutterRemove, SessionsInv
  <2>2. Used' \subseteq Used \ {n}
    BY <2>1 DEF Used
  <2>3. QED BY <1>2, <2>2 DEF Active, X11
<1>3. QED BY <1>1, <1>2

(* A screen that was not listed is taken back. *)
LEMMA GivenUpListed ==
  ASSUME RandrInv, SessionsInv, ListInv, GiveUp
  PROVE  ListInv'
<1>1. op = "list" /\ op' = "idle" /\ UNCHANGED <<backend, host, told, probed, slot>> /\ TakeBack
  BY DEF GiveUp
<1>2. Active' \subseteq Active \ {slot}
  <2>1. CASE slot \in Active
    <3>1. IF X11 THEN X11Remove(slot) /\ UNCHANGED mutterVars ELSE UNCHANGED x11Vars /\ MutterRemove(slot)
      BY <1>1, <2>1 DEF TakeBack, Active
    <3>2. QED BY <1>1, <2>1, <3>1, RemovedFrom
  <2>2. CASE slot \notin Active
    <3>1. ~X11 /\ UNCHANGED mutterVars
      BY <1>1, <2>2 DEF TakeBack, Active, X11Remove
    <3>2. Used' = Used
      BY <3>1 DEF Used, mutterVars
    <3>3. QED BY <1>1, <2>2, <3>1, <3>2 DEF Active, X11
  <2>3. QED BY <2>1, <2>2
<1>3. QED BY <1>1, <1>2 DEF ListInv

(* After a removal the list is what is left. *)
LEMMA AskedListed ==
  ASSUME RandrInv, SessionsInv, NEW n \in Slots, RemoveAsked(n)
  PROVE  ListInv'
<1>1. /\ n \in Active /\ backend' = backend /\ told' = (IF probed' THEN Active \ {n} ELSE {})
      /\ IF X11 THEN X11Remove(n) /\ UNCHANGED mutterVars ELSE UNCHANGED x11Vars /\ MutterRemove(n)
  BY DEF RemoveAsked, RemoveScreen
<1>2. Active' \subseteq Active \ {n}
  BY <1>1, RemovedFrom
<1>3. QED BY <1>1, <1>2 DEF ListInv

(* ListInv over every step. *)
LEMMA ListKept ==
  ASSUME RequestInv, RandrInv, SessionsInv, ListInv, Next
  PROVE  ListInv'
<1>0. backend' = backend
  BY BackendStands
<1>1. CASE Start
  <2>1. active_ = NoScreens /\ g_screens = NoneMade /\ UNCHANGED <<active_, g_screens>>
    BY <1>1 DEF Start, X11Start, x11Vars, mutterVars, RequestInv
  <2>2. Active' = {}
    BY <2>1 DEF Active, Used, NoScreens, NoneMade
  <2>3. QED BY <2>2 DEF ListInv
<1>2. CASE ListNew
  <2>1. op' = "idle" /\ told' = Listed /\ Refresh /\ UNCHANGED <<monitors, active_, slot>>
    BY <1>2 DEF ListNew, x11Vars
  <2>2. probed' => Active' \subseteq Listed
    BY <1>0, <2>1 DEF Listed, Active, X11, Used, RandrInv
  <2>3. QED BY <2>1, <2>2 DEF ListInv
<1>3. CASE Quit \/ QuitRemoves \/ Quitted \/ Kill
  BY <1>3 DEF Quit, QuitRemoves, Quitted, Kill, hostVars, ListInv
<1>4. CASE SwitchOff \/ Renew \/ Light \/ Set
  <2>1. op # "list" /\ UNCHANGED <<host, told, probed, active_, g_screens>>
    BY <1>4 DEF SwitchOff, Renew, Light, Idle, SetOff, Set, x11Vars, mutterVars
  <2>2. Used' = Used
    BY <2>1 DEF Used
  <2>3. QED BY <1>0, <2>1, <2>2, ListStands
<1>5. CASE Exists \/ Rearranged \/ SessionCloses \/ StreamComes
  <2>1. UNCHANGED <<host, op, told, probed, slot, active_>>
    BY <1>5 DEF Exists, Rearranged, SessionCloses, StreamComes, hostVars, x11Vars, Relayout
  <2>2. Used' \subseteq Used
    <3>1. g_screens' \in {Pumped, g_screens}
      BY <1>5 DEF Exists, Rearranged, SessionCloses, StreamComes, mutterVars, Pump, StreamAdded,
         CompositorCloses, BusLost
    <3>2. QED BY <3>1, PumpedUsed
  <2>3. QED BY <1>0, <2>1, <2>2, ListStands
<1>6. QED
  BY <1>1, <1>2, <1>3, <1>4, <1>5, CreateListed, MadeListed, GivenUpListed, AskedListed DEF Next

-----------------------------------------------------------------------------
(* The invariant holds at first ... *)
LEMMA ScreensInvInit == Init => ScreensInv
<1> SUFFICES ASSUME Init PROVE ScreensInv
  OBVIOUS
<1>1. /\ backend \in Backends /\ host = "down" /\ op = "idle" /\ held = FALSE /\ killed = FALSE
      /\ physical \in Layouts /\ rootWidth = physical /\ monitors = NoScreens
      /\ base_w_ = 0 /\ active_ = NoScreens /\ relaid = FALSE
      /\ bus = TRUE /\ sessions = {} /\ queue = <<>> /\ g_screens = NoneMade /\ making = None
  BY DEF Init, InitX11, InitMutter
<1>2. RequestInv
  BY <1>1, BackendsAssumption DEF RequestInv, Setting
<1>3. RandrInv
  <2>1. DOMAIN NoScreens = {} /\ NoScreens \in [DOMAIN NoScreens -> Placed]
    BY DEF NoScreens
  <2>2. Edge(NoScreens, 0) = 0
    BY EdgeOfNone
  <2>3. physical \in Nat /\ rootWidth \in Nat /\ base_w_ \in Nat /\ relaid \in BOOLEAN
    BY <1>1
  <2>4. Edge(active_, 0) <= rootWidth /\ base_w_ <= rootWidth
    BY <1>1, <2>2, <2>3
  <2>5. Wanted(active_) = base_w_
    BY <1>1, <2>3, EdgeOfNone DEF Wanted
  <2>6. QED BY <1>1, <2>1, <2>3, <2>4, <2>5 DEF RandrInv, GrownAsNeeded
<1>4. SessionsInv
  <2>1. NoneMade \in [Slots -> Sessions \cup {None}] /\ <<>> \in Seq(Signals)
    BY DEF NoneMade
  <2>2. QED BY <1>1, <2>1 DEF SessionsInv
<1>5. DarkInv
  <2>1. /\ primary = Panel /\ ramp = AllOwn /\ backlight = "own" /\ curtain = FALSE
        /\ saved_gamma = NoneSaved /\ saved_backlight = None /\ dark_ = FALSE
        /\ resources = "none" /\ lost = FALSE
    BY DEF Init, InitScreen
  <2>2. TypeOKScreen
    BY <2>1 DEF TypeOKScreen, AllOwn, NoneSaved
  <2>3. \A c \in Crtcs : saved_gamma[c] = None /\ ramp[c] = "own"
    BY <2>1 DEF AllOwn, NoneSaved
  <2>4. QED BY <1>1, <2>1, <2>2, <2>3 DEF DarkInv
<1>6. ListInv
  BY <1>1 DEF ListInv
<1>7. QED BY <1>2, <1>3, <1>4, <1>5, <1>6 DEF ScreensInv

(* ... and every step keeps it. *)
LEMMA ScreensInvKept == ScreensInv /\ [Next]_vars => ScreensInv'
<1>1. ASSUME ScreensInv, Next PROVE ScreensInv'
  BY <1>1, RequestKept, RandrKept, SessionsKept, DarkKept, ListKept DEF ScreensInv
<1>2. ASSUME ScreensInv, UNCHANGED vars PROVE ScreensInv'
  <2>1. UNCHANGED <<backend, screenVars, x11Vars, mutterVars, host, op, slot, told, probed, held, killed>>
    BY <1>2 DEF vars, hostVars
  <2>2. RequestInv' /\ ListInv'
    BY <1>2, <2>1 DEF ScreensInv, RequestInv, Gnome, x11Vars, mutterVars, ListInv, Active, X11, Used
  <2>3. RandrInv' /\ SessionsInv' /\ DarkInv'
    BY <1>2, <2>1, RandrStands, SessionsStand, DarkStands DEF ScreensInv, SameRequest
  <2>4. QED BY <2>2, <2>3 DEF ScreensInv
<1>3. QED BY <1>1, <1>2

(* The inductive invariant holds in every reachable state. *)
THEOREM ScreensHold == Spec => []ScreensInv
  BY ScreensInvInit, ScreensInvKept, PTL DEF Spec

(* No monitor of RandR and no session that the host was told of is left   *)
(* behind when its screen is gone: after calls that failed on the way, a  *)
(* request given up, an orderly exit, and the start that follows a kill   *)
(* (X11VirtualDisplayManager, mutter_virtual.cpp).  The framebuffer is as *)
(* wide as the screens need as long as one needs more than the desktop    *)
(* had.  (The last of them leaves it grown, and a CreateSession that times *)
(* out may leave a session: ShrunkBack and OneSessionPerScreen do not hold.) *)
THEOREM NoneLeft == Spec => []NoneLeftBehind
<1>1. ScreensInv => NoneLeftBehind
  BY DEF ScreensInv, RandrInv, SessionsInv, NoneLeftBehind
<1>2. QED BY <1>1, ScreensHold, PTL

(* The main screen is lit whenever no headset holds it off and no call that   *)
(* should have lit it failed, on every back end, with the monitors changing   *)
(* between GNOME's calls and the host killed at any point (set_primary_off(), *)
(* relight_dark_crtcs()).                                                     *)
THEOREM Lit == Spec => []LitUnlessHeld
<1>1. ScreensInv => LitUnlessHeld
  <2>1. SUFFICES ASSUME ScreensInv, op = "idle", ~held, host # "killed", ~lost
                 PROVE  (\A c \in Crtcs : ramp[c] = "own") /\ (~killed => backlight = "own") /\ ~curtain
    BY DEF LitUnlessHeld
  <2>2. \A c \in Crtcs : ramp[c] = "own"
    <3>1. CASE X11
      <4>1. \A c \in Crtcs : saved_gamma[c] = None
        BY <2>1, <3>1 DEF ScreensInv, DarkInv, NoneSaved
      <4>2. ~Windows
        BY <2>1, <3>1, OneBackend DEF ScreensInv
      <4>3. QED BY <2>1, <4>1, <4>2 DEF ScreensInv, DarkInv
    <3>2. CASE ~X11
      <4>1. ramp = AllOwn
        BY <2>1, <3>2, OneBackend DEF ScreensInv, DarkInv
      <4>2. QED BY <4>1 DEF AllOwn
    <3>3. QED BY <3>1, <3>2
  <2>3. ~killed => backlight = "own"
    BY <2>1 DEF ScreensInv, DarkInv, TypeOKScreen
  <2>4. ~curtain
    BY <2>1 DEF ScreensInv, DarkInv
  <2>5. QED BY <2>2, <2>3, <2>4
<1>2. QED BY <1>1, ScreensHold, PTL

(* Virtual screens never overlap, and the framebuffer the host sized covers *)
(* them all (fit_screen(), create_display() in x11_capture.cpp).            *)
THEOREM Apart == Spec => []ScreensApart
<1>1. ScreensInv => ScreensApart
  BY DEF ScreensInv, RandrInv, ScreensApart
<1>2. QED BY <1>1, ScreensHold, PTL

(* Between requests the clients' list has every screen the host has, if the *)
(* monitors could be read for it (main.cpp, create_virtual and              *)
(* remove_virtual_locked()).                                                *)
THEOREM NoneHidden == Spec => []NoHiddenScreen
<1>1. ScreensInv => NoHiddenScreen
  BY DEF ScreensInv, ListInv, NoHiddenScreen
<1>2. QED BY <1>1, ScreensHold, PTL
=============================================================================
