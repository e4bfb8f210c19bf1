------------------------ MODULE PortalSession_proofs ------------------------
(* Theorems about PortalSession, for any number of captures, of failed starts  *)
(* that condemn a session, and any pauses.                                     *)
EXTENDS PortalSession, TLAPS

(* Whoever creates a session waited for the peace to end, and no attempt's    *)
(* pause cuts it short.                                                       *)
PeaceInv ==
    /\ refused <= throttle
    /\ holder # None => refused = 0

(* Once the user asked to be asked no consent is left to replay, stored or on *)
(* its way to the portal.                                                     *)
ConsentInv ==
    asked => /\ token = "none"
             /\ holder # None => attempt.token = "none"

(* A capture counts no more failures than it had in a row on that session.    *)
StrikesInv ==
    \A m \in Captures :
        /\ cap[m].failures <= strikes[m]
        /\ cap[m].at = "failed" => cap[m].failures < strikes[m]

PortalInv == TypeOK /\ PeaceInv /\ ConsentInv /\ StrikesInv

CapState == [at : {"off", "opening", "on", "failed"}, gen : Names \cup {0},
             failures : 0..MaxFailures - 1]

LEMMA Numbers ==
  /\ MaxFailures \in Nat \ {0} /\ Pause \in Nat \ {0} /\ Peace \in Nat \ {0} /\ Pause < Peace
  /\ MaxAsks \in Nat /\ 0 \in 0..MaxFailures - 1 /\ None \notin Threads /\ 0 \notin Names
<1>1. /\ MaxFailures \in Nat \ {0} /\ Pause \in Nat \ {0} /\ Peace \in Nat \ {0} /\ Pause < Peace
      /\ MaxAsks \in Nat
  BY PortalAssumption
<1>2. 0 \in 0..MaxFailures - 1
  BY ONLY <1>1
<1>3. None \notin Threads /\ 0 \notin Names
  BY PortalAssumption DEF Threads
<1>4. QED BY <1>1, <1>2, <1>3

LEMMA PortalInit == Init => PortalInv
<1> SUFFICES ASSUME Init PROVE PortalInv
  OBVIOUS
<1>1. TypeOK
  <2>1. cap \in [Captures -> CapState]
    BY Numbers DEF Init, CapState
  <2>2. strikes \in [Captures -> 0..MaxFailures]
    BY Numbers DEF Init
  <2>3. throttle \in 0..Peace /\ refused \in 0..Peace /\ asks \in 0..MaxAsks
    BY Numbers DEF Init
  <2>4. QED BY <2>1, <2>2, <2>3 DEF Init, TypeOK, CapState, NoAttempt, Tokens
<1>2. PeaceInv /\ ConsentInv /\ StrikesInv
  BY DEF Init, PeaceInv, ConsentInv, StrikesInv
<1>3. QED BY <1>1, <1>2 DEF PortalInv

(***************************************************************************)
(* Pieces of the invariant that steps share                                *)
(***************************************************************************)
(* What dropping a session leaves of its state.                            *)
SessionType ==
    /\ live \in Names \cup {0} /\ remote \in BOOLEAN /\ shared \in BOOLEAN /\ signal \in BOOLEAN
    /\ live = 0 => ~shared /\ ~signal
    /\ holder # None => live = 0

LEMMA Dropped ==
  ASSUME TypeOK, NEW g \in {0, live}, Drop(g), holder' = holder \/ g = 0
  PROVE  SessionType'
BY DEF TypeOK, SessionType, Drop

LEMMA PumpedIs == Pumped \in {0, live}
BY DEF Pumped

(* The session named last is one nobody remembers.                         *)
LEMMA Named ==
  ASSUME TypeOK
  PROVE  NewName \in Names
<1>1. [m \in Captures |-> cap[m].gen] \in [Captures -> Names \cup {0}]
  BY DEF TypeOK
<1>2. \E g \in Names : \A m \in Captures : g # [n \in Captures |-> cap[n].gen][m]
  BY <1>1, PortalAssumption
<1>3. \E g \in Names : \A m \in Captures : g # cap[m].gen
  BY ONLY <1>2
<1>4. QED BY ONLY <1>3 DEF NewName

(***************************************************************************)
(* The steps that create a session                                         *)
(***************************************************************************)
LEMMA CreateKept ==
  ASSUME PortalInv, NEW t \in Threads, Create(t),
         UNCHANGED <<asks, asked, again, cap, calm, refused, strikes>>,
         asking' \in {"idle", "denied", "removed", "spawned"}
  PROVE  PortalInv'
<1>0. TypeOK /\ PeaceInv /\ ConsentInv /\ StrikesInv
  BY DEF PortalInv
<1>1. throttle \in 0..Peace /\ refused \in 0..Peace /\ ~(throttle > 0) /\ throttle' = Pause
      /\ refused' = refused /\ refused <= throttle
  BY <1>0 DEF Create, Throttled, TypeOK, PeaceInv
<1>2. refused = 0 /\ throttle' \in 0..Peace /\ refused' <= throttle'
  BY ONLY <1>1, Numbers
<1>3. SessionType'
  BY <1>0, PumpedIs DEF Create, NoSession, Drop, TypeOK, SessionType
<1>4. holder' \in Threads \cup {None} /\ attempt' \in [rd : BOOLEAN, token : Tokens]
  BY <1>0 DEF Create, NoPortal, TypeOK
<1>5. TypeOK'
  BY <1>0, <1>1, <1>2, <1>3, <1>4 DEF TypeOK, SessionType, Create
<1>6. PeaceInv' /\ StrikesInv'
  BY <1>0, <1>1, <1>2 DEF PeaceInv, StrikesInv
<1>7. asked => (holder' # None => attempt'.token = token)
  BY <1>0 DEF Create, NoPortal
<1>8. ConsentInv'
  BY <1>0, <1>7 DEF ConsentInv, Create
<1>9. QED BY <1>5, <1>6, <1>8 DEF PortalInv

LEMMA GrantedKept ==
  ASSUME PortalInv, holder # None, Granted, UNCHANGED <<cap, asking, asks, calm, strikes>>
  PROVE  PortalInv'
<1>0. TypeOK /\ PeaceInv /\ ConsentInv /\ StrikesInv
  BY DEF PortalInv
<1>1. live' \in Names /\ live' # 0
  BY <1>0, Named, Numbers DEF Granted
<1>2. SessionType'
  BY <1>1 DEF Granted, SessionType
<1>3. token' \in Tokens /\ attempt' \in [rd : BOOLEAN, token : Tokens] /\ asked' \in BOOLEAN
  BY <1>0 DEF Granted, SaveToken, TypeOK, Tokens, NoAttempt
<1>4. TypeOK'
  BY <1>0, <1>2, <1>3 DEF TypeOK, SessionType, Granted
<1>5. PeaceInv' /\ StrikesInv'
  BY <1>0 DEF PeaceInv, StrikesInv, Granted
<1>6. ~asked'
  BY <1>0 DEF Granted, ConsentInv, Dialog, TypeOK
<1>7. QED BY <1>4, <1>5, <1>6 DEF PortalInv, ConsentInv

LEMMA DeclinedKept ==
  ASSUME PortalInv, holder # None, Declined, UNCHANGED <<cap, asking, asks, calm, strikes>>
  PROVE  PortalInv'
<1>0. TypeOK /\ PeaceInv /\ ConsentInv /\ StrikesInv
  BY DEF PortalInv
<1>1. refused \in 0..Peace /\ throttle' = Peace /\ refused' \in {Peace, refused} /\ holder' = None
  BY <1>0 DEF Declined, TypeOK
<1>2. refused' \in 0..Peace /\ throttle' \in 0..Peace /\ refused' <= throttle'
  BY ONLY <1>1, Numbers
<1>3. attempt' \in [rd : BOOLEAN, token : Tokens]
  BY DEF Declined, NoAttempt, Tokens
<1>4. TypeOK'
  BY <1>0, <1>2, <1>3 DEF TypeOK, Declined, session
<1>5. PeaceInv' /\ StrikesInv' /\ ConsentInv'
  BY <1>0, <1>1, <1>2 DEF PeaceInv, StrikesInv, ConsentInv, Declined
<1>6. QED BY <1>4, <1>5 DEF PortalInv

LEMMA FailedKept ==
  ASSUME PortalInv, holder # None, Failed, UNCHANGED <<cap, asking, asks, calm, strikes>>
  PROVE  PortalInv'
<1>0. TypeOK /\ PeaceInv /\ ConsentInv /\ StrikesInv
  BY DEF PortalInv
<1>1. /\ refused = 0 /\ refused' = 0 /\ throttle' \in {throttle, Pause} /\ throttle \in 0..Peace
      /\ holder' \in {holder, None}
  BY <1>0 DEF Failed, PeaceInv, TypeOK
<1>2. throttle' \in 0..Peace /\ refused' \in 0..Peace /\ refused' <= throttle'
  BY ONLY <1>1, Numbers
<1>3. attempt' \in [rd : BOOLEAN, token : Tokens] /\ attempt'.token \in {"none", attempt.token}
  <2>1. attempt \in [rd : BOOLEAN, token : Tokens]
    BY <1>0 DEF TypeOK
  <2>2. attempt' \in {attempt, NoAttempt, [attempt EXCEPT !.token = "none"]}
    BY DEF Failed
  <2>3. NoAttempt \in [rd : BOOLEAN, token : Tokens] /\ NoAttempt.token = "none"
    BY DEF NoAttempt, Tokens
  <2>4. /\ [attempt EXCEPT !.token = "none"] \in [rd : BOOLEAN, token : Tokens]
        /\ [attempt EXCEPT !.token = "none"].token = "none"
    BY ONLY <2>1 DEF Tokens
  <2>5. QED BY ONLY <2>1, <2>2, <2>3, <2>4
<1>4. TypeOK'
  BY <1>0, <1>1, <1>2, <1>3 DEF TypeOK, Failed, session
<1>5. PeaceInv' /\ StrikesInv'
  BY <1>0, <1>1, <1>2 DEF PeaceInv, StrikesInv
<1>6. ConsentInv'
  BY <1>0, <1>1, <1>3 DEF ConsentInv, Failed
<1>7. QED BY <1>4, <1>5, <1>6 DEF PortalInv

(***************************************************************************)
(* The steps of a capture                                                  *)
(***************************************************************************)
(* A capture that moved on: its state and the history of its failures.     *)
LEMMA CaptureMoved ==
  ASSUME PortalInv, NEW m \in Captures, NEW c \in CapState, Set(m, c),
         NEW n \in 0..MaxFailures,
         strikes' = [strikes EXCEPT ![m] = n],
         c.failures <= n, c.at = "failed" => c.failures < n,
         SessionType',
         UNCHANGED <<creation, panel, calm, refused>>
  PROVE  PortalInv'
<1>0. TypeOK /\ PeaceInv /\ ConsentInv /\ StrikesInv
  BY DEF PortalInv
<1>1. cap \in [Captures -> CapState] /\ strikes \in [Captures -> 0..MaxFailures]
  BY <1>0 DEF TypeOK, CapState
<1>2. cap' = [cap EXCEPT ![m] = c]
  BY DEF Set
<1>3. cap' \in [Captures -> CapState] /\ strikes' \in [Captures -> 0..MaxFailures]
  BY ONLY <1>1, <1>2, strikes' = [strikes EXCEPT ![m] = n], n \in 0..MaxFailures, c \in CapState
<1>4. TypeOK'
  BY <1>0, <1>3 DEF TypeOK, SessionType, CapState, creation, panel
<1>5. PeaceInv' /\ ConsentInv'
  BY <1>0 DEF PeaceInv, ConsentInv, creation, panel
<1>6. StrikesInv'
  BY <1>0, <1>1, <1>2 DEF StrikesInv
<1>7. QED BY <1>4, <1>5, <1>6 DEF PortalInv

LEMMA CaptureKept ==
  ASSUME PortalInv, NEW m \in Captures, CaptureStep(m)
  PROVE  PortalInv'
<1>0. TypeOK /\ PeaceInv /\ ConsentInv /\ StrikesInv
  BY DEF PortalInv
<1>1. /\ cap[m] \in CapState /\ strikes[m] \in 0..MaxFailures
      /\ cap[m].failures \in 0..MaxFailures - 1 /\ cap[m].failures <= strikes[m]
      /\ cap[m].at = "failed" => cap[m].failures < strikes[m]
  BY <1>0 DEF TypeOK, CapState, StrikesInv
<1>2. strikes = [strikes EXCEPT ![m] = strikes[m]] /\ 0 \in 0..MaxFailures
  BY <1>0, Numbers DEF TypeOK
<1>3. SessionType
  BY <1>0 DEF TypeOK, SessionType
<1>4. CASE Ensured(m)
  <2> DEFINE c == [at |-> "opening", gen |-> Pumped, failures |-> FailuresOn(m, Pumped)]
  <2> DEFINE n == IF cap[m].gen = Pumped THEN strikes[m] ELSE 0
  <2>1. c \in CapState
    BY <1>1, PumpedIs, Numbers, <1>3 DEF CapState, FailuresOn, SessionType
  <2>2. n \in 0..MaxFailures /\ c.failures <= n /\ c.at # "failed"
    BY <1>1, <1>2 DEF FailuresOn
  <2>3. strikes' = [strikes EXCEPT ![m] = n] /\ Set(m, c)
    BY <1>2, <1>4 DEF Ensured
  <2>4. SessionType' /\ UNCHANGED <<creation, panel, calm, refused>>
    BY <1>3, <1>4 DEF Ensured, SessionType, session, creation
  <2> HIDE DEF c, n
  <2>5. QED BY <2>1, <2>2, <2>3, <2>4, CaptureMoved
<1>5. CASE Creates(m)
  BY <1>5, <1>0, CreateKept DEF Creates, panel, Threads, TypeOK
<1>6. CASE Streams(m)
  <2> DEFINE c == [cap[m] EXCEPT !.at = "on", !.failures = 0]
  <2>0. c \in CapState /\ c.failures = 0 /\ c.at = "on"
    BY <1>1, Numbers DEF CapState
  <2>1. c \in CapState /\ c.failures <= 0 /\ c.at # "failed"
    BY ONLY <2>0
  <2>2. /\ Set(m, c) /\ strikes' = [strikes EXCEPT ![m] = 0]
        /\ SessionType' /\ UNCHANGED <<creation, panel, calm, refused>>
    BY <1>3, <1>6 DEF Streams, SessionType, session, creation
  <2> HIDE DEF c
  <2>3. QED BY <1>2, <2>1, <2>2, CaptureMoved
<1>7. CASE StreamFails(m)
  <2> DEFINE c == [cap[m] EXCEPT !.at = "failed"]
  <2>1. c \in CapState /\ c.failures = cap[m].failures /\ c.at = "failed"
    BY <1>1 DEF CapState
  <2>0. NextStrike(m) \in 0..MaxFailures /\ cap[m].failures < NextStrike(m)
    BY <1>1, Numbers DEF NextStrike
  <2>2. /\ NextStrike(m) \in 0..MaxFailures
        /\ c.failures <= NextStrike(m) /\ c.failures < NextStrike(m)
    BY ONLY <1>1, <2>0, <2>1, Numbers
  <2>3. /\ Set(m, c) /\ strikes' = [strikes EXCEPT ![m] = NextStrike(m)]
        /\ UNCHANGED <<creation, panel, calm, refused>>
    BY <1>7 DEF StreamFails
  <2>4. SessionType'
    BY <1>0, <1>3, <1>7, PumpedIs, Dropped DEF StreamFails, SessionType, session, creation
  <2> HIDE DEF c
  <2>5. QED BY <2>1, <2>2, <2>3, <2>4, CaptureMoved
<1>8. CASE Retry(m)
  <2>1. SessionType' /\ UNCHANGED <<creation, panel, calm, refused, strikes>>
    BY <1>0, <1>3, <1>8, Dropped DEF Retry, Condemn, SessionType, session, creation
  <2>2. cap[m].at = "failed" /\ strikes' = [strikes EXCEPT ![m] = strikes[m]]
    BY <1>2, <1>8 DEF Retry
  <2>3. CASE cap[m].failures + 1 < MaxFailures
    <3> DEFINE c == [cap[m] EXCEPT !.at = "off", !.failures = @ + 1]
    <3>1. Set(m, c)
      BY <1>1, <1>8, <2>3, Numbers DEF Retry
    <3>2. cap[m].failures + 1 \in 0..MaxFailures - 1 /\ cap[m].failures + 1 <= strikes[m]
      BY ONLY <1>1, <2>2, <2>3, Numbers
    <3>3. c \in CapState /\ c.failures = cap[m].failures + 1 /\ c.at = "off"
      BY <1>1, <3>2 DEF CapState
    <3> HIDE DEF c
    <3>4. QED BY <1>1, <2>1, <2>2, <3>1, <3>2, <3>3, CaptureMoved
  <2>4. CASE ~(cap[m].failures + 1 < MaxFailures)
    <3> DEFINE c == [cap[m] EXCEPT !.at = "off", !.failures = 0]
    <3>1. Set(m, c)
      BY <1>1, <1>8, <2>4, Numbers DEF Retry
    <3>2. c \in CapState /\ c.failures = 0 /\ c.at = "off"
      BY <1>1, Numbers DEF CapState
    <3>3. c.failures <= strikes[m] /\ c.at # "failed"
      BY ONLY <1>1, <3>2, Numbers
    <3> HIDE DEF c
    <3>4. QED BY <1>1, <2>1, <2>2, <3>1, <3>2, <3>3, CaptureMoved
  <2>5. QED BY <2>3, <2>4
<1>9. CASE Lost(m)
  <2> DEFINE c == [cap[m] EXCEPT !.at = "off"]
  <2>1. c \in CapState /\ c.failures = cap[m].failures /\ c.at = "off"
    BY <1>1 DEF CapState
  <2>2. /\ Set(m, c) /\ strikes' = [strikes EXCEPT ![m] = strikes[m]]
        /\ SessionType' /\ UNCHANGED <<creation, panel, calm, refused>>
    BY <1>2, <1>3, <1>9 DEF Lost, SessionType, session, creation
  <2> HIDE DEF c
  <2>3. QED BY <1>1, <2>1, <2>2, CaptureMoved
<1>10. QED BY <1>4, <1>5, <1>6, <1>7, <1>8, <1>9 DEF CaptureStep

(***************************************************************************)
(* The other steps, and the invariant                                      *)
(***************************************************************************)
LEMMA PortalKept ==
  ASSUME PortalInv, [Next]_vars
  PROVE  PortalInv'
<1>0. TypeOK /\ PeaceInv /\ ConsentInv /\ StrikesInv
  BY DEF PortalInv
<1>1. CASE Answer
  BY <1>1, GrantedKept, DeclinedKept, FailedKept DEF Answer
<1>2. CASE Notify
  <2>1. SessionType' /\ UNCHANGED <<creation, panel, cap, calm, refused, strikes>>
    BY <1>0, <1>2, PumpedIs, Dropped DEF Notify, creation
  <2>2. QED BY <1>0, <2>1
    DEF TypeOK, SessionType, PeaceInv, ConsentInv, StrikesInv, PortalInv, creation, panel
<1>9. CASE InputDenied
  <2>1. asks' \in 0..MaxAsks
    <3>1. asks \in 0..MaxAsks /\ asks < MaxAsks /\ asks' = asks + 1
      BY <1>0, <1>9 DEF InputDenied, TypeOK
    <3>2. QED BY ONLY <3>1, Numbers
  <2>2. TypeOK'
    BY <1>0, <1>9, <2>1 DEF InputDenied, TypeOK, session, creation
  <2>3. PeaceInv' /\ ConsentInv' /\ StrikesInv'
    BY <1>0, <1>9 DEF InputDenied, PeaceInv, ConsentInv, StrikesInv, creation
  <2>4. QED BY <2>2, <2>3 DEF PortalInv
<1>3. CASE AskAgain
  <2>1. TypeOK'
    BY <1>0, <1>3 DEF AskAgain, TypeOK, session, Forgotten, Tokens
  <2>2. PeaceInv' /\ ConsentInv' /\ StrikesInv'
    BY <1>0, <1>3 DEF AskAgain, PeaceInv, ConsentInv, StrikesInv, Forgotten
  <2>3. QED BY <2>1, <2>2 DEF PortalInv
<1>4. CASE AskLocks
  <2>1. SessionType'
    BY <1>0, <1>4, Dropped DEF AskLocks, SessionType, TypeOK, session
  <2>2. throttle' \in 0..Peace /\ refused' \in 0..Peace /\ refused' <= throttle'
        /\ (holder' # None => refused' = 0)
    BY <1>0, <1>4, Numbers DEF AskLocks, TypeOK, PeaceInv
  <2>3. QED BY <1>0, <1>4, <2>1, <2>2
    DEF AskLocks, TypeOK, SessionType, PeaceInv, ConsentInv, StrikesInv, PortalInv
<1>5. CASE AskerRuns
  <2>1. CASE Create(Asker)
    BY <1>5, <2>1, CreateKept DEF AskerRuns, Threads
  <2>2. CASE UNCHANGED <<session, creation>>
    BY <1>0, <1>5, <2>2
    DEF AskerRuns, TypeOK, PeaceInv, ConsentInv, StrikesInv, PortalInv, session, creation
  <2>3. QED BY <1>5, <2>1, <2>2 DEF AskerRuns
<1>6. CASE SessionEnds \/ Revoke \/ CalmsDown \/ UNCHANGED vars
  <2>0. UNCHANGED <<holder, attempt, throttle, refused, cap, asking, asks, asked, again, strikes>>
    BY <1>6 DEF SessionEnds, Revoke, CalmsDown, vars, session, creation, panel
  <2>1. TypeOK'
    <3>0. SessionType /\ holder' = holder
      BY <1>0, <2>0 DEF TypeOK, SessionType
    <3>1. SessionType'
      <4>1. CASE SessionEnds
        <5>1. live # 0 /\ live' = live /\ remote' = remote /\ shared' = FALSE /\ signal' \in BOOLEAN
          BY <3>0, <4>1, Zenon DEF SessionEnds, SessionType
        <5>2. QED BY ONLY <3>0, <5>1 DEF SessionType
      <4>2. CASE UNCHANGED session
        BY ONLY <3>0, <4>2 DEF SessionType, session
      <4>3. QED BY <1>6, <4>1, <4>2 DEF Revoke, CalmsDown, vars
    <3>a. token' = token \/ token' = "stale"
      BY <1>6 DEF SessionEnds, Revoke, CalmsDown, vars, creation
    <3>b. calm' = calm \/ calm' = TRUE
      BY <1>6 DEF SessionEnds, Revoke, CalmsDown, vars
    <3>c. token \in Tokens /\ calm \in BOOLEAN
      BY <1>0 DEF TypeOK
    <3>d. token' \in Tokens
      BY ONLY <3>a, <3>c DEF Tokens
    <3>e. calm' \in BOOLEAN
      BY ONLY <3>b, <3>c, Zenon
    <3>2. token' \in Tokens /\ calm' \in BOOLEAN
      BY ONLY <3>d, <3>e
    <3>3. QED BY <1>0, <2>0, <3>1, <3>2 DEF TypeOK, SessionType
  <2>2. PeaceInv' /\ ConsentInv' /\ StrikesInv'
    BY <1>0, <1>6 DEF SessionEnds, Revoke, CalmsDown, vars, session, creation, panel,
                      PeaceInv, ConsentInv, StrikesInv
  <2>3. QED BY <2>1, <2>2 DEF PortalInv
<1>7. CASE Tick
  <2>1. /\ throttle \in 0..Peace /\ refused \in 0..Peace /\ refused <= throttle
        /\ throttle' = (IF throttle > 0 THEN throttle - 1 ELSE 0)
        /\ refused' = (IF refused > 0 THEN refused - 1 ELSE 0)
    BY <1>0, <1>7 DEF Tick, TypeOK, PeaceInv
  <2>2. throttle' \in 0..Peace /\ refused' \in 0..Peace /\ refused' <= throttle'
        /\ (refused = 0 => refused' = 0)
    BY ONLY <2>1, Numbers
  <2>3. UNCHANGED <<session, holder, attempt, token, panel, cap, calm, strikes>>
    BY <1>7 DEF Tick
  <2>4. QED BY <1>0, <2>2, <2>3
    DEF TypeOK, PeaceInv, ConsentInv, StrikesInv, PortalInv, session, panel
<1>8. QED
  BY <1>1, <1>2, <1>3, <1>4, <1>5, <1>6, <1>7, <1>9, CaptureKept DEF Next

LEMMA PortalInvariant == Spec => []PortalInv
<1>1. PortalInv /\ [Next]_vars => PortalInv'
  BY PortalKept
<1>2. QED BY PortalInit, <1>1, PTL DEF Spec

(***************************************************************************)
(* Theorems                                                                *)
(***************************************************************************)
(* Every variable keeps its type, a session that is gone is not shared and *)
(* has no signal to read, and nobody creates a second session             *)
(* (portal_session.cpp's globals under g_mutex).                           *)
THEOREM PortalTypeCorrect == Spec => []TypeOK
<1>1. PortalInv => TypeOK
  BY DEF PortalInv
<1>2. QED BY <1>1, PortalInvariant, PTL

(* After the user said no, no dialog comes up before the peace is over but *)
(* for "Ask again", whatever the pauses and however many captures want a   *)
(* session (ensure_session(), try_session()).                              *)
THEOREM NoPestering == Spec => PeaceAfterNo
<1>1. PortalInv /\ [Next]_vars => [~Dialog /\ Dialog' => refused = 0]_vars
  <2> SUFFICES ASSUME PortalInv, [Next]_vars, ~Dialog, Dialog' PROVE refused = 0
    OBVIOUS
  <2>0. TypeOK /\ PeaceInv
    BY DEF PortalInv
  <2>1. ASSUME NEW t \in Threads, Create(t) PROVE refused = 0
    <3>1. throttle \in 0..Peace /\ refused \in 0..Peace /\ refused <= throttle /\ ~(throttle > 0)
      BY <2>0, <2>1 DEF TypeOK, PeaceInv, Create, Throttled
    <3>2. QED BY ONLY <3>1, Numbers
  <2>2. CASE holder # None
    BY <2>0, <2>2 DEF PeaceInv
  <2>3. CASE UNCHANGED <<holder, attempt>>
    BY <2>3 DEF Dialog
  <2>4. ASSUME NEW m \in Captures, CaptureStep(m) PROVE refused = 0
    BY <2>1, <2>3, <2>4
    DEF CaptureStep, Creates, Ensured, Streams, StreamFails, Retry, Lost, creation, Threads
  <2>5. CASE AskerRuns
    BY <2>1, <2>3, <2>5 DEF AskerRuns, creation, Threads
  <2>6. QED
    BY <2>2, <2>3, <2>4, <2>5
    DEF Next, Answer, Notify, InputDenied, AskAgain, AskLocks, SessionEnds, Revoke, CalmsDown, Tick,
        vars, creation
<1>2. QED BY <1>1, PortalInvariant, PTL DEF Spec, PeaceAfterNo

(* After "Ask again" the next session comes from a dialog: no consent of   *)
(* before is replayed, by any capture (ask_again(), load_token()).         *)
THEOREM ConsentIsAsked == Spec => AskedAgain
<1>1. PortalInv /\ [Next]_vars => [live = 0 /\ live' # 0 /\ asked => Dialog]_vars
  <2> SUFFICES ASSUME PortalInv, [Next]_vars, live = 0, live' # 0, asked PROVE Dialog
    OBVIOUS
  <2>0. ConsentInv
    BY DEF PortalInv
  <2>1. CASE Answer
    BY <2>0, <2>1 DEF Answer, Granted, Declined, Failed, ConsentInv, Dialog, session
  <2>2. CASE live' \in {live, 0}
    BY <2>2
  <2>3. ASSUME NEW m \in Captures, CaptureStep(m) PROVE live' \in {live, 0}
    BY <2>3 DEF CaptureStep, Creates, Create, Ensured, Streams, StreamFails, Retry, Lost, Drop,
                Pumped, session
  <2>4. CASE Notify \/ InputDenied \/ AskAgain \/ AskLocks \/ AskerRuns
    BY <2>2, <2>4
    DEF Notify, InputDenied, AskAgain, AskLocks, AskerRuns, Create, Drop, Pumped, session
  <2>5. CASE SessionEnds \/ Revoke \/ CalmsDown \/ Tick \/ UNCHANGED vars
    BY <2>2, <2>5 DEF SessionEnds, Revoke, CalmsDown, Tick, vars, session
  <2>6. QED BY <2>1, <2>2, <2>3, <2>4, <2>5 DEF Next
<1>2. QED BY <1>1, PortalInvariant, PTL DEF Spec, AskedAgain

(* A session ends because the desktop said so, the user asks again, or one *)
(* capture failed on this very session as often in a row as condemns it:   *)
(* never by failures counted on an earlier one (invalidate(),              *)
(* PipeWireCapture::start_capture()).                                      *)
THEOREM NoCauselessClose == Spec => CloseHasCause
<1> DEFINE Cause == \/ signal \/ asking = "removed"
                    \/ \E m \in Captures : cap[m].gen = live /\ strikes[m] = MaxFailures
<1>1. PortalInv /\ [Next]_vars => [live # 0 /\ live' # live => Cause]_vars
  <2> SUFFICES ASSUME PortalInv, [Next]_vars, live # 0, live' # live PROVE Cause
    OBVIOUS
  <2>0. TypeOK /\ StrikesInv
    BY DEF PortalInv
  <2>1. ASSUME Drop(Pumped) PROVE Cause
    BY <2>1 DEF Drop, Pumped
  <2>2. ASSUME NEW m \in Captures, Retry(m) PROVE Cause
    <3>1. /\ cap[m].at = "failed" /\ cap[m].failures + 1 >= MaxFailures /\ cap[m].gen = live
      BY <2>2 DEF Retry, Condemn, session
    <3>2. /\ cap[m].failures \in 0..MaxFailures - 1 /\ strikes[m] \in 0..MaxFailures
          /\ cap[m].failures < strikes[m]
      BY <2>0, <3>1 DEF TypeOK, StrikesInv
    <3>3. strikes[m] = MaxFailures
      BY ONLY <3>1, <3>2, Numbers
    <3>4. QED BY <3>1, <3>3
  <2>3. ASSUME NEW m \in Captures, CaptureStep(m) PROVE Cause
    BY <2>1, <2>2, <2>3
    DEF CaptureStep, Creates, Create, Ensured, Streams, StreamFails, Lost, session
  <2>4. CASE Answer
    BY <2>0, <2>4 DEF Answer, TypeOK
  <2>5. CASE Notify \/ AskerRuns
    BY <2>1, <2>5 DEF Notify, AskerRuns, Create, session
  <2>6. CASE AskLocks
    BY <2>6 DEF AskLocks
  <2>7. CASE InputDenied \/ AskAgain \/ SessionEnds \/ Revoke \/ CalmsDown \/ Tick \/ UNCHANGED vars
    BY <2>7 DEF InputDenied, AskAgain, SessionEnds, Revoke, CalmsDown, Tick, vars, session
  <2>8. QED BY <2>3, <2>4, <2>5, <2>6, <2>7 DEF Next
<1>2. QED BY <1>1, PortalInvariant, PTL DEF Spec, CloseHasCause
==============================================================================
