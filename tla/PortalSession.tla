--------------------------- MODULE PortalSession ---------------------------
(* The screen-sharing session of a Wayland desktop                           *)
(* (host/src/capture/portal_session.cpp) and the captures that use it        *)
(* (pipewire_capture.cpp), one for each stream worker.                       *)
(*                                                                           *)
(* One session serves every capture. Who finds none creates it, which can    *)
(* show a dialog and holds g_mutex for as long; the others give up after a   *)
(* second and come back. Signals that end the session are read by whoever    *)
(* calls the portal next. A restore token replays an earlier consent; "Ask   *)
(* again" in the panel forgets it.                                           *)
EXTENDS Integers, FiniteSets

CONSTANTS
    Captures,    \* the captures of the running streams
    Asker,       \* the thread ask_again() starts
    None,
    MaxFailures, \* failed starts that condemn a session (3)
    Pause,       \* no new attempt for 5 s after one, in ticks
    Peace,       \* and for 30 s after the user said no
    MaxAsks,     \* bound: uses of "Ask again"
    Names        \* session generations told apart

ASSUME PortalAssumption ==
    /\ Asker \notin Captures /\ None \notin Captures \cup {Asker}
    /\ {MaxFailures, Pause, Peace} \subseteq Nat \ {0} /\ Pause < Peace
    /\ MaxAsks \in Nat /\ Names \subseteq Nat \ {0}
    \* A new session differs from all that captures still remember.
    /\ \A f \in [Captures -> Names \cup {0}] : \E g \in Names : \A m \in Captures : g # f[m]

VARIABLES
    live,      \* g_live, the generation of the session; 0: none
    remote,    \* it takes input
    shared,    \* the desktop still runs it
    signal,    \* Closed, NameOwnerChanged or Disconnected not yet read
    holder,    \* the thread creating a session, under g_mutex
    attempt,   \* its try_session(): with remote desktop, and with which token
    token,     \* the stored restore token: "none", "valid" or "stale"
    throttle,  \* ticks until g_next_attempt
    cap,       \* a capture: where it is, the generation it starts on or uses
               \* (gen_ and fail_gen_, which are the same), and its failures_
    asking,    \* ask_again(): "idle", input "denied" when the panel looked,
               \* "removed" the token, "spawned" a thread
    asks,
    calm,      \* history: the desktop is well from here on
    refused,   \* history: ticks since the user said no, down from Peace
    asked,     \* history: the consent was removed while no session was created
    again,     \* history: ask_again() is to show a dialog, and none was answered
    strikes    \* history: failed starts in a row, on cap.gen

session == <<live, remote, shared, signal>>
creation == <<holder, attempt, token, throttle>>
panel == <<asking, asks, asked, again>>
vars == <<session, creation, panel, cap, calm, refused, strikes>>

Threads == Captures \cup {Asker}
Tokens == {"none", "valid", "stale"}
NoAttempt == [rd |-> FALSE, token |-> "none"]

TypeOK ==
    /\ live \in Names \cup {0} /\ remote \in BOOLEAN /\ shared \in BOOLEAN /\ signal \in BOOLEAN
    /\ holder \in Threads \cup {None}
    /\ attempt \in [rd : BOOLEAN, token : Tokens] /\ token \in Tokens
    /\ throttle \in 0..Peace /\ refused \in 0..Peace
    /\ cap \in [Captures -> [at : {"off", "opening", "on", "failed"}, gen : Names \cup {0},
                             failures : 0..MaxFailures - 1]]
    /\ asking \in {"idle", "denied", "removed", "spawned"} /\ asks \in 0..MaxAsks
    /\ calm \in BOOLEAN /\ asked \in BOOLEAN /\ again \in BOOLEAN
    /\ strikes \in [Captures -> 0..MaxFailures]
    /\ live = 0 => ~shared /\ ~signal
    /\ holder # None => live = 0

Init ==
    /\ live = 0 /\ remote = FALSE /\ shared = FALSE /\ signal = FALSE
    /\ holder = None /\ attempt = NoAttempt /\ token \in {"none", "valid"} /\ throttle = 0
    /\ cap = [m \in Captures |-> [at |-> "off", gen |-> 0, failures |-> 0]]
    /\ asking = "idle" /\ asks = 0 /\ asked = FALSE /\ again = FALSE
    /\ calm = FALSE /\ refused = 0 /\ strikes = [m \in Captures |-> 0]

(***************************************************************************)
(* Reading signals; dropping the session                                   *)
(***************************************************************************)
(* What pump() leaves.                                                     *)
Pumped == IF signal THEN 0 ELSE live
Drop(gen) ==
    /\ live' = gen
    /\ signal' = FALSE
    /\ shared' = (shared /\ gen # 0)
    /\ remote' = (remote /\ gen # 0)   \* only read with a live session

(* notify(): any input event reads the signals.                            *)
Notify ==
    /\ holder = None /\ live # 0 /\ remote /\ signal
    /\ Drop(Pumped)
    /\ UNCHANGED <<creation, panel, cap, calm, refused, strikes>>

(***************************************************************************)
(* ensure_session()                                                        *)
(***************************************************************************)
NotThrottled == FALSE   \* mutant: the dialog comes back at once
Throttled == throttle > 0

NoSession == Pumped = 0

(* connect_bus() fails, or there is no ScreenCast portal.                  *)
NoPortal == ~calm /\ UNCHANGED <<holder, attempt>>

(* No session, and no other thread creates one: an attempt begins, with    *)
(* the stored token. (Without the RemoteDesktop portal: capture only.)     *)
Create(t) ==
    /\ holder = None /\ NoSession /\ ~Throttled
    /\ Drop(Pumped) /\ throttle' = Pause
    /\ \/ holder' = t /\ \E rd \in BOOLEAN : attempt' = [rd |-> rd, token |-> token]
       \/ NoPortal
    /\ UNCHANGED token

Dialog == holder # None /\ attempt.token # "valid"

NewName == CHOOSE g \in Names :
    \A m \in Captures : g # cap[m].gen

(* Tokens are single-use; a portal that cannot persist gives none, and a   *)
(* file that cannot be written keeps the old one.                          *)
SaveToken ==
    \/ token' = "valid"
    \/ ~calm /\ token' = IF token = "valid" THEN "stale" ELSE token

(* Start granted: shared by the user, or restored by the token.            *)
Granted ==
    /\ live' = NewName /\ shared' = TRUE /\ signal' = FALSE
    /\ remote' \in (IF attempt.rd THEN BOOLEAN ELSE {FALSE})
    /\ SaveToken
    /\ holder' = None /\ attempt' = NoAttempt
    /\ asked' = (asked /\ ~Dialog) /\ again' = (again /\ ~Dialog)
    /\ UNCHANGED <<throttle, refused>>

(* The user says no or lets the dialog time out, or the portal hangs: a    *)
(* request without an answer counts as a no.                               *)
Declined ==
    /\ ~calm
    /\ throttle' = Peace /\ refused' = IF Dialog THEN Peace ELSE refused
    /\ holder' = None /\ attempt' = NoAttempt
    /\ UNCHANGED <<session, token, asked, again>>

(* A request fails: again without the token, then without input.           *)
Failed ==
    /\ attempt.token = "stale" \/ ~calm
    /\ \/ /\ attempt.token # "none"
          /\ attempt' = [attempt EXCEPT !.token = "none"]
          /\ UNCHANGED <<holder, throttle>>
       \/ /\ attempt.token = "none" /\ attempt.rd
          /\ attempt' = NoAttempt
          /\ UNCHANGED <<holder, throttle>>
       \/ /\ attempt = NoAttempt
          /\ throttle' = Pause /\ holder' = None /\ UNCHANGED attempt
    /\ UNCHANGED <<session, token, refused, asked, again>>

Answer ==
    /\ holder # None
    /\ Granted \/ Declined \/ Failed
    /\ UNCHANGED <<cap, asking, asks, calm, strikes>>

(***************************************************************************)
(* A capture: start_capture()                                              *)
(***************************************************************************)
Set(m, c) == cap' = [cap EXCEPT ![m] = c]

(* The live session, its failures counted anew when it is another one.     *)
FailuresOn(m, g) == IF cap[m].gen = g THEN cap[m].failures ELSE 0

Ensured(m) ==
    /\ cap[m].at = "off" /\ holder = None /\ Pumped # 0
    /\ Set(m, [at |-> "opening", gen |-> Pumped, failures |-> FailuresOn(m, Pumped)])
    /\ strikes' = IF cap[m].gen = Pumped THEN strikes ELSE [strikes EXCEPT ![m] = 0]
    /\ UNCHANGED <<session, creation, panel, calm, refused>>

Creates(m) ==
    /\ cap[m].at = "off" /\ Create(m)
    /\ UNCHANGED <<panel, cap, calm, refused, strikes>>

(* open_pipewire_remote() of that generation, then five seconds for the    *)
(* node to stream.                                                         *)
Opened(m) == holder = None /\ Pumped = cap[m].gen

Streams(m) ==
    /\ cap[m].at = "opening" /\ Opened(m) /\ shared
    /\ Set(m, [cap[m] EXCEPT !.at = "on", !.failures = 0])
    /\ strikes' = [strikes EXCEPT ![m] = 0]
    /\ UNCHANGED <<session, creation, panel, calm, refused>>

NextStrike(m) == IF strikes[m] < MaxFailures THEN strikes[m] + 1 ELSE MaxFailures

StreamFails(m) ==
    /\ cap[m].at = "opening"
    /\ calm => ~(Opened(m) /\ shared)
    /\ Set(m, [cap[m] EXCEPT !.at = "failed"])
    /\ strikes' = [strikes EXCEPT ![m] = NextStrike(m)]
    /\ IF holder = None THEN Drop(Pumped) ELSE UNCHANGED session
    /\ UNCHANGED <<creation, panel, calm, refused>>

(* invalidate(): the session whose nodes keep failing, if it is still that *)
(* one and nobody holds the mutex.                                         *)
CondemnAny(m) == holder = None /\ live # 0   \* mutant
Condemn(m) == holder = None /\ live # 0 /\ live = cap[m].gen

Retry(m) ==
    /\ cap[m].at = "failed"
    /\ \/ /\ cap[m].failures + 1 < MaxFailures
          /\ Set(m, [cap[m] EXCEPT !.at = "off", !.failures = @ + 1])
          /\ UNCHANGED session
       \/ /\ cap[m].failures + 1 >= MaxFailures
          /\ Set(m, [cap[m] EXCEPT !.at = "off", !.failures = 0])
          /\ IF Condemn(m) THEN Drop(0) ELSE UNCHANGED session
    /\ UNCHANGED <<creation, panel, calm, refused, strikes>>

(* is_capturing() is false, and the worker starts the capture again.       *)
OnlyWhenTold(m) == live # cap[m].gen   \* mutant: PipeWire errors are not noticed
StreamGone(m) == ~shared \/ live # cap[m].gen
Lost(m) ==
    /\ cap[m].at = "on" /\ StreamGone(m)
    /\ Set(m, [cap[m] EXCEPT !.at = "off"])
    /\ UNCHANGED <<session, creation, panel, calm, refused, strikes>>

CaptureStep(m) ==
    Ensured(m) \/ Creates(m) \/ Streams(m) \/ StreamFails(m) \/ Retry(m) \/ Lost(m)

(***************************************************************************)
(* ask_again()                                                             *)
(***************************************************************************)
TokenKept == token   \* mutant: the stored consent is used again
Forgotten == "none"

(* The panel looks whether a session lives that may not inject, and calls  *)
(* ask_again(); what it saw may have changed by then.                      *)
InputDenied ==
    /\ asking = "idle" /\ asks < MaxAsks /\ live # 0 /\ ~remote
    /\ asking' = "denied" /\ asks' = asks + 1
    /\ UNCHANGED <<session, creation, asked, again, cap, calm, refused, strikes>>

AskAgain ==
    /\ asking = "denied"
    /\ asking' = "removed"
    /\ token' = Forgotten /\ asked' = (holder = None) /\ again' = TRUE
    /\ UNCHANGED <<session, holder, attempt, throttle, asks, cap, calm, refused, strikes>>

(* The session is closed and a thread asks for a new one; with a dialog    *)
(* open already there is nothing to do.                                    *)
AskLocks ==
    /\ asking = "removed"
    /\ \/ /\ holder = None
          /\ Drop(0) /\ throttle' = 0 /\ refused' = 0
          /\ asking' = "spawned" /\ UNCHANGED again
       \/ /\ holder # None /\ asking' = "idle" /\ again' = FALSE
          /\ UNCHANGED <<session, throttle, refused>>
    /\ UNCHANGED <<holder, attempt, token, asks, asked, cap, calm, strikes>>

AskerRuns ==
    /\ asking = "spawned" /\ asking' = "idle"
    /\ \/ Create(Asker)
       \/ (holder # None \/ Pumped # 0 \/ Throttled) /\ UNCHANGED <<session, creation>>
    /\ UNCHANGED <<asks, asked, again, cap, calm, refused, strikes>>

(***************************************************************************)
(* The desktop                                                             *)
(***************************************************************************)
(* Sharing stops, the screen locks, the portal restarts; or its backend    *)
(* crashes and nothing is said.                                            *)
SessionEnds ==
    /\ ~calm /\ shared
    /\ shared' = FALSE /\ signal' \in BOOLEAN
    /\ UNCHANGED <<live, remote, creation, panel, cap, calm, refused, strikes>>

Revoke ==
    /\ ~calm /\ token = "valid" /\ token' = "stale"
    /\ UNCHANGED <<session, holder, attempt, throttle, panel, cap, calm, refused, strikes>>

CalmsDown == ~calm /\ calm' = TRUE /\ UNCHANGED <<session, creation, panel, cap, refused, strikes>>

Tick ==
    /\ throttle > 0 \/ refused > 0
    /\ throttle' = IF throttle > 0 THEN throttle - 1 ELSE 0
    /\ refused' = IF refused > 0 THEN refused - 1 ELSE 0
    /\ UNCHANGED <<session, holder, attempt, token, panel, cap, calm, strikes>>

Next ==
    \/ Answer \/ Notify \/ InputDenied \/ AskAgain \/ AskLocks \/ AskerRuns
    \/ SessionEnds \/ Revoke \/ CalmsDown \/ Tick
    \/ \E m \in Captures : CaptureStep(m)

(* Workers try again, threads run, time passes; a well desktop answers.    *)
Spec ==
    /\ Init /\ [][Next]_vars
    /\ WF_vars(Answer) /\ WF_vars(Tick) /\ WF_vars(AskAgain \/ AskLocks \/ AskerRuns)
    /\ \A m \in Captures : WF_vars(CaptureStep(m))

(***************************************************************************)
(* Properties                                                              *)
(***************************************************************************)
(* "Do not pester the user with the dialog again right away": for 30 s     *)
(* after a no, whoever else wants a session, only "Ask again" shows it.    *)
PeaceAfterNo == [][~Dialog /\ Dialog' => refused = 0]_vars

(* One capture's trouble does not end the session of the others: it goes   *)
(* because the desktop said so, the user asks again, or one capture failed *)
(* on this very session three times in a row.                              *)
CloseHasCause ==
    [][live # 0 /\ live' # live =>
         \/ signal \/ asking = "removed"
         \/ \E m \in Captures : cap[m].gen = live /\ strikes[m] = MaxFailures]_vars

(* "Ask again" closes the session so that the dialog asks for remote       *)
(* control again (the comment at portal_session.h:45): no session comes    *)
(* after it without one.  Not so in the code: TLC refutes it.              *)
DialogFollows ==
    [][live = 0 /\ live' # 0 /\ again /\ asking # "removed" => Dialog]_vars

(* It holds if no session was being created while the consent was removed. *)
AskedAgain == [][live = 0 /\ live' # 0 /\ asked => Dialog]_vars

(* Whatever happened before, every capture runs again, on a session that   *)
(* lives, once the desktop is well: after one that died in silence too.    *)
CapturesRecover == calm ~> shared /\ \A m \in Captures : cap[m].at = "on"
=============================================================================
