------------------------------ MODULE Sessions ------------------------------
(* The sessions of the host (host/src/network/server.cpp): the accept loop,    *)
(* one handler thread per connection, the PIN check, the places a host has for *)
(* clients, the settings panel that changes the PIN and disconnects clients,   *)
(* the discovery thread and stop().                                            *)
(*                                                                             *)
(* Each step is what one thread does between two moments another can see:      *)
(* clients_mutex_, auth_mutex_ and threads_mutex_ make their critical sections *)
(* single steps. What a paired client asks for is modelled by HostStreams,      *)
(* HostInput, ScreenOff and VirtualScreens.                                   *)
EXTENDS Naturals, FiniteSets

CONSTANTS
    MaxConns,     \* bound: connections made
    Addrs,        \* the addresses they come from
    Loopback,     \* 127.0.0.1: this PC, or a headset on the USB cable
    Pins,         \* the PINs the host may have and clients may send
    NoPin,        \* no PIN: none required, or none sent
    StartPin,     \* the PIN the host starts with
    MaxClients,   \* --max-clients
    MaxPending,   \* kMaxPending
    MaxFailures,  \* wrong PINs that lock an address out (5)
    MaxPanel      \* bound: PINs set and clients disconnected in the panel

Conns == 1..MaxConns

ASSUME SessionsAssumption ==
    /\ MaxConns \in Nat /\ MaxClients \in Nat /\ MaxPending \in Nat
    /\ MaxFailures \in Nat \ {0} /\ MaxPanel \in Nat
    /\ NoPin \notin Pins /\ StartPin \in Pins \union {NoPin}

VARIABLES
    phase,     \* "on", then the stages of stop(); "off" when it returned
    loops,     \* the accept and discovery threads still running
    taking,    \* the accept loop is past its check of running_
    nextId,    \* next_client_id_
    at,        \* where the handler of each connection is
    clients,   \* clients_: for each id its address, socket and whether it is authed
    threads,   \* client_threads_ (from stop() on: pending)
    finished,  \* finished_threads_
    pin,       \* pin_
    kicked,    \* kicked_
    failures,  \* auth_failures_[a].failures
    locked,    \* addresses whose locked_until is still to come
    tries,     \* history: wrong PINs compared since a right one or a lock-out's end
    panel      \* bound: what the panel did

handlers == <<at, clients, threads, finished>>
auth == <<kicked, failures, locked, tries>>
vars == <<phase, loops, taking, nextId, handlers, pin, auth, panel>>

running == phase = "on"
Given == Pins \union {NoPin}
Stages == {"none", "hello", "heard", "check", "penalty", "admit", "serving", "leaving", "left", "ended"}
\* A socket is open; silent (its headset vanished without a word); or closed
\* by the client or shut down by the host.
Sockets == {"open", "silent", "dead"}
Entry == [addr : Addrs, socket : Sockets, authed : BOOLEAN]
entries == DOMAIN clients
PairedIds == {c \in entries : clients[c].authed}

TypeOK ==
    /\ phase \in {"on", "join loops", "shut", "join handlers", "off"}
    /\ loops \subseteq {"accept", "discovery"}
    /\ taking \in BOOLEAN
    /\ nextId \in 1..MaxConns + 1
    /\ at \in [Conns -> Stages]
    /\ entries \subseteq Conns /\ clients \in [entries -> Entry]
    /\ threads \subseteq Conns /\ finished \subseteq Conns
    /\ pin \in Given /\ kicked \subseteq Addrs /\ locked \subseteq Addrs
    /\ failures \in [Addrs -> 0..MaxFailures - 1] /\ tries \in [Addrs -> Nat]
    /\ panel \in 0..MaxPanel

(* What start() leaves: both sockets open, both threads running. (Without  *)
(* its socket, when the port is busy, there is no discovery thread,   *)
(* and one thread less to join.)                                           *)
Init ==
    /\ phase = "on" /\ loops = {"accept", "discovery"} /\ taking = FALSE
    /\ nextId = 1
    /\ at = [c \in Conns |-> "none"] /\ clients = [c \in {} |-> 0]
    /\ threads = {} /\ finished = {}
    /\ pin = StartPin /\ kicked = {} /\ locked = {}
    /\ failures = [a \in Addrs |-> 0] /\ tries = [a \in Addrs |-> 0]
    /\ panel = 0

(***************************************************************************)
(* The accept loop and the discovery loop                                  *)
(***************************************************************************)
(* select() said a connection waits, and running_ was still set.           *)
Connection ==
    /\ "accept" \in loops /\ ~taking /\ running /\ nextId <= MaxConns
    /\ taking' = TRUE
    /\ UNCHANGED <<phase, loops, nextId, handlers, pin, auth, panel>>

LoopEnds(t) ==
    /\ t \in loops /\ ~running
    /\ t = "accept" => ~taking
    /\ loops' = loops \ {t}
    /\ UNCHANGED <<phase, taking, nextId, handlers, pin, auth, panel>>

(* One connection: refused when clients_ is full, else finished handlers   *)
(* are joined, the client gets its entry, then its thread.                 *)
Full == Cardinality(entries) >= MaxClients + MaxPending

Refuse ==
    /\ taking /\ Full
    /\ taking' = FALSE
    /\ UNCHANGED <<phase, loops, nextId, handlers, pin, auth, panel>>

With(c, e) == [d \in entries \union {c} |-> IF d = c THEN e ELSE clients[d]]

Accept(a) ==
    /\ taking /\ ~Full /\ nextId <= MaxConns
    /\ threads' = (threads \ finished) \union {nextId}
    /\ finished' = finished \ threads
    /\ clients' = With(nextId, [addr |-> a, socket |-> "open", authed |-> FALSE])
    /\ at' = [at EXCEPT ![nextId] = "hello"]
    /\ nextId' = nextId + 1 /\ taking' = FALSE
    /\ UNCHANGED <<phase, loops, pin, auth, panel>>

(***************************************************************************)
(* The handler of a connection: handle_client()                            *)
(***************************************************************************)
Go(c, stage) == at' = [at EXCEPT ![c] = stage]
From(c) == clients[c].addr

(* A HELLO: an address disconnected from the panel is asked for the PIN    *)
(* once, whatever it sends.                                                *)
Hello(c) ==
    /\ at[c] = "hello" /\ clients[c].socket = "open"
    /\ IF From(c) \in kicked
       THEN kicked' = kicked \ {From(c)} /\ Go(c, "leaving")
       ELSE Go(c, "check") /\ UNCHANGED kicked
    /\ UNCHANGED <<phase, loops, taking, nextId, clients, threads, finished, pin,
                   failures, locked, tries, panel>>

(* Part of a message comes, or a HELLO shorter than its fixed part, which  *)
(* is ignored. The handler receives on, and each recv() has five seconds   *)
(* of its own.                                                             *)
ShortHello(c) ==
    /\ at[c] = "hello" /\ clients[c].socket = "open"
    /\ Go(c, "heard")
    /\ UNCHANGED <<phase, loops, taking, nextId, clients, threads, finished, pin, auth, panel>>

HelloAgain(c) ==
    /\ at[c] = "heard"
    /\ Go(c, "hello") \/ (~running /\ Go(c, "leaving"))
    /\ UNCHANGED <<phase, loops, taking, nextId, clients, threads, finished, pin, auth, panel>>

(* recv() fails: closed, shut down, or five seconds without a byte; or     *)
(* another request comes before the HELLO.                                 *)
HelloClosed(c) == at[c] = "hello" /\ clients[c].socket = "dead"   \* mutant: no timeout
HelloOver(c) == at[c] = "hello"

HelloFails(c) ==
    /\ HelloOver(c)
    /\ Go(c, "leaving")
    /\ UNCHANGED <<phase, loops, taking, nextId, clients, threads, finished, pin, auth, panel>>

(* check_pin() of the PIN p the HELLO carries, up to its pause: one        *)
(* critical section of auth_mutex_.                                        *)
Trusted(a) == pin = NoPin \/ a = Loopback

Checked(c, stage) ==
    /\ Go(c, stage)
    /\ UNCHANGED <<phase, loops, taking, nextId, clients, threads, finished, pin, kicked, panel>>

LockIgnored(a) == FALSE   \* mutant: the lock-out is recorded and never looked at
LockedOut(a) == a \in locked

LastTry(a) == failures[a] + 1 >= MaxFailures

CheckTrusted(c) ==
    /\ at[c] = "check" /\ Trusted(From(c))
    /\ Checked(c, "admit") /\ UNCHANGED <<failures, locked, tries>>

CheckRefused(c, p) ==
    /\ at[c] = "check" /\ ~Trusted(From(c))
    /\ LockedOut(From(c)) \/ p = NoPin
    /\ Checked(c, "leaving") /\ UNCHANGED <<failures, locked, tries>>

CheckRight(c, p) ==
    /\ at[c] = "check" /\ ~Trusted(From(c)) /\ ~LockedOut(From(c))
    /\ p = pin
    /\ failures' = [failures EXCEPT ![From(c)] = 0]
    /\ tries' = [tries EXCEPT ![From(c)] = 0]
    /\ Checked(c, "admit") /\ UNCHANGED locked

CheckWrong(c, p) ==
    /\ at[c] = "check" /\ ~Trusted(From(c)) /\ ~LockedOut(From(c))
    /\ p \notin {pin, NoPin}
    /\ tries' = [tries EXCEPT ![From(c)] = @ + 1]
    /\ IF LastTry(From(c))
       THEN failures' = [failures EXCEPT ![From(c)] = 0] /\ locked' = locked \union {From(c)}
       ELSE failures' = [failures EXCEPT ![From(c)] = @ + 1] /\ UNCHANGED locked
    /\ Checked(c, "penalty")

(* The half second a wrong PIN costs, then HELLO_REJECT.                   *)
Penalty(c) ==
    /\ at[c] = "penalty" /\ Go(c, "leaving")
    /\ UNCHANGED <<phase, loops, taking, nextId, clients, threads, finished, pin, auth, panel>>

(* The paired clients are counted and one more is paired under             *)
(* clients_mutex_.                                                         *)
NoPlaceLate == Cardinality(PairedIds) > MaxClients   \* mutant
NoPlace == Cardinality(PairedIds) >= MaxClients

Admit(c) ==
    /\ at[c] = "admit"
    /\ IF NoPlace THEN Go(c, "leaving") /\ UNCHANGED clients
       ELSE Go(c, "serving") /\ clients' = [clients EXCEPT ![c].authed = TRUE]
    /\ UNCHANGED <<phase, loops, taking, nextId, threads, finished, pin, auth, panel>>

(* The receive loop of a paired client ends: its socket is dead, or a      *)
(* message arrives and running_ is clear. (Until one arrives recv() blocks,*)
(* for ever if need be: only the first is sure to happen.)                 *)
ServingEnds(c) ==
    /\ at[c] = "serving" /\ clients[c].socket = "dead"
    /\ Go(c, "leaving")
    /\ UNCHANGED <<phase, loops, taking, nextId, clients, threads, finished, pin, auth, panel>>

ServingStops(c) ==
    /\ at[c] = "serving" /\ clients[c].socket = "open" /\ ~running
    /\ Go(c, "leaving")
    /\ UNCHANGED <<phase, loops, taking, nextId, clients, threads, finished, pin, auth, panel>>

(* The handler closes its socket and erases its entry, ...                 *)
Erase(c) ==
    /\ at[c] = "leaving"
    /\ clients' = [d \in entries \ {c} |-> clients[d]]
    /\ Go(c, "left")
    /\ UNCHANGED <<phase, loops, taking, nextId, threads, finished, pin, auth, panel>>

(* ... calls the disconnect callback and marks its thread finished.        *)
Finish(c) ==
    /\ at[c] = "left"
    /\ finished' = finished \union {c}
    /\ Go(c, "ended")
    /\ UNCHANGED <<phase, loops, taking, nextId, clients, threads, pin, auth, panel>>

Handler(c) ==
    \/ HelloAgain(c) \/ HelloFails(c) \/ CheckTrusted(c)
    \/ \E p \in Given : CheckRefused(c, p) \/ CheckRight(c, p) \/ CheckWrong(c, p)
    \/ Penalty(c) \/ Admit(c) \/ ServingEnds(c) \/ Erase(c) \/ Finish(c)

(***************************************************************************)
(* The world: headsets close and vanish, keepalive finds out, time passes  *)
(***************************************************************************)
Socket(c, s) ==
    /\ clients' = [clients EXCEPT ![c].socket = s]
    /\ UNCHANGED <<phase, loops, taking, nextId, at, threads, finished, pin>>

Close(c) == c \in entries /\ clients[c].socket = "open" /\ Socket(c, "dead") /\ UNCHANGED <<auth, panel>>
Vanish(c) == c \in entries /\ clients[c].socket = "open" /\ Socket(c, "silent") /\ UNCHANGED <<auth, panel>>

(* enable_keepalive(): a silent peer is probed after 5 s and dropped.      *)
Keepalive(c) == c \in entries /\ clients[c].socket = "silent" /\ Socket(c, "dead") /\ UNCHANGED <<auth, panel>>

Unlock(a) ==
    /\ a \in locked
    /\ locked' = locked \ {a} /\ tries' = [tries EXCEPT ![a] = 0]
    /\ UNCHANGED <<phase, loops, taking, nextId, handlers, pin, kicked, failures, panel>>

(***************************************************************************)
(* The settings panel: one thread, joined before stop()                    *)
(***************************************************************************)
(* /api/set pin and /api/new-pin.                                          *)
SetPin(p) ==
    /\ running /\ panel < MaxPanel /\ p # pin
    /\ pin' = p /\ panel' = panel + 1
    /\ UNCHANGED <<phase, loops, taking, nextId, handlers, auth>>

(* /api/disconnect of a client it lists: disconnect_client().              *)
Kick(c) ==
    /\ running /\ panel < MaxPanel /\ c \in PairedIds
    /\ kicked' = kicked \union {From(c)} /\ panel' = panel + 1
    /\ Socket(c, "dead") /\ UNCHANGED <<failures, locked, tries>>

(***************************************************************************)
(* stop()                                                                  *)
(***************************************************************************)
Stop ==
    /\ running
    /\ phase' = "join loops"
    /\ UNCHANGED <<loops, taking, nextId, handlers, pin, auth, panel>>

OneLoopEnded == "discovery" \notin loops   \* mutant
LoopsEnded == loops = {}

JoinLoops ==
    /\ phase = "join loops" /\ LoopsEnded
    /\ phase' = "shut"
    /\ UNCHANGED <<loops, taking, nextId, handlers, pin, auth, panel>>

LeftOpen(c) == clients[c]   \* mutant
Shut(c) == [clients[c] EXCEPT !.socket = "dead"]

ShutAll ==
    /\ phase = "shut"
    /\ clients' = [c \in entries |-> Shut(c)]
    /\ phase' = "join handlers"
    /\ UNCHANGED <<loops, taking, nextId, at, threads, finished, pin, auth, panel>>

JoinHandlers ==
    /\ phase = "join handlers"
    /\ \A c \in threads : at[c] = "ended"
    /\ threads' = {} /\ finished' = {} /\ clients' = [c \in {} |-> 0]
    /\ phase' = "off"
    /\ UNCHANGED <<loops, taking, nextId, at, pin, auth, panel>>

Stopping == JoinLoops \/ ShutAll \/ JoinHandlers

(* stop() returned: nothing is left to run.                                *)
Stopped == phase = "off" /\ UNCHANGED vars

Next ==
    \/ Connection \/ Refuse \/ Stop \/ Stopping \/ Stopped
    \/ \E t \in {"accept", "discovery"} : LoopEnds(t)
    \/ \E a \in Addrs : Accept(a) \/ Unlock(a)
    \/ \E c \in Conns : Hello(c) \/ ShortHello(c) \/ ServingStops(c) \/ Handler(c)
                       \/ Close(c) \/ Vanish(c) \/ Keepalive(c) \/ Kick(c)
    \/ \E p \in Given : SetPin(p)

(* Every thread goes on, timeouts and keepalive run out; nobody has to     *)
(* connect, close, change a setting or quit.                               *)
Fairness ==
    /\ WF_vars(LoopEnds("accept") \/ Refuse \/ \E a \in Addrs : Accept(a))
    /\ WF_vars(LoopEnds("discovery")) /\ WF_vars(Stopping)
    /\ \A c \in Conns : WF_vars(Handler(c) \/ Keepalive(c))

Spec == Init /\ [][Next]_vars /\ Fairness

(***************************************************************************)
(* Properties                                                              *)
(***************************************************************************)
(* However many HELLOs are checked at once, no more clients are paired     *)
(* than --max-clients, and no more connections kept than kMaxPending over. *)
PlacesRespected ==
    /\ Cardinality(PairedIds) <= MaxClients
    /\ Cardinality(entries) <= MaxClients + MaxPending

(* An address gets at most five PINs wrong before it is locked out, over   *)
(* however many connections it sends them at once.                         *)
GuessesBounded == \A a \in Addrs : tries[a] <= MaxFailures

(* A handler thread is known until it is joined, whatever meets the accept *)
(* loop, the reaping and stop(); none runs once stop() returned (they call *)
(* back into objects of main()).                                           *)
Alive(c) == at[c] \notin {"none", "ended"}
HandlersKept ==
    /\ \A c \in Conns : Alive(c) => c \in threads
    /\ phase = "off" => \A c \in Conns : ~Alive(c)

(* stop() returns, whatever the handlers were doing.                       *)
StopReturns == (phase = "join loops") ~> (phase = "off")

(* A connection that does not pair leaves, and so does one whose headset   *)
(* vanished: neither keeps its place (the comment at server.cpp:123,       *)
(* PROTOCOL.md:77).  Not so in the code: TLC refutes it.                   *)
HoldsPlace(c) == c \in entries /\ (~clients[c].authed \/ clients[c].socket = "silent")
PlacesFreed == \A c \in Conns : HoldsPlace(c) ~> ~HoldsPlace(c)

(* They do once the peer is quiet: whatever it sent before, whatever the   *)
(* others do, and with its PIN being compared, only one that goes on       *)
(* sending what is no HELLO keeps its place.                               *)
QuietPlacesFreed ==
    \A c \in Conns : HoldsPlace(c) ~> (~HoldsPlace(c) \/ at[c] = "heard")
=============================================================================
