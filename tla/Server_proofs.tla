---------------------------- MODULE Server_proofs -----------------------------
(* The network server: theorems about Sessions, for every number of          *)
(* connections, addresses, PINs, places and failures allowed, and about      *)
(* RateControl, for every scale, delay and window.                           *)
EXTENDS Sessions, RateControl, FiniteSetTheorems, WellFoundedInduction, TLAPS

(***************************************************************************)
(* Sessions                                                                *)
(***************************************************************************)
(* A lock-out begins with the last wrong PIN counted and ends the count.       *)
GuessesInv ==
    \A a \in Addrs :
        /\ a \in locked => failures[a] = 0 /\ tries[a] <= MaxFailures
        /\ a \notin locked => tries[a] = failures[a]

(* The accept loop takes nobody in once stop() joined it; a handler has its    *)
(* entry until it erases it, and is known until it ended.                      *)
HasEntry == {"hello", "heard", "check", "penalty", "admit", "serving", "leaving"}
HandlersInv ==
    /\ taking => "accept" \in loops
    /\ phase \in {"shut", "join handlers", "off"} => loops = {}
    /\ \A c \in Conns :
        /\ c >= nextId => at[c] = "none"
        /\ at[c] \in HasEntry => c \in entries
        /\ c \in finished => at[c] = "ended"
        /\ Alive(c) => c \in threads
        /\ phase = "off" => ~Alive(c)

SessionsInv == TypeOK /\ PlacesRespected /\ GuessesInv /\ HandlersInv

LEMMA SessionsInit == Init => SessionsInv
<1> SUFFICES ASSUME Init PROVE SessionsInv
  OBVIOUS
<1> USE SessionsAssumption DEF Init
<1>1. entries = {} /\ PairedIds = {}
  BY DEF entries, PairedIds
<1>2. TypeOK
  <2>1. clients \in [entries -> Entry]
    BY <1>1 DEF entries
  <2>2. at \in [Conns -> Stages]
    BY DEF Stages
  <2>3. nextId \in 1..MaxConns + 1 /\ panel \in 0..MaxPanel
    OBVIOUS
  <2>4. failures \in [Addrs -> 0..MaxFailures - 1] /\ tries \in [Addrs -> Nat]
    OBVIOUS
  <2>5. QED BY <1>1, <2>1, <2>2, <2>3, <2>4 DEF TypeOK, Given
<1>3. PlacesRespected
  BY <1>1, FS_EmptySet DEF PlacesRespected
<1>4. GuessesInv /\ HandlersInv
  BY DEF GuessesInv, HandlersInv, HasEntry, Alive, Conns
<1>5. QED BY <1>2, <1>3, <1>4 DEF SessionsInv

(***************************************************************************)
(* Places                                                                  *)
(***************************************************************************)
LEMMA EntriesFinite ==
  ASSUME TypeOK
  PROVE  IsFiniteSet(entries) /\ IsFiniteSet(PairedIds)
<1>1. IsFiniteSet(Conns)
  BY FS_Interval, SessionsAssumption DEF Conns
<1>2. entries \subseteq Conns /\ PairedIds \subseteq entries
  BY DEF TypeOK, PairedIds
<1>3. QED BY <1>1, <1>2, FS_Subset

(* Fewer entries and fewer paired ones break no limit.                     *)
LEMMA PlacesFewer ==
  ASSUME TypeOK, PlacesRespected, entries' \subseteq entries, PairedIds' \subseteq PairedIds
  PROVE  PlacesRespected'
<1>1. Cardinality(entries') <= Cardinality(entries) /\ Cardinality(entries') \in Nat
      /\ Cardinality(entries) \in Nat
  BY EntriesFinite, FS_Subset, FS_CardinalityType
<1>2. Cardinality(PairedIds') <= Cardinality(PairedIds) /\ Cardinality(PairedIds') \in Nat
      /\ Cardinality(PairedIds) \in Nat
  BY EntriesFinite, FS_Subset, FS_CardinalityType
<1>3. QED BY <1>1, <1>2, SessionsAssumption DEF PlacesRespected

(***************************************************************************)
(* Types                                                                   *)
(***************************************************************************)
(* The handlers that have an entry are connections with an address.        *)
LEMMA FromAddrs ==
  ASSUME SessionsInv, NEW c \in Conns, at[c] \in HasEntry
  PROVE  c \in entries /\ clients[c] \in Entry /\ From(c) \in Addrs
BY DEF SessionsInv, HandlersInv, TypeOK, Entry, From

(* An array with another value in it.                                      *)
LEMMA Updated ==
  ASSUME NEW S, NEW T, NEW f \in [S -> T], NEW x \in S, NEW v \in T
  PROVE  [f EXCEPT ![x] = v] \in [S -> T] /\ DOMAIN [f EXCEPT ![x] = v] = S
OBVIOUS

LEMMA HandlerType ==
  ASSUME SessionsInv, NEW c \in Conns, Hello(c) \/ ShortHello(c) \/ ServingStops(c) \/ Handler(c)
  PROVE  TypeOK'
<1>a. MaxFailures \in Nat \ {0}
  BY SessionsAssumption
<1>b. 0 \in 0..MaxFailures - 1
  BY ONLY <1>a
<1>0. /\ failures \in [Addrs -> 0..MaxFailures - 1] /\ tries \in [Addrs -> Nat]
      /\ clients \in [entries -> Entry]
  BY DEF SessionsInv, TypeOK
<1>c. ASSUME NEW a \in Addrs
      PROVE  failures[a] \in 0..MaxFailures - 1 /\ tries[a] + 1 \in Nat
  <2>1. failures[a] \in 0..MaxFailures - 1 /\ tries[a] \in Nat
    BY ONLY <1>0, <1>c
  <2>2. QED BY ONLY <2>1
<1> USE DEF SessionsInv, TypeOK, Stages, Go, entries
<1>1. CASE Hello(c)          BY <1>1 DEF Hello
<1>14. CASE ShortHello(c) \/ HelloAgain(c)  BY <1>14 DEF ShortHello, HelloAgain, auth
<1>2. CASE HelloFails(c)     BY <1>2 DEF HelloFails, auth
<1>3. CASE CheckTrusted(c)   BY <1>3 DEF CheckTrusted, Checked
<1>4. ASSUME NEW p \in Given, CheckRefused(c, p) PROVE TypeOK'
  BY <1>4 DEF CheckRefused, Checked
<1>5. ASSUME NEW p \in Given, CheckRight(c, p) PROVE TypeOK'
  <2>1. failures' \in [Addrs -> 0..MaxFailures - 1] /\ tries' \in [Addrs -> Nat]
    BY <1>0, <1>b, <1>5, Updated DEF CheckRight
  <2>2. QED BY <1>5, <2>1 DEF CheckRight, Checked
<1>6. ASSUME NEW p \in Given, CheckWrong(c, p) PROVE TypeOK'
  <2>1. From(c) \in Addrs
    BY <1>6, FromAddrs DEF CheckWrong, HasEntry
  <2> DEFINE f == failures[From(c)]
  <2>2. f \in 0..MaxFailures - 1 /\ tries[From(c)] + 1 \in Nat
    BY ONLY <1>c, <2>1
  <2>3. tries' \in [Addrs -> Nat]
    <3>1. tries' = [tries EXCEPT ![From(c)] = tries[From(c)] + 1]
      BY <1>6 DEF CheckWrong
    <3>2. QED BY ONLY <1>0, <2>1, <2>2, <3>1, Updated
  <2>4. failures' \in [Addrs -> 0..MaxFailures - 1]
    <3>1. CASE f + 1 >= MaxFailures
      <4>1. failures' = [failures EXCEPT ![From(c)] = 0]
        BY <1>6, <3>1 DEF CheckWrong, LastTry
      <4>2. QED BY ONLY <1>0, <1>b, <2>1, <4>1, Updated
    <3>2. CASE ~(f + 1 >= MaxFailures)
      <4>1. f + 1 \in 0..MaxFailures - 1
        BY ONLY <1>a, <2>2, <3>2
      <4>2. failures' = [failures EXCEPT ![From(c)] = f + 1]
        BY <1>6, <3>2 DEF CheckWrong, LastTry
      <4>3. QED BY ONLY <1>0, <2>1, <4>1, <4>2, Updated
    <3>3. QED BY ONLY <3>1, <3>2
  <2>5. locked' \subseteq Addrs
    BY <1>6, <2>1 DEF CheckWrong
  <2>6. QED BY <1>6, <2>3, <2>4, <2>5 DEF CheckWrong, Checked
<1>7. CASE Penalty(c)        BY <1>7 DEF Penalty, auth
<1>8. CASE Admit(c)
  <2>1. c \in entries /\ clients[c] \in Entry
    BY <1>8, FromAddrs DEF Admit, HasEntry
  <2>2. entries' = entries /\ clients' \in [entries -> Entry]
    <3>1. [clients[c] EXCEPT !.authed = TRUE] \in Entry
      BY <2>1 DEF Entry
    <3>2. clients' = clients \/ clients' = [clients EXCEPT ![c] = [clients[c] EXCEPT !.authed = TRUE]]
      BY <1>8 DEF Admit
    <3>3. CASE clients' = clients
      BY <1>0, <3>3 DEF entries
    <3>4. CASE clients' = [clients EXCEPT ![c] = [clients[c] EXCEPT !.authed = TRUE]]
      <4>1. /\ clients' \in [entries -> Entry] /\ DOMAIN clients' = entries
        BY ONLY <1>0, <2>1, <3>1, <3>4, Updated
      <4>2. QED BY ONLY <4>1 DEF entries
    <3>5. QED BY ONLY <3>2, <3>3, <3>4
  <2>3. QED BY <1>8, <2>2 DEF Admit, auth
<1>9. CASE ServingEnds(c)    BY <1>9 DEF ServingEnds, auth
<1>10. CASE ServingStops(c)  BY <1>10 DEF ServingStops, auth
<1>11. CASE Erase(c)         BY <1>11 DEF Erase, auth
<1>12. CASE Finish(c)        BY <1>12 DEF Finish, auth
<1>13. QED
  BY <1>1, <1>2, <1>3, <1>4, <1>5, <1>6, <1>7, <1>8, <1>9, <1>10, <1>11, <1>12,
     <1>14 DEF Handler

LEMMA SocketType ==
  ASSUME SessionsInv, NEW c \in Conns, Close(c) \/ Vanish(c) \/ Keepalive(c) \/ Kick(c)
  PROVE  TypeOK'
<1> USE DEF SessionsInv, TypeOK
<1>0. panel \in 0..MaxPanel
  OBVIOUS
<1>1. c \in entries /\ clients[c] \in Entry
  BY DEF Close, Vanish, Keepalive, Kick, PairedIds
<1>2. ASSUME NEW s \in Sockets, Socket(c, s)
      PROVE  entries' = entries /\ clients' \in [entries -> Entry]
  BY <1>1, <1>2 DEF Socket, Entry, entries
<1>3. entries' = entries /\ clients' \in [entries -> Entry]
  BY <1>2 DEF Close, Vanish, Keepalive, Kick, Sockets
<1>4. CASE Close(c) \/ Vanish(c) \/ Keepalive(c)
  BY <1>3, <1>4 DEF Close, Vanish, Keepalive, Socket, auth
<1>5. CASE Kick(c)
  <2>1. From(c) \in Addrs
    BY <1>1 DEF Entry, From
  <2>2. panel' \in 0..MaxPanel
    <3>1. panel < MaxPanel /\ panel' = panel + 1 /\ MaxPanel \in Nat
      BY <1>5, SessionsAssumption DEF Kick
    <3>2. QED BY ONLY <1>0, <3>1
  <2>3. QED BY <1>3, <1>5, <2>1, <2>2 DEF Kick, Socket
<1>6. QED BY <1>4, <1>5

LEMMA AcceptType ==
  ASSUME SessionsInv, NEW a \in Addrs, Accept(a)
  PROVE  TypeOK'
<1> USE SessionsAssumption DEF SessionsInv, TypeOK, Accept
<1>1. nextId \in Conns /\ nextId' \in 1..MaxConns + 1
  <2>1. nextId \in 1..MaxConns + 1 /\ nextId <= MaxConns /\ nextId' = nextId + 1 /\ MaxConns \in Nat
    OBVIOUS
  <2>2. QED BY ONLY <2>1 DEF Conns
<1>2. entries' = entries \cup {nextId} /\ clients' \in [entries' -> Entry]
  <2>1. [addr |-> a, socket |-> "open", authed |-> FALSE] \in Entry
    BY DEF Entry, Sockets
  <2>2. QED BY <2>1 DEF With, entries
<1>3. at' \in [Conns -> Stages]
  BY <1>1 DEF Stages
<1>4. QED BY <1>1, <1>2, <1>3 DEF auth

LEMMA TypeKept ==
  ASSUME SessionsInv, [Next]_vars
  PROVE  TypeOK'
<1> USE DEF SessionsInv, TypeOK
<1>1. CASE Connection \/ Refuse \/ Stop \/ JoinLoops \/ UNCHANGED vars
  BY <1>1 DEF Connection, Refuse, Stop, JoinLoops, vars, handlers, auth, entries
<1>2. CASE ShutAll
  <2>1. ASSUME NEW c \in entries PROVE Shut(c) \in Entry
    BY DEF Shut, Entry, Sockets
  <2>2. entries' = entries /\ clients' \in [entries -> Entry]
    BY <1>2, <2>1 DEF ShutAll, entries
  <2>3. QED BY <1>2, <2>2 DEF ShutAll, auth
<1>3. CASE JoinHandlers
  <2>1. entries' = {} /\ clients' \in [entries' -> Entry]
    BY <1>3 DEF JoinHandlers, entries
  <2>2. QED BY <1>3, <2>1 DEF JoinHandlers, auth
<1>4. ASSUME NEW t \in {"accept", "discovery"}, LoopEnds(t) PROVE TypeOK'
  BY <1>4 DEF LoopEnds, handlers, auth, entries
<1>5. ASSUME NEW a \in Addrs, Unlock(a) PROVE TypeOK'
  BY <1>5 DEF Unlock, handlers, entries
<1>6. ASSUME NEW p \in Given, SetPin(p) PROVE TypeOK'
  <2>1. panel' \in 0..MaxPanel
    <3>1. panel \in 0..MaxPanel /\ panel < MaxPanel /\ panel' = panel + 1 /\ MaxPanel \in Nat
      BY <1>6, SessionsAssumption DEF SetPin
    <3>2. QED BY ONLY <3>1
  <2>2. QED BY <1>6, <2>1 DEF SetPin, handlers, auth, entries
<1>7. QED
  BY <1>1, <1>2, <1>3, <1>4, <1>5, <1>6, AcceptType, HandlerType, SocketType
     DEF Next, Stopping, Stopped

(***************************************************************************)
(* The places are respected                                                *)
(***************************************************************************)
(* The accept loop adds an entry only below the limit, a handler pairs its *)
(* connection only below the limit; everything else keeps or drops some.   *)
LEMMA AcceptPlaces ==
  ASSUME SessionsInv, NEW a \in Addrs, Accept(a)
  PROVE  PlacesRespected'
<1>1. entries' = entries \cup {nextId} /\ PairedIds' \subseteq PairedIds
  BY DEF Accept, With, entries, PairedIds
<1>2. IsFiniteSet(entries) /\ IsFiniteSet(PairedIds)
  BY EntriesFinite DEF SessionsInv
<1>3. /\ Cardinality(entries) \in Nat
      /\ Cardinality(entries \cup {nextId}) <= Cardinality(entries) + 1
      /\ Cardinality(entries \cup {nextId}) \in Nat
  <2>1. Cardinality(entries) \in Nat
    BY ONLY <1>2, FS_CardinalityType
  <2>2. /\ IsFiniteSet(entries \cup {nextId})
        /\ \/ Cardinality(entries \cup {nextId}) = Cardinality(entries)
           \/ Cardinality(entries \cup {nextId}) = Cardinality(entries) + 1
    BY ONLY <1>2, FS_AddElement
  <2>3. QED BY ONLY <2>1, <2>2
<1>4. Cardinality(PairedIds') <= Cardinality(PairedIds)
      /\ Cardinality(PairedIds') \in Nat /\ Cardinality(PairedIds) \in Nat
  BY ONLY <1>1, <1>2, FS_Subset, FS_CardinalityType
<1>5. ~(Cardinality(entries) >= MaxClients + MaxPending)
  BY DEF Accept, Full
<1>6. Cardinality(PairedIds) <= MaxClients
  BY DEF SessionsInv, PlacesRespected
<1>7. MaxClients \in Nat /\ MaxPending \in Nat
  BY SessionsAssumption
<1>8. Cardinality(entries') <= MaxClients + MaxPending
  BY ONLY <1>1, <1>3, <1>5, <1>7
<1>9. Cardinality(PairedIds') <= MaxClients
  BY ONLY <1>4, <1>6, <1>7
<1>10. QED BY <1>8, <1>9 DEF PlacesRespected

LEMMA AdmitPlaces ==
  ASSUME SessionsInv, NEW c \in Conns, Admit(c)
  PROVE  PlacesRespected'
<1>1. CASE NoPlace
  BY <1>1, PlacesFewer DEF Admit, SessionsInv, entries, PairedIds
<1>2. CASE ~NoPlace
  <2>1. clients' = [clients EXCEPT ![c].authed = TRUE]
    BY <1>2 DEF Admit
  <2>2. entries' = entries /\ PairedIds' \subseteq PairedIds \cup {c}
    BY <2>1 DEF entries, PairedIds
  <2>3. IsFiniteSet(PairedIds)
    BY EntriesFinite DEF SessionsInv
  <2>4. /\ Cardinality(PairedIds) \in Nat
        /\ IsFiniteSet(PairedIds \cup {c})
        /\ Cardinality(PairedIds \cup {c}) <= Cardinality(PairedIds) + 1
        /\ Cardinality(PairedIds \cup {c}) \in Nat
    BY ONLY <2>3, FS_AddElement, FS_CardinalityType
  <2>5. Cardinality(PairedIds') <= Cardinality(PairedIds \cup {c})
        /\ Cardinality(PairedIds') \in Nat
    BY ONLY <2>2, <2>4, FS_Subset, FS_CardinalityType
  <2>6. ~(Cardinality(PairedIds) >= MaxClients)
    BY <1>2 DEF NoPlace
  <2>7. MaxClients \in Nat
    BY SessionsAssumption
  <2>8. Cardinality(PairedIds') <= MaxClients
    BY ONLY <2>4, <2>5, <2>6, <2>7
  <2>9. Cardinality(entries') <= MaxClients + MaxPending
    BY <2>2 DEF SessionsInv, PlacesRespected
  <2>10. QED BY <2>8, <2>9 DEF PlacesRespected
<1>3. QED BY <1>1, <1>2

(* The steps of a connection that pair nobody.                             *)
LEMMA LeavingPlaces ==
  ASSUME SessionsInv, NEW c \in Conns,
         Hello(c) \/ ShortHello(c) \/ ServingStops(c) \/ (Handler(c) /\ ~Admit(c))
         \/ Close(c) \/ Vanish(c) \/ Keepalive(c) \/ Kick(c)
  PROVE  PlacesRespected'
<1>1. CASE clients' = clients
  BY <1>1, PlacesFewer DEF SessionsInv, entries, PairedIds
<1>2. CASE Erase(c)
  <2>1. clients' = [d \in entries \ {c} |-> clients[d]]
    BY <1>2 DEF Erase
  <2>2. entries' \subseteq entries /\ PairedIds' \subseteq PairedIds
    BY ONLY <2>1 DEF entries, PairedIds
  <2>3. QED BY <2>2, PlacesFewer DEF SessionsInv
<1>3. ASSUME NEW s \in Sockets, Socket(c, s), c \in entries
      PROVE  PlacesRespected'
  <2>1. clients[c] \in Entry
    BY <1>3 DEF SessionsInv, TypeOK
  <2>2. clients' = [clients EXCEPT ![c].socket = s]
    BY <1>3 DEF Socket
  <2>3. entries' = entries /\ clients'[c].authed = clients[c].authed
    BY ONLY <1>3, <2>1, <2>2 DEF entries, Entry
  <2>4. PairedIds' \subseteq PairedIds
    BY <2>2, <2>3 DEF entries, PairedIds
  <2>5. QED BY <2>3, <2>4, PlacesFewer DEF SessionsInv
<1>4. CASE Close(c) \/ Vanish(c) \/ Keepalive(c) \/ Kick(c)
  BY <1>3, <1>4 DEF Close, Vanish, Keepalive, Kick, Sockets, PairedIds
<1>5. CASE Handler(c) /\ ~Admit(c) /\ ~Erase(c)
  BY <1>1, <1>5 DEF Handler, HelloAgain, HelloFails, CheckTrusted, CheckRefused, CheckRight,
                    CheckWrong, Checked, Penalty, ServingEnds, Finish
<1>6. QED
  BY <1>1, <1>2, <1>4, <1>5 DEF Hello, ShortHello, ServingStops

LEMMA PlacesKept ==
  ASSUME SessionsInv, [Next]_vars
  PROVE  PlacesRespected'
<1>1. CASE clients' = clients
  BY <1>1, PlacesFewer DEF SessionsInv, entries, PairedIds
<1>2. CASE ShutAll
  <2>1. clients' = [c \in entries |-> Shut(c)]
    BY <1>2 DEF ShutAll
  <2>2. \A c \in entries : clients[c] \in Entry
    BY DEF SessionsInv, TypeOK
  <2>3. \A c \in entries : Shut(c).authed = clients[c].authed
    BY ONLY <2>2 DEF Shut, Entry
  <2>4. entries' = entries
    BY <2>1 DEF entries
  <2>5. PairedIds' \subseteq PairedIds
    BY <2>1, <2>3, <2>4 DEF PairedIds, Shut
  <2>6. QED BY <2>4, <2>5, PlacesFewer DEF SessionsInv
<1>3. CASE JoinHandlers
  <2>1. entries' = {} /\ PairedIds' = {}
    BY <1>3 DEF JoinHandlers, entries, PairedIds
  <2>2. QED BY <2>1, PlacesFewer DEF SessionsInv
<1>4. QED
  BY <1>1, <1>2, <1>3, AcceptPlaces, AdmitPlaces, LeavingPlaces
     DEF Next, Connection, Refuse, Stop, JoinLoops, Stopping, Stopped, LoopEnds, Unlock, SetPin,
         vars, handlers

(***************************************************************************)
(* The wrong PINs are counted                                              *)
(***************************************************************************)
LEMMA GuessesKept ==
  ASSUME SessionsInv, [Next]_vars
  PROVE  GuessesInv'
<1>1. CASE UNCHANGED <<failures, locked, tries>>
  BY <1>1 DEF SessionsInv, GuessesInv
<1>0. /\ failures \in [Addrs -> 0..MaxFailures - 1] /\ tries \in [Addrs -> Nat]
      /\ MaxFailures \in Nat \ {0} /\ GuessesInv
  BY SessionsAssumption DEF SessionsInv, TypeOK
<1>2. ASSUME NEW c \in Conns, NEW p \in Given, CheckRight(c, p) PROVE GuessesInv'
  <2>1. /\ failures' = [failures EXCEPT ![From(c)] = 0] /\ tries' = [tries EXCEPT ![From(c)] = 0]
        /\ locked' = locked /\ From(c) \notin locked
    BY <1>2 DEF CheckRight, LockedOut
  <2>2. QED BY ONLY <1>0, <2>1 DEF GuessesInv
<1>3. ASSUME NEW c \in Conns, NEW p \in Given, CheckWrong(c, p) PROVE GuessesInv'
  <2> DEFINE a == From(c)
  <2>1. a \notin locked /\ tries' = [tries EXCEPT ![a] = tries[a] + 1]
    BY <1>3 DEF CheckWrong, LockedOut
  <2>2. a \in Addrs
    BY <1>3, FromAddrs DEF CheckWrong, HasEntry
  <2>3. failures[a] \in 0..MaxFailures - 1 /\ tries[a] = failures[a]
    BY ONLY <1>0, <2>1, <2>2 DEF GuessesInv
  <2>4. CASE LastTry(a)
    <3>1. failures' = [failures EXCEPT ![a] = 0] /\ locked' = locked \cup {a}
      BY <1>3, <2>4 DEF CheckWrong
    <3>2. tries[a] + 1 <= MaxFailures
      BY ONLY <1>0, <2>3
    <3>3. QED BY ONLY <1>0, <2>1, <2>2, <3>1, <3>2 DEF GuessesInv
  <2>5. CASE ~LastTry(a)
    <3>1. failures' = [failures EXCEPT ![a] = failures[a] + 1] /\ locked' = locked
      BY <1>3, <2>5 DEF CheckWrong
    <3>2. QED BY ONLY <1>0, <2>1, <2>2, <2>3, <3>1 DEF GuessesInv
  <2>6. QED BY <2>4, <2>5
<1>4. ASSUME NEW a \in Addrs, Unlock(a) PROVE GuessesInv'
  <2>1. /\ a \in locked /\ locked' = locked \ {a} /\ tries' = [tries EXCEPT ![a] = 0]
        /\ failures' = failures
    BY <1>4 DEF Unlock
  <2>2. QED BY ONLY <1>0, <2>1 DEF GuessesInv
<1>5. ASSUME NEW c \in Conns, Handler(c) PROVE GuessesInv'
  BY <1>1, <1>2, <1>3, <1>5
     DEF Handler, HelloAgain, HelloFails, CheckTrusted, CheckRefused, Penalty, Admit, ServingEnds, Erase,
         Finish, auth
<1>6. ASSUME NEW c \in Conns,
             \/ Hello(c) \/ ShortHello(c) \/ ServingStops(c)
             \/ Close(c) \/ Vanish(c) \/ Keepalive(c) \/ Kick(c)
      PROVE  GuessesInv'
  BY <1>1, <1>6 DEF Hello, ShortHello, ServingStops, Close, Vanish, Keepalive, Kick, auth
<1>7. QED
  BY <1>1, <1>4, <1>5, <1>6
     DEF Next, Connection, Refuse, Stop, Stopping, Stopped, JoinLoops, ShutAll, JoinHandlers,
         LoopEnds, Accept, SetPin, vars, auth

(***************************************************************************)
(* The handlers are known                                                  *)
(***************************************************************************)
(* A step of a handler that still runs, from one stage to a later one.     *)
LEMMA Moved ==
  ASSUME SessionsInv, NEW c \in Conns, NEW stage \in Stages, Alive(c), Go(c, stage),
         UNCHANGED <<phase, loops, taking, nextId, threads>>,
         stage \in HasEntry => c \in entries,
         stage # "none",
         \/ entries' = entries
         \/ entries' = entries \ {c} /\ stage \notin HasEntry,
         \/ finished' = finished
         \/ finished' = finished \cup {c} /\ stage = "ended"
  PROVE  HandlersInv'
<1>1. /\ at' = [at EXCEPT ![c] = stage] /\ at \in [Conns -> Stages]
      /\ HandlersInv
  BY DEF Go, SessionsInv, TypeOK
<1>2. \A d \in Conns : at'[d] = IF d = c THEN stage ELSE at[d]
  BY ONLY <1>1
<1>3. taking' => "accept" \in loops'
  BY <1>1 DEF HandlersInv
<1>4. phase' \in {"shut", "join handlers", "off"} => loops' = {}
  BY <1>1 DEF HandlersInv
<1>5. phase # "off"
  BY <1>1 DEF HandlersInv
<1>6. ASSUME NEW d \in Conns
      PROVE  /\ d >= nextId' => at'[d] = "none"
             /\ at'[d] \in HasEntry => d \in entries'
             /\ d \in finished' => at'[d] = "ended"
             /\ Alive(d)' => d \in threads'
             /\ phase' = "off" => ~Alive(d)'
  <2>1. CASE d = c
    BY <1>1, <1>2, <1>5, <2>1 DEF HandlersInv, Alive
  <2>2. CASE d # c
    BY <1>1, <1>2, <1>5, <2>2 DEF HandlersInv, Alive
  <2>3. QED BY <2>1, <2>2
<1>7. QED BY <1>3, <1>4, <1>6 DEF HandlersInv

LEMMA HandlerMoves ==
  ASSUME SessionsInv, NEW c \in Conns, Hello(c) \/ ShortHello(c) \/ ServingStops(c) \/ Handler(c)
  PROVE  HandlersInv'
<1>1. CASE Hello(c)
  <2>1. at[c] = "hello" /\ c \in entries
    BY <1>1, FromAddrs DEF Hello, HasEntry
  <2>2. PICK stage \in {"leaving", "check"} : Go(c, stage)
    BY <1>1 DEF Hello
  <2>3. stage \in Stages
    BY DEF Stages
  <2>4. entries' = entries /\ UNCHANGED <<phase, loops, taking, nextId, threads, finished>>
    BY <1>1 DEF Hello, entries
  <2>5. QED BY <2>1, <2>2, <2>3, <2>4, Moved DEF Alive
<1>2. CASE HelloFails(c) \/ Penalty(c) \/ ServingEnds(c) \/ ServingStops(c)
  <2>1. at[c] \in {"hello", "penalty", "serving"} /\ Go(c, "leaving")
    BY <1>2 DEF HelloFails, HelloOver, Penalty, ServingEnds, ServingStops
  <2>2. c \in entries
    BY <2>1, FromAddrs DEF HasEntry
  <2>3. entries' = entries /\ UNCHANGED <<phase, loops, taking, nextId, threads, finished>>
    BY <1>2 DEF HelloFails, Penalty, ServingEnds, ServingStops, entries
  <2>4. QED BY <2>1, <2>2, <2>3, Moved DEF Alive, Stages
<1>3. CASE \/ CheckTrusted(c)
           \/ \E p \in Given : CheckRefused(c, p) \/ CheckRight(c, p) \/ CheckWrong(c, p)
  <2>1. PICK stage \in {"admit", "leaving", "penalty"} : Checked(c, stage)
    BY <1>3 DEF CheckTrusted, CheckRefused, CheckRight, CheckWrong
  <2>2. at[c] = "check"
    BY <1>3 DEF CheckTrusted, CheckRefused, CheckRight, CheckWrong
  <2>3. c \in entries
    BY <2>2, FromAddrs DEF HasEntry
  <2>4. /\ Go(c, stage) /\ entries' = entries
        /\ UNCHANGED <<phase, loops, taking, nextId, threads, finished>>
    BY <2>1 DEF Checked, entries
  <2>5. stage \in Stages
    BY DEF Stages
  <2>6. QED BY <2>2, <2>3, <2>4, <2>5, Moved DEF Alive
<1>4. CASE Admit(c)
  <2>1. PICK stage \in {"leaving", "serving"} : Go(c, stage)
    BY <1>4 DEF Admit
  <2>2. at[c] = "admit" /\ c \in entries
    BY <1>4, FromAddrs DEF Admit, HasEntry
  <2>3. entries' = entries /\ UNCHANGED <<phase, loops, taking, nextId, threads, finished>>
    BY <1>4 DEF Admit, entries
  <2>4. stage \in Stages
    BY DEF Stages
  <2>5. QED BY <2>1, <2>2, <2>3, <2>4, Moved DEF Alive
<1>5. CASE Erase(c)
  <2>1. entries' = entries \ {c}
    BY <1>5 DEF Erase, entries
  <2>2. at[c] = "leaving" /\ Go(c, "left") /\ UNCHANGED <<phase, loops, taking, nextId, threads, finished>>
    BY <1>5 DEF Erase
  <2>3. QED BY <2>1, <2>2, Moved DEF Alive, Stages, HasEntry
<1>6. CASE Finish(c)
  <2>1. /\ at[c] = "left" /\ Go(c, "ended") /\ finished' = finished \cup {c} /\ entries' = entries
        /\ UNCHANGED <<phase, loops, taking, nextId, threads>>
    BY <1>6 DEF Finish, entries
  <2>2. QED BY <2>1, Moved DEF Alive, Stages, HasEntry
<1>7. CASE ShortHello(c) \/ HelloAgain(c)
  <2>1. PICK stage \in {"hello", "heard", "leaving"} : Go(c, stage)
    BY <1>7 DEF ShortHello, HelloAgain
  <2>2. at[c] \in {"hello", "heard"} /\ c \in entries
    BY <1>7, FromAddrs DEF ShortHello, HelloAgain, HasEntry
  <2>3. entries' = entries /\ UNCHANGED <<phase, loops, taking, nextId, threads, finished>>
    BY <1>7 DEF ShortHello, HelloAgain, entries
  <2>4. stage \in Stages
    BY DEF Stages
  <2>5. QED BY <2>1, <2>2, <2>3, <2>4, Moved DEF Alive
<1>8. QED BY <1>1, <1>2, <1>3, <1>4, <1>5, <1>6, <1>7 DEF Handler

LEMMA AcceptKnows ==
  ASSUME SessionsInv, NEW a \in Addrs, Accept(a)
  PROVE  HandlersInv'
<1>1. /\ HandlersInv /\ at \in [Conns -> Stages] /\ nextId \in Conns
      /\ nextId' = nextId + 1 /\ nextId \in Nat /\ MaxConns \in Nat
  <2>1. nextId \in 1..MaxConns + 1 /\ MaxConns \in Nat /\ nextId <= MaxConns
    BY SessionsAssumption DEF Accept, SessionsInv, TypeOK
  <2>2. nextId \in Conns /\ nextId \in Nat
    BY ONLY <2>1 DEF Conns
  <2>3. QED BY <2>1, <2>2 DEF Accept, SessionsInv, TypeOK
<1>2. /\ at' = [at EXCEPT ![nextId] = "hello"] /\ entries' = entries \cup {nextId}
      /\ threads' = (threads \ finished) \cup {nextId} /\ finished' = finished \ threads
      /\ taking /\ ~taking' /\ phase' = phase /\ loops' = loops
  BY DEF Accept, With, entries
<1>3. \A d \in Conns : at'[d] = IF d = nextId THEN "hello" ELSE at[d]
  BY ONLY <1>1, <1>2
<1>4. phase # "off"
  BY ONLY <1>1, <1>2 DEF HandlersInv
<1>5. ASSUME NEW d \in Conns
      PROVE  /\ d >= nextId' => at'[d] = "none"
             /\ at'[d] \in HasEntry => d \in entries'
             /\ d \in finished' => at'[d] = "ended"
             /\ Alive(d)' => d \in threads'
             /\ phase' = "off" => ~Alive(d)'
  <2>1. CASE d = nextId
    <3>1. at[d] = "none" /\ d \notin finished
      <4>1. d \in Conns /\ d >= nextId
        BY ONLY <1>1, <2>1
      <4>2. /\ d >= nextId => at[d] = "none"
            /\ d \in finished => at[d] = "ended"
        BY ONLY <1>1, <4>1 DEF HandlersInv
      <4>3. QED BY ONLY <4>1, <4>2
    <3>3. ~(d >= nextId')
      BY ONLY <1>1, <2>1
    <3>4. QED BY ONLY <1>2, <1>3, <1>4, <1>5, <2>1, <3>1, <3>3 DEF Alive, HasEntry
  <2>2. CASE d # nextId
    <3>1. d >= nextId' => d >= nextId
      BY ONLY <1>1, <1>5 DEF Conns
    <3>2. d \in finished => ~Alive(d)
      BY ONLY <1>1, <1>5 DEF HandlersInv, Alive
    <3>3. QED BY ONLY <1>1, <1>2, <1>3, <1>4, <1>5, <2>2, <3>1, <3>2 DEF HandlersInv, Alive
  <2>3. QED BY ONLY <2>1, <2>2
<1>6. QED BY ONLY <1>1, <1>2, <1>5 DEF HandlersInv

LEMMA HandlersInvKept ==
  ASSUME SessionsInv, [Next]_vars
  PROVE  HandlersInv'
<1>0. HandlersInv
  BY DEF SessionsInv
<1>1. CASE /\ UNCHANGED <<phase, loops, taking, nextId, at, threads, finished>>
           /\ entries' = entries
  BY <1>0, <1>1 DEF HandlersInv, Alive
<1>2. ASSUME NEW c \in Conns, Close(c) \/ Vanish(c) \/ Keepalive(c) \/ Kick(c)
      PROVE  HandlersInv'
  BY <1>1, <1>2 DEF Close, Vanish, Keepalive, Kick, Socket, entries
<1>3. CASE ShutAll
  BY <1>0, <1>3 DEF ShutAll, HandlersInv, Alive, entries
<1>4. CASE JoinHandlers
  <2>1. \A c \in Conns : at[c] \in {"none", "ended"}
    BY <1>0, <1>4 DEF JoinHandlers, HandlersInv, Alive
  <2>2. QED BY <1>0, <1>4, <2>1 DEF JoinHandlers, HandlersInv, Alive, HasEntry
<1>5. CASE Connection
  BY <1>0, <1>5 DEF Connection, handlers, HandlersInv, Alive, running, entries
<1>6. CASE Refuse
  BY <1>0, <1>6 DEF Refuse, handlers, HandlersInv, Alive, entries
<1>7. CASE Stop \/ JoinLoops
  <2>1. /\ UNCHANGED <<loops, taking, nextId, at, threads, finished>> /\ entries' = entries
        /\ phase' \in {"join loops", "shut"} /\ (phase' = "shut" => loops = {})
    BY <1>7 DEF Stop, JoinLoops, LoopsEnded, handlers, entries
  <2>2. QED BY ONLY <1>0, <2>1 DEF HandlersInv, Alive
<1>8. ASSUME NEW t \in {"accept", "discovery"}, LoopEnds(t) PROVE HandlersInv'
  BY <1>0, <1>8 DEF LoopEnds, handlers, HandlersInv, Alive, entries
<1>9. CASE Stopped \/ UNCHANGED vars
  BY <1>1, <1>9 DEF Stopped, vars, handlers, entries
<1>10. ASSUME NEW a \in Addrs, Unlock(a) PROVE HandlersInv'
  BY <1>1, <1>10 DEF Unlock, handlers, entries
<1>11. ASSUME NEW p \in Given, SetPin(p) PROVE HandlersInv'
  BY <1>1, <1>11 DEF SetPin, handlers, entries
<1>12. QED
  BY <1>2, <1>3, <1>4, <1>5, <1>6, <1>7, <1>8, <1>9, <1>10, <1>11, HandlerMoves, AcceptKnows
     DEF Next, Stopping

(***************************************************************************)
(* Theorems                                                                *)
(***************************************************************************)
LEMMA SessionsInvariant == Spec => []SessionsInv
<1>1. SessionsInv /\ [Next]_vars => SessionsInv'
  BY TypeKept, PlacesKept, GuessesKept, HandlersInvKept DEF SessionsInv
<1>2. QED BY SessionsInit, <1>1, PTL DEF Spec

(* Every variable of the sessions keeps its type (server.hpp's members).   *)
THEOREM SessionsTypeCorrect == Spec => []TypeOK
<1>1. SessionsInv => TypeOK
  BY DEF SessionsInv
<1>2. QED BY <1>1, SessionsInvariant, PTL

(* With any number of connections, and however their HELLOs interleave, a  *)
(* host never pairs more than --max-clients of them and never keeps more   *)
(* than kMaxPending above that (accept_loop(), handle_client()).           *)
THEOREM PlacesAreRespected == Spec => []PlacesRespected
<1>1. SessionsInv => PlacesRespected
  BY DEF SessionsInv
<1>2. QED BY <1>1, SessionsInvariant, PTL

(* With any number of connections and PINs, an address compares at most    *)
(* the allowed number of wrong PINs before its lock-out (check_pin()).     *)
THEOREM GuessesAreBounded == Spec => []GuessesBounded
<1>1. SessionsInv => GuessesBounded
  <2>1. ASSUME SessionsInv, NEW a \in Addrs PROVE tries[a] <= MaxFailures
    <3>1. /\ failures \in [Addrs -> 0..MaxFailures - 1] /\ MaxFailures \in Nat \ {0}
          /\ GuessesInv
      BY <2>1, SessionsAssumption DEF SessionsInv, TypeOK
    <3>2. QED BY ONLY <2>1, <3>1 DEF GuessesInv
  <2>2. QED BY <2>1 DEF GuessesBounded
<1>2. QED BY <1>1, SessionsInvariant, PTL

(* A handler thread that runs is one stop() will join, and none runs once  *)
(* stop() returned (accept_loop()'s reaping, handle_client()'s end,        *)
(* stop()).                                                                *)
THEOREM HandlersAreKept == Spec => []HandlersKept
<1>1. SessionsInv => HandlersKept
  BY DEF SessionsInv, HandlersInv, HandlersKept
<1>2. QED BY <1>1, SessionsInvariant, PTL

(***************************************************************************)
(* RateControl                                                             *)
(***************************************************************************)
(* Trouble that is two windows old has left nothing behind. What it leaves   *)
(* until then: a link that is not clean has had no window to itself; a lost  *)
(* frame waits for the next ACK, which comes before time goes on; nobody has *)
(* waited for an ACK longer than for a frame, or it is on its way - unless   *)
(* the capture was lost.                                                     *)
LastArrives == Len(out) > 0 /\ ~out[Len(out)].lost
NoneLost == \A i \in 1..Len(out) : ~out[i].lost

LinkInv == link # "clean" /\ trouble > 0 => trouble < Forgiven /\ window < Second
LossInv == trouble > 0 => NoneLost \/ (LastArrives /\ trouble < Forgiven /\ window < Second)
AckInv ==
    streaming /\ trouble > 0 /\ capture = "on" => acked <= idle \/ (idle = 0 /\ LastArrives)
WindowInv == trouble = Forgiven => lost = 0 /\ ~late /\ (capture = "on" => ~stalled)
TroubleInv == LinkInv /\ LossInv /\ AckInv /\ WindowInv
RateInv == RateTypeOK /\ TroubleInv

Outs == [age : 0..FrameDelay + 1, lost : BOOLEAN]

LEMMA OldestIs ==
  ASSUME out \in Seq(Outs), Arriving # {}
  PROVE  Oldest \in Arriving /\ Oldest \in 1..Len(out) /\ \A i \in 1..Oldest - 1 : out[i].lost
<1>1. Arriving \subseteq Nat
  BY DEF Arriving
<1>2. PICK m \in Arriving : \A n \in Arriving : <<n, m>> \notin OpToRel(<, Nat)
  BY <1>1, NatLessThanWellFounded, WFMin
<1>3. \A n \in Arriving : ~(n < m)
  BY <1>1, <1>2 DEF OpToRel
<1>6. \A n \in Arriving : m <= n
  BY <1>1, <1>3
<1>4. Oldest \in Arriving /\ \A n \in Arriving : Oldest <= n
  BY <1>6 DEF Oldest
<1>5. QED BY <1>4 DEF Arriving

LEMMA RateNumbers ==
  /\ FullRate \in Nat /\ FullRate >= 1 /\ MinSample \in Nat /\ MaxOut \in Nat /\ MaxOut >= 1
  /\ FrameDelay \in Nat /\ Second \in Nat /\ Second >= 1 /\ Stall \in Nat /\ Second < Stall
  /\ RaiseAfter \in Nat /\ Second < RaiseAfter /\ MaxSent \in Nat /\ MaxLost = 3 /\ Forgiven = 2
<1>1. {FullRate, LossPer, MinSample, MaxOut} \subseteq Nat \ {0}
  BY RateAssumption
<1>2. {FrameDelay, Second, Stall, RaiseAfter} \subseteq Nat
  BY RateAssumption
<1>3. FullRate \in Nat \ {0} /\ MinSample \in Nat \ {0} /\ MaxOut \in Nat \ {0}
  BY <1>1
<1>4. FrameDelay \in Nat /\ Second \in Nat /\ Stall \in Nat /\ RaiseAfter \in Nat
  BY <1>2
<1>5. QED BY <1>3, <1>4, RateAssumption DEF MaxSent, MaxLost, Forgiven

LEMMA OutAppended ==
  ASSUME out \in Seq(Outs), Len(out) <= MaxOut, NEW o \in Outs
  PROVE  /\ Append(Room, o) \in Seq(Outs) /\ Len(Append(Room, o)) \in 1..MaxOut
         /\ Append(Room, o)[Len(Append(Room, o))] = o
         /\ NoneLost => \A i \in 1..Len(Append(Room, o)) - 1 : ~Append(Room, o)[i].lost
<1> USE RateNumbers
<1>1. Room \in Seq(Outs) /\ Len(Room) <= MaxOut - 1
  <2>1. CASE Len(out) < MaxOut
    BY <2>1 DEF Room
  <2>2. CASE Len(out) = MaxOut
    <3>1. out # <<>> /\ Tail(out) \in Seq(Outs) /\ Len(Tail(out)) = Len(out) - 1
      BY <2>2
    <3>2. QED BY <2>2, <3>1 DEF Room
  <2>3. QED BY <2>1, <2>2
<1>2. NoneLost => \A i \in 1..Len(Room) : ~Room[i].lost
  <2>1. CASE Len(out) < MaxOut
    BY <2>1 DEF Room, NoneLost
  <2>2. CASE Len(out) = MaxOut
    <3>1. out # <<>> /\ Len(Tail(out)) = Len(out) - 1
      BY <2>2
    <3>2. \A i \in 1..Len(out) - 1 : Tail(out)[i] = out[i + 1]
      BY <3>1
    <3>3. QED BY <2>2, <3>1, <3>2 DEF Room, NoneLost
  <2>3. QED BY <2>1, <2>2
<1>3. /\ Append(Room, o) \in Seq(Outs) /\ Len(Append(Room, o)) = Len(Room) + 1
      /\ Append(Room, o)[Len(Room) + 1] = o
      /\ \A i \in 1..Len(Room) : Append(Room, o)[i] = Room[i]
  BY <1>1
<1>4. QED BY <1>1, <1>2, <1>3

(* The types in parts: numbers, flags and the frames under way.            *)
RateCounts ==
    /\ scale \in 1..FullRate /\ sent \in 0..MaxSent /\ lost \in 0..MaxLost
    /\ window \in 0..Second /\ cut \in 0..RaiseAfter
RateAges ==
    /\ acked \in -1..Stall + 1 /\ flowAck \in 0..Second
    /\ idle \in 0..Second /\ trouble \in 0..Forgiven
RateFlags ==
    /\ late \in BOOLEAN /\ stalled \in BOOLEAN /\ seen \in BOOLEAN
    /\ streaming \in BOOLEAN /\ busy \in BOOLEAN
    /\ link \in {"clean", "lossy", "slow", "dead"}
    /\ capture \in {"on", "lost", "back"}
OutType == out \in Seq(Outs) /\ Len(out) <= MaxOut

LEMMA RateTypes == RateTypeOK <=> RateCounts /\ RateAges /\ RateFlags /\ OutType
  BY DEF RateTypeOK, RateCounts, RateAges, RateFlags, OutType, Outs

LEMMA RateTypesNext == RateTypeOK' <=> RateCounts' /\ RateAges' /\ RateFlags' /\ OutType'
  BY RateTypes, PTL

LEMMA RateStarts == RateInit => RateInv
<1> SUFFICES ASSUME RateInit PROVE RateInv
  OBVIOUS
<1> USE RateNumbers DEF RateInit
<1>1. (FullRate + 1) \div 2 \in 1..FullRate
  OBVIOUS
<1>2. out \in Seq(Outs) /\ Len(out) = 0
  OBVIOUS
<1>3. RateTypeOK
  <2>1. RateCounts
    BY <1>1 DEF RateCounts
  <2>2. RateAges
    BY DEF RateAges
  <2>3. RateFlags
    BY DEF RateFlags
  <2>4. OutType
    BY <1>2 DEF OutType
  <2>5. QED BY <2>1, <2>2, <2>3, <2>4, RateTypes
<1>4. TroubleInv
  BY <1>2 DEF TroubleInv, LinkInv, LossInv, AckInv, WindowInv, NoneLost, LastArrives, Forgiven
<1>5. QED BY <1>3, <1>4 DEF RateInv

(***************************************************************************)
(* The types are kept                                                      *)
(***************************************************************************)
LEMMA RateSent ==
  ASSUME RateTypeOK, RateOnSent
  PROVE  /\ RateCounts' /\ late' \in BOOLEAN /\ stalled' \in BOOLEAN
         /\ window < Second => UNCHANGED <<scale, lost, late, window>>
                               /\ stalled' = (stalled \/ StallSeen)
         /\ window = Second => window' = 0 /\ lost' = 0 /\ late' = FALSE /\ stalled' = FALSE
<1> USE RateNumbers
<1> DEFINE n == AtMost(sent + 1, MaxSent)
           s == stalled \/ StallSeen
<1>1. RateCounts /\ RateFlags
  BY RateTypes
<1>2. n \in 0..MaxSent
  BY <1>1 DEF RateCounts, AtMost
<1>3. CASE window < Second
  <2>1. sent' = n /\ stalled' = s /\ UNCHANGED <<scale, lost, late, window, cut>>
    BY <1>1, <1>3 DEF RateOnSent, RateCounts
  <2>2. RateCounts'
    BY <1>1, <1>2, <2>1 DEF RateCounts, MaxSent, MaxLost
  <2>3. late' \in BOOLEAN /\ stalled' \in BOOLEAN
    BY <1>1, <2>1, Zenon DEF RateFlags
  <2>4. QED BY <1>3, <2>1, <2>2, <2>3
<1>4. CASE window = Second
  <2>1. Decide(n, Lossy(n) \/ s \/ late) /\ NewWindow
    BY <1>4 DEF RateOnSent
  <2>2. scale' \in 1..FullRate /\ cut' \in 0..RaiseAfter
    <3>1. Less \in 1..FullRate /\ More \in 1..FullRate
      BY <1>1 DEF Less, More, AtMost, RateCounts
    <3>2. scale' \in {Less, More, scale} /\ cut' \in {0, cut}
      BY <2>1 DEF Decide
    <3>3. QED BY <1>1, <3>1, <3>2 DEF RateCounts
  <2>3. window' = 0 /\ sent' = 0 /\ lost' = 0
    BY <2>1 DEF NewWindow
  <2>4. RateCounts'
    BY <2>2, <2>3 DEF RateCounts, MaxSent, MaxLost
  <2>5. late' = FALSE /\ stalled' = FALSE
    BY <2>1 DEF NewWindow
  <2>6. ~(window < Second)
    BY <1>4
  <2>7. QED BY <2>3, <2>4, <2>5, <2>6, Zenon
<1>5. window < Second \/ window = Second
  BY <1>1 DEF RateCounts
<1>6. QED BY <1>3, <1>4, <1>5, Zenon

LEMMA AckedOut ==
  ASSUME OutType, Arriving # {}
  PROVE  LET left == SubSeq(out, Oldest + 1, Len(out)) IN
         /\ left \in Seq(Outs) /\ Len(left) = Len(out) - Oldest
         /\ \A i \in 1..Len(left) : left[i] = out[i + Oldest]
<1>1. Oldest \in 1..Len(out)
  BY OldestIs DEF OutType
<1>2. QED BY <1>1 DEF OutType

LEMMA SendType ==
  ASSUME RateTypeOK, SendFrame
  PROVE  RateTypeOK'
<1>1. RateAges /\ RateFlags /\ OutType
  BY RateTypes
<1>2. RateCounts' /\ late' \in BOOLEAN /\ stalled' \in BOOLEAN
  BY RateSent DEF SendFrame
<1>3. OutType'
  <2>1. PICK gone \in BOOLEAN : out' = Append(Room, [age |-> 0, lost |-> gone])
    BY DEF SendFrame
  <2>2. [age |-> 0, lost |-> gone] \in Outs
    BY RateNumbers DEF Outs
  <2>3. QED BY <1>1, <2>1, <2>2, OutAppended DEF OutType
<1>4. RateAges'
  <2>1. trouble' \in {0, trouble, AtMost(trouble + 1, Forgiven)} /\ idle' = 0
        /\ UNCHANGED <<acked, flowAck>>
    BY DEF SendFrame, ack
  <2>2. QED BY <1>1, <2>1, RateNumbers DEF RateAges, AtMost, Forgiven
<1>5. RateFlags'
  BY <1>1, <1>2, Zenon DEF SendFrame, RateFlags, ack, world
<1>6. QED BY <1>2, <1>3, <1>4, <1>5, RateTypesNext

LEMMA AckType ==
  ASSUME RateTypeOK, FrameAck
  PROVE  RateTypeOK'
<1> USE RateNumbers
<1>1. RateCounts /\ RateAges /\ RateFlags /\ OutType
  BY RateTypes
<1>2. Oldest \in 1..Len(out)
  BY <1>1, OldestIs DEF FrameAck, OutType
<1>3. OutType'
  <2>1. Arriving # {} /\ out' = SubSeq(out, Oldest + 1, Len(out))
    BY DEF FrameAck
  <2>2. QED BY <1>1, <1>2, <2>1, AckedOut DEF OutType
<1>4. RateCounts'
  <2>1. lost' \in 0..MaxLost
    BY <1>1, <1>2 DEF FrameAck, RateCounts, OutType, AtMost
  <2>2. UNCHANGED <<scale, sent, window, cut>>
    BY DEF FrameAck
  <2>3. QED BY <1>1, <2>1, <2>2 DEF RateCounts, MaxSent, MaxLost
<1>5. RateAges'
  <2>1. acked' = 0 /\ flowAck' = 0 /\ trouble' \in {0, trouble} /\ idle' = idle
    BY DEF FrameAck
  <2>2. QED BY <1>1, <2>1 DEF RateAges, Forgiven
<1>6. RateFlags'
  <2>1. late' \in BOOLEAN /\ seen' = TRUE
        /\ UNCHANGED <<stalled, streaming, busy, link, capture>>
    BY Zenon DEF FrameAck, world
  <2>2. QED BY <1>1, <2>1, Zenon DEF RateFlags
<1>7. QED BY <1>3, <1>4, <1>5, <1>6, RateTypesNext

LEMMA TickType ==
  ASSUME RateTypeOK, Tick
  PROVE  RateTypeOK'
<1> USE RateNumbers
<1>1. RateCounts /\ RateAges /\ RateFlags /\ OutType
  BY RateTypes
<1>2. OutType'
  <2>1. \A o \in Outs : [o EXCEPT !.age = AtMost(@ + 1, FrameDelay + 1)] \in Outs
    BY DEF Outs, AtMost
  <2>2. \A i \in 1..Len(out) : [out[i] EXCEPT !.age = AtMost(@ + 1, FrameDelay + 1)] \in Outs
    BY <1>1, <2>1 DEF OutType
  <2>3. out' = [i \in 1..Len(out) |-> [out[i] EXCEPT !.age = AtMost(@ + 1, FrameDelay + 1)]]
    BY DEF Tick
  <2>4. Len(out) \in Nat /\ Len(out) <= MaxOut
    BY <1>1 DEF OutType
  <2>5. out' \in [1..Len(out) -> Outs]
    BY <2>2, <2>3
  <2>6. out' \in Seq(Outs) /\ Len(out') = Len(out)
    BY <2>4, <2>5
  <2>7. QED BY <2>4, <2>6 DEF OutType
<1>3. RateCounts'
  <2>1. window' = AtMost(window + 1, Second) /\ cut' = AtMost(cut + 1, RaiseAfter)
        /\ UNCHANGED <<scale, sent, lost>>
    BY DEF Tick
  <2>2. QED BY <1>1, <2>1 DEF RateCounts, AtMost, MaxSent, MaxLost
<1>4. RateAges'
  <2>1. /\ acked' = IF acked < 0 THEN acked ELSE AtMost(acked + 1, Stall + 1)
        /\ flowAck' = AtMost(flowAck + 1, Second) /\ idle' = AtMost(idle + 1, Second)
        /\ trouble' \in {0, trouble}
    BY DEF Tick
  <2>2. QED BY <1>1, <2>1 DEF RateAges, AtMost, Forgiven
<1>5. RateFlags'
  BY <1>1, Zenon DEF Tick, RateFlags, world
<1>6. QED BY <1>2, <1>3, <1>4, <1>5, RateTypesNext

LEMMA LinkType ==
  ASSUME RateTypeOK, NEW l \in {"clean", "lossy", "slow", "dead"}, LinkChanges(l)
  PROVE  RateTypeOK'
<1>1. RateCounts /\ RateAges /\ RateFlags /\ OutType
  BY RateTypes
<1>2. OutType'
  <2>1. \A o \in Outs : [o EXCEPT !.lost = TRUE] \in Outs
    BY DEF Outs
  <2>2. \A i \in 1..Len(out) : [out[i] EXCEPT !.lost = TRUE] \in Outs
    BY <1>1, <2>1 DEF OutType
  <2>3. CASE l = "dead"
    BY <1>1, <2>2, <2>3 DEF LinkChanges, OutType
  <2>4. QED BY <1>1, <2>3 DEF LinkChanges, OutType
<1>3. RateCounts'
  BY <1>1 DEF LinkChanges, rate, RateCounts, MaxSent, MaxLost
<1>4. RateAges'
  BY <1>1, RateNumbers DEF LinkChanges, ack, RateAges, Forgiven
<1>5. RateFlags'
  BY <1>1, Zenon DEF LinkChanges, rate, ack, RateFlags
<1>6. QED BY <1>2, <1>3, <1>4, <1>5, RateTypesNext

LEMMA RateTypeKept ==
  ASSUME RateTypeOK, [RateNext]_rateVars
  PROVE  RateTypeOK'
<1>1. RateCounts /\ RateAges /\ RateFlags /\ OutType
  BY RateTypes
<1>2. CASE SendFrame \/ FrameAck \/ Tick
  BY <1>2, SendType, AckType, TickType
<1>3. CASE Pause \/ BusyChanges \/ StreamStart \/ CaptureLost \/ Recaptured \/ UNCHANGED rateVars
  <2>1. UNCHANGED rate /\ out' \in {out, <<>>}
    BY <1>3 DEF Pause, BusyChanges, StreamStart, CaptureLost, Recaptured, rateVars
  <2>2. RateCounts'
    BY <1>1, <2>1 DEF RateCounts, rate, MaxSent, MaxLost
  <2>3. OutType'
    <3>1. <<>> \in Seq(Outs) /\ Len(<<>>) <= MaxOut
      BY RateNumbers
    <3>2. CASE out' = out
      BY <1>1, <3>2 DEF OutType
    <3>3. CASE out' = <<>>
      BY <3>1, <3>3 DEF OutType
    <3>4. QED BY <2>1, <3>2, <3>3
  <2>4. RateAges'
    <3>1. /\ acked' \in {0, acked} /\ flowAck' \in {0, flowAck} /\ idle' \in {1, idle}
          /\ trouble' = trouble
      BY <1>3 DEF Pause, BusyChanges, StreamStart, CaptureLost, Recaptured, PauseOver, rateVars, ack
    <3>2. QED BY <1>1, <3>1, RateNumbers DEF RateAges, Forgiven
  <2>5. RateFlags'
    <3>1. CASE Pause
      BY <1>1, <3>1, Zenon DEF Pause, RateFlags, rate, ack
    <3>2. CASE BusyChanges
      BY <1>1, <3>2, Zenon DEF BusyChanges, RateFlags, rate, ack
    <3>3. CASE StreamStart
      BY <1>1, <3>3, Zenon DEF StreamStart, RateFlags, rate
    <3>4. CASE UNCHANGED rateVars
      BY <1>1, <3>4, Zenon DEF rateVars, RateFlags, rate, ack, world
    <3>5. CASE CaptureLost \/ Recaptured
      BY <1>1, <3>5, Zenon DEF CaptureLost, Recaptured, RateFlags, rate, ack, world
    <3>6. QED BY <1>3, <3>1, <3>2, <3>3, <3>4, <3>5
  <2>6. QED BY <2>2, <2>3, <2>4, <2>5, RateTypesNext
<1>4. ASSUME NEW l \in {"clean", "lossy", "slow", "dead"}, LinkChanges(l) PROVE RateTypeOK'
  BY <1>4, LinkType
<1>5. QED BY <1>2, <1>3, <1>4 DEF RateNext

(***************************************************************************)
(* What trouble leaves behind                                              *)
(***************************************************************************)
(* A frame sent while nothing was amiss: the next ACK is on its way.         *)
LEMMA SendTrouble ==
  ASSUME RateTypeOK, TroubleInv, SendFrame
  PROVE  TroubleInv'
<1> USE RateNumbers
<1>1. RateCounts /\ RateAges /\ RateFlags /\ OutType
  BY RateTypes
<1>2. PICK gone \in BOOLEAN :
        /\ gone => link \in {"lossy", "dead"}
        /\ out' = Append(Room, [age |-> 0, lost |-> gone])
        /\ trouble' = IF gone THEN 0
                      ELSE IF window = Second THEN AtMost(trouble + 1, Forgiven) ELSE trouble
  BY DEF SendFrame
<1>3. CASE gone
  BY <1>2, <1>3 DEF TroubleInv, LinkInv, LossInv, AckInv, WindowInv, Forgiven
<1>4. CASE ~gone
  <2>1. LastArrives' /\ (NoneLost => NoneLost')
    <3>1. [age |-> 0, lost |-> gone] \in Outs /\ out \in Seq(Outs) /\ Len(out) <= MaxOut
      BY <1>1 DEF OutType, Outs
    <3>2. /\ out' \in Seq(Outs) /\ Len(out') \in 1..MaxOut /\ ~out'[Len(out')].lost
          /\ NoneLost => \A i \in 1..Len(out') - 1 : ~out'[i].lost
      BY <1>2, <1>4, <3>1, OutAppended
    <3>3. QED BY <3>2 DEF LastArrives, NoneLost
  <2>2. idle' = 0 /\ streaming /\ idle > 0 /\ UNCHANGED <<acked, link>>
    BY DEF SendFrame, ack, world
  <2>3. AckInv'
    BY <2>1, <2>2 DEF AckInv
  <2>4. trouble > 0 /\ capture = "on" => acked <= Stall
    <3>1. trouble > 0 /\ capture = "on" => acked <= idle
      BY <2>2 DEF TroubleInv, AckInv
    <3>2. QED BY <1>1, <3>1 DEF RateAges
  <2>5. CASE window < Second
    <3>1. trouble' = trouble /\ UNCHANGED <<lost, late, window>> /\ stalled' = (stalled \/ StallSeen)
      BY <1>1, <1>2, <1>4, <2>5, RateSent DEF SendFrame, RateCounts
    <3>2. LinkInv' /\ LossInv'
      BY <2>1, <2>2, <3>1 DEF TroubleInv, LinkInv, LossInv, Forgiven
    <3>3. WindowInv'
      <4>1. /\ trouble = Forgiven => lost = 0 /\ ~late
            /\ trouble = Forgiven /\ capture = "on" => ~stalled /\ ~StallSeen
        <5>1. trouble > 0 /\ capture = "on" => ~(acked > Stall)
          BY <1>1, <2>4 DEF RateAges
        <5>2. QED BY <5>1 DEF TroubleInv, WindowInv, StallSeen
      <4>2. capture' = capture
        BY <1>1, <2>5 DEF SendFrame, RateCounts
      <4>3. QED BY <3>1, <4>1, <4>2, Zenon DEF WindowInv, Forgiven
    <3>4. QED BY <2>3, <3>2, <3>3 DEF TroubleInv
  <2>6. CASE window = Second
    <3>1. /\ trouble' = AtMost(trouble + 1, Forgiven)
          /\ window' = 0 /\ lost' = 0 /\ late' = FALSE /\ stalled' = FALSE
      BY <1>2, <1>4, <2>6, RateSent DEF SendFrame
    <3>2. LinkInv'
      BY <1>1, <2>2, <2>6, <3>1 DEF TroubleInv, LinkInv, AtMost, Forgiven, RateAges
    <3>3. LossInv'
      BY <1>1, <2>1, <2>6, <3>1 DEF TroubleInv, LossInv, AtMost, Forgiven, RateAges
    <3>4. WindowInv'
      BY <3>1 DEF WindowInv
    <3>5. QED BY <2>3, <3>2, <3>3, <3>4 DEF TroubleInv
  <2>7. QED BY <1>1, <2>5, <2>6 DEF RateCounts
<1>5. QED BY <1>3, <1>4

LEMMA AckTrouble ==
  ASSUME RateTypeOK, TroubleInv, FrameAck
  PROVE  TroubleInv'
<1> USE RateNumbers
<1>1. RateCounts /\ RateAges /\ RateFlags /\ OutType
  BY RateTypes
<1>2. Arriving # {} /\ Oldest \in 1..Len(out) /\ \A i \in 1..Oldest - 1 : out[i].lost
  BY <1>1, OldestIs DEF FrameAck, OutType
<1>3. /\ Len(out') = Len(out) - Oldest
      /\ \A i \in 1..Len(out') : out'[i] = out[i + Oldest]
  BY <1>1, <1>2, AckedOut DEF FrameAck
<1>4. CASE out[Oldest].age > FrameDelay
  BY <1>4 DEF FrameAck, TroubleInv, LinkInv, LossInv, AckInv, WindowInv, Forgiven
<1>5. CASE ~(out[Oldest].age > FrameDelay)
  <2>1. /\ UNCHANGED <<trouble, link, window, stalled, idle, capture>> /\ acked' = 0
        /\ late' = (late \/ out[Oldest].age > FrameDelay)
        /\ lost' = IF CountLoss THEN AtMost(lost + Oldest - 1, MaxLost) ELSE lost
    BY <1>5 DEF FrameAck, world
  <2>2. NoneLost => NoneLost' /\ Oldest = 1
    <3>1. SUFFICES ASSUME NoneLost PROVE NoneLost' /\ Oldest = 1
      OBVIOUS
    <3>2. Oldest = 1
      <4>1. \A i \in 1..Oldest - 1 : i \in 1..Len(out)
        BY <1>1, <1>2 DEF OutType
      <4>2. ~(1 \in 1..Oldest - 1)
        BY <1>2, <3>1, <4>1 DEF NoneLost
      <4>3. QED BY <1>2, <4>2
    <3>3. Len(out) \in Nat
      BY <1>1 DEF OutType
    <3>4. ASSUME NEW i \in 1..Len(out') PROVE ~out'[i].lost
      <4>1. i + Oldest \in 1..Len(out)
        BY <1>3, <3>2, <3>3
      <4>2. QED BY <1>3, <3>1, <4>1 DEF NoneLost
    <3>5. QED BY <3>2, <3>4 DEF NoneLost
  <2>3. LastArrives => LastArrives' \/ NoneLost'
    BY <1>1, <1>2, <1>3 DEF NoneLost, LastArrives, OutType
  <2>4. LinkInv' /\ LossInv'
    BY <2>1, <2>2, <2>3 DEF TroubleInv, LinkInv, LossInv, Forgiven
  <2>5. AckInv'
    BY <1>1, <2>1 DEF AckInv, RateAges
  <2>6. WindowInv'
    <3>1. trouble = Forgiven => Oldest = 1 /\ lost = 0 /\ ~late /\ (capture = "on" => ~stalled)
      BY <2>2 DEF TroubleInv, WindowInv, LossInv
    <3>2. trouble = Forgiven => lost' = 0
      BY <2>1, <3>1 DEF AtMost
    <3>3. QED BY <1>5, <2>1, <3>1, <3>2, Zenon DEF WindowInv, Forgiven
  <2>7. QED BY <2>4, <2>5, <2>6 DEF TroubleInv
<1>6. QED BY <1>4, <1>5

(* On a clean link time waits for the ACK, so it goes on without lost frames. *)
LEMMA TickTrouble ==
  ASSUME RateTypeOK, TroubleInv, Tick
  PROVE  TroubleInv'
<1> USE RateNumbers
<1>1. RateCounts /\ RateAges /\ RateFlags /\ OutType
  BY RateTypes
<1>2. CASE link # "clean" \/ trouble = 0
  <2>1. trouble' = 0
    BY <1>2 DEF Tick
  <2>2. QED BY <2>1 DEF TroubleInv, LinkInv, LossInv, AckInv, WindowInv, Forgiven
<1>3. CASE link = "clean" /\ trouble > 0
  <2>1. Arriving = {} /\ (Sending => idle < Second)
    <3>1. ~Due
      BY DEF Tick
    <3>2. Arriving = {}
      BY <1>3, <3>1 DEF Due
    <3>3. Sending => ~(idle >= (IF busy THEN 1 ELSE Second))
      BY <3>1, Zenon DEF Due
    <3>4. idle \in Nat
      BY <1>1 DEF RateAges
    <3>5. QED BY <3>2, <3>3, <3>4
  <2>2. ~LastArrives
    BY <1>1, <2>1 DEF Arriving, LastArrives, OutType
  <2>3. NoneLost /\ (streaming /\ capture = "on" => acked <= idle)
    BY <1>3, <2>2 DEF TroubleInv, LossInv, AckInv
  <2>4. /\ Len(out') = Len(out)
        /\ \A i \in 1..Len(out) : out'[i] = [out[i] EXCEPT !.age = AtMost(@ + 1, FrameDelay + 1)]
    BY <1>1 DEF Tick, OutType
  <2>5. \A o \in Outs : [o EXCEPT !.age = AtMost(@ + 1, FrameDelay + 1)].lost = o.lost
    BY DEF Outs
  <2>6. NoneLost'
    <3>1. \A i \in 1..Len(out) : out[i] \in Outs /\ ~out[i].lost
      BY <1>1, <2>3 DEF NoneLost, OutType
    <3>2. \A i \in 1..Len(out) : ~out'[i].lost
      BY <2>4, <2>5, <3>1
    <3>3. QED BY <2>4, <3>2 DEF NoneLost
  <2>7. AckInv'
    <3>1. /\ acked' = IF acked < 0 THEN acked ELSE AtMost(acked + 1, Stall + 1)
          /\ idle' = AtMost(idle + 1, Second) /\ streaming' = streaming /\ capture' = capture
      BY DEF Tick, world
    <3>2. streaming /\ capture = "on" => acked' <= idle'
      BY <1>1, <2>1, <2>3, <3>1 DEF AtMost, RateAges, Sending
    <3>3. QED BY <3>1, <3>2 DEF AckInv
  <2>8. LinkInv' /\ LossInv' /\ WindowInv'
    BY <1>3, <2>6 DEF Tick, TroubleInv, LinkInv, LossInv, WindowInv, world, Forgiven
  <2>9. QED BY <2>7, <2>8 DEF TroubleInv
<1>4. QED BY <1>1, <1>2, <1>3 DEF RateAges

LEMMA TroubleKept ==
  ASSUME RateTypeOK, TroubleInv, [RateNext]_rateVars
  PROVE  TroubleInv'
<1> USE RateNumbers
<1>1. RateCounts /\ RateAges /\ RateFlags /\ OutType
  BY RateTypes
<1>2. CASE SendFrame \/ FrameAck \/ Tick
  BY <1>2, SendTrouble, AckTrouble, TickTrouble
<1>3. CASE Pause \/ BusyChanges \/ UNCHANGED rateVars
  BY <1>3 DEF Pause, BusyChanges, rateVars, rate, ack, world, TroubleInv, LinkInv, LossInv, AckInv,
              WindowInv, NoneLost, LastArrives, Forgiven
<1>4. CASE StreamStart
  <2>1. out' = <<>> /\ idle' = 1 /\ acked' <= 0 /\ UNCHANGED <<rate, link, trouble>>
    BY <1>1, <1>4 DEF StreamStart, PauseOver, RateAges
  <2>2. NoneLost'
    BY <2>1 DEF NoneLost
  <2>3. AckInv'
    BY <1>1, <1>4, <2>1 DEF AckInv, StreamStart, PauseOver, RateAges
  <2>4. capture' = "on" => capture = "on"
    BY <1>4 DEF StreamStart
  <2>5. QED
    BY <2>1, <2>2, <2>3, <2>4 DEF TroubleInv, LinkInv, LossInv, WindowInv, rate, Forgiven
<1>5. ASSUME NEW l \in {"clean", "lossy", "slow", "dead"}, LinkChanges(l) PROVE TroubleInv'
  <2>1. CASE l = "clean"
    BY <1>5, <2>1 DEF LinkChanges, rate, ack, TroubleInv, LinkInv, LossInv, AckInv, WindowInv,
                      NoneLost, LastArrives, Forgiven
  <2>2. CASE l # "clean"
    BY <1>5, <2>2 DEF LinkChanges, TroubleInv, LinkInv, LossInv, AckInv, WindowInv, Forgiven
  <2>3. QED BY <2>1, <2>2
<1>6. CASE CaptureLost \/ Recaptured
  BY <1>6 DEF CaptureLost, Recaptured, rate, ack, world, TroubleInv, LinkInv, LossInv, AckInv,
              WindowInv, NoneLost, LastArrives, Forgiven
<1>7. QED BY <1>2, <1>3, <1>4, <1>5, <1>6 DEF RateNext

(***************************************************************************)
(* Theorems                                                                *)
(***************************************************************************)
LEMMA RateInvariant == RateSpec => []RateInv
<1>1. RateInv /\ [RateNext]_rateVars => RateInv'
  BY RateTypeKept, TroubleKept DEF RateInv
<1>2. QED BY RateStarts, <1>1, PTL DEF RateSpec

LEMMA CutCaused ==
  ASSUME RateInv, [RateNext]_rateVars, scale' < scale, capture = "on"
  PROVE  trouble < Forgiven
<1> USE RateNumbers
<1>1. RateCounts /\ RateAges /\ RateFlags /\ OutType /\ TroubleInv
  BY RateTypes DEF RateInv
<1>2. SendFrame
  <2>1. UNCHANGED scale \/ SendFrame
    BY DEF RateNext, rateVars, rate, FrameAck, Pause, StreamStart, CaptureLost, Recaptured, Tick,
           BusyChanges, LinkChanges
  <2>2. QED BY <1>1, <2>1 DEF RateCounts
<1>3. CASE window < Second
  BY <1>1, <1>2, <1>3, RateSent DEF RateInv, SendFrame, RateCounts
<1>4. CASE window = Second
  <2>1. PICK n : Decide(n, Lossy(n) \/ (stalled \/ StallSeen) \/ late)
    BY <1>2, <1>4 DEF SendFrame, RateOnSent
  <2>2. Lossy(n) \/ (stalled \/ StallSeen) \/ late
    BY <1>1, <2>1 DEF Decide, More, AtMost, RateCounts
  <2>3. lost > 0 \/ stalled \/ StallSeen \/ late
    BY <1>1, <2>2 DEF Lossy, RateCounts
  <2>4. trouble > 0 => acked <= Stall
    BY <1>1, <1>2 DEF SendFrame, TroubleInv, AckInv, RateAges
  <2>5. QED BY <1>1, <2>3, <2>4 DEF TroubleInv, WindowInv, StallSeen, RateAges, Forgiven
<1>5. QED BY <1>1, <1>3, <1>4 DEF RateCounts

(* Every variable of the flow control keeps its type (RateControl's and      *)
(* FlowState's fields).                                                      *)
THEOREM RateTypeCorrect == RateSpec => []RateTypeOK
<1>1. RateInv => RateTypeOK
  BY DEF RateInv
<1>2. QED BY <1>1, RateInvariant, PTL

(* rate_on_sent() cuts only for what the link did in this window or the      *)
(* last one, whatever restarts, pauses and idle screens there were - and for *)
(* a capture that was lost, until the first window after it is over.         *)
THEOREM CutsHaveCause == RateSpec => CutHasCauseOrCapture
<1>1. RateInv /\ [RateNext]_rateVars
        => (scale' < scale => trouble < Forgiven \/ capture # "on")
  BY CutCaused
<1>2. QED BY <1>1, RateInvariant, PTL DEF RateSpec, CutHasCauseOrCapture
===============================================================================
