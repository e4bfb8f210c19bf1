--------------------------- MODULE MutterScreens ---------------------------
(* Virtual screens on GNOME (host/src/capture/mutter_virtual.cpp): each is a *)
(* remote-desktop session of the compositor with one virtual monitor, alive  *)
(* as long as its session and the host's PipeWire consumer.                  *)
(*                                                                           *)
(* The compositor ends sessions on its own and says so in a signal, which    *)
(* somebody has to read.  All of this happens under g_mutex; only            *)
(* create_display() waits, for the signal that brings its stream.            *)
EXTENDS VirtualDisplayManager, Sequences, FiniteSets, SequencesExt

CONSTANT Sessions

ASSUME MutterAssumption == None \notin Sessions /\ None \notin [slot : Slots, session : Sessions]

VARIABLES
    bus,         \* the connection is up
    sessions,    \* the compositor's sessions of this host
    queue,       \* signals received and not read: [closed or node |-> session]
    g_screens,   \* the host's: slot -> session, or None
    making,      \* create_display() waiting for its stream: [slot, session], or None
    orphans      \* history: sessions made for a call that had timed out

mutterVars == <<bus, sessions, queue, g_screens, making, orphans>>

Closed(s) == [signal |-> "Closed", session |-> s]
Added(s) == [signal |-> "PipeWireStreamAdded", session |-> s]
NoneMade == [n \in Slots |-> None]
Used == {n \in Slots : g_screens[n] # None}

InitMutter ==
    /\ bus = TRUE /\ sessions = {} /\ queue = <<>> /\ g_screens = NoneMade /\ making = None
    /\ orphans = {}

TypeOKMutter ==
    /\ bus \in BOOLEAN /\ sessions \subseteq Sessions /\ orphans \subseteq sessions
    /\ \A i \in DOMAIN queue : queue[i] \in {f[s] : f \in {[s \in Sessions |-> Closed(s)], [s \in Sessions |-> Added(s)]}, s \in Sessions}
    /\ g_screens \in [Slots -> Sessions \cup {None}]
    /\ making \in [slot : Slots, session : Sessions] \cup {None}

(* pump_locked(): the screens it leaves.                                   *)
Pumped == [n \in Slots |->
    IF g_screens[n] # None /\ Contains(queue, Closed(g_screens[n])) THEN None ELSE g_screens[n]]

Pump ==
    /\ making = None
    /\ g_screens' = Pumped /\ queue' = <<>>
    /\ UNCHANGED <<bus, sessions, making, orphans>>

(* connect_locked(), then pump_locked().  A new connection begins with no  *)
(* signals; the screens of the old one stay in the list.                   *)
Reconnected == IF bus THEN Pumped ELSE g_screens

Fresh == {s \in Sessions : s \notin sessions /\ (\A n \in Slots : g_screens[n] # s)
                           /\ ~Contains(queue, Closed(s)) /\ ~Contains(queue, Added(s))}

(* CreateSession times out here and succeeds there: nobody learns the      *)
(* session's path, so stop_session("") stops nothing.  It has no monitor.  *)
SessionUnheard ==
    /\ UNCHANGED making
    /\ \E s \in Fresh : sessions' = sessions \cup {s} /\ orphans' = orphans \cup {s}

(* create_display() up to Start, or a call that fails on the way: what had *)
(* been created is stopped.                                                *)
MutterBegin(n) ==
    /\ making = None
    /\ g_screens' = Reconnected /\ bus' = TRUE /\ queue' = <<>>
    /\ \/ UNCHANGED <<sessions, making, orphans>>
       \/ SessionUnheard
       \/ /\ Reconnected[n] = None /\ UNCHANGED orphans
          /\ \E s \in Fresh : /\ sessions' = sessions \cup {s}
                              /\ making' = [slot |-> n, session |-> s]

NotStopped == sessions   \* mutant: a failed creation leaves its session
Stopped == sessions \ {making.session}

(* wait_for_node() reads up to its own signal; other screens' Closed       *)
(* signals on the way are dropped.                                         *)
MutterMade ==
    /\ making # None /\ Contains(queue, Added(making.session))
    /\ LET at == CHOOSE i \in DOMAIN queue : queue[i] = Added(making.session)
       IN  queue' = SubSeq(queue, at + 1, Len(queue))
    /\ \/ /\ g_screens' = [g_screens EXCEPT ![making.slot] = making.session]
          /\ UNCHANGED sessions
       \/ sessions' = Stopped /\ UNCHANGED g_screens   \* no consumer
    /\ making' = None
    /\ UNCHANGED <<bus, orphans>>

MutterTimesOut ==
    /\ making # None /\ ~Contains(queue, Added(making.session))
    /\ queue' = <<>> /\ sessions' = Stopped /\ making' = None
    /\ UNCHANGED <<bus, g_screens, orphans>>

(* remove_display().                                                       *)
MutterRemove(n) ==
    /\ making = None /\ n \in Used
    /\ sessions' = sessions \ {g_screens[n]}
    /\ g_screens' = [g_screens EXCEPT ![n] = None]
    /\ UNCHANGED <<bus, queue, making, orphans>>

(* Sessions belong to the connection.                                      *)
MutterKilled ==
    /\ bus' = TRUE /\ sessions' = {} /\ queue' = <<>> /\ g_screens' = NoneMade /\ making' = None
    /\ orphans' = {}

(* The compositor.  (It tells nobody that it ends one of the orphans.)      *)
StreamAdded ==
    /\ making # None /\ bus /\ making.session \in sessions /\ ~Contains(queue, Added(making.session))
    /\ queue' = Append(queue, Added(making.session))
    /\ UNCHANGED <<bus, sessions, g_screens, making, orphans>>

CompositorCloses(s) ==
    /\ bus /\ s \in sessions \ orphans
    /\ sessions' = sessions \ {s}
    /\ queue' = Append(queue, Closed(s))
    /\ UNCHANGED <<bus, g_screens, making, orphans>>

BusLost ==
    /\ bus /\ bus' = FALSE /\ sessions' = {} /\ orphans' = {}
    /\ UNCHANGED <<queue, g_screens, making>>
=============================================================================
