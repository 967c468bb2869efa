------------------------------ MODULE Sessions ------------------------------
(***************************************************************************)
(* Connections and characters in internal/realtime: registration under a   *)
(* limit, the replacement of a character's older connection by a newer     *)
(* one, and the several goroutines that can unregister a connection.       *)
(*                                                                         *)
(* Register changes the hub's maps under Hub.mu and tells the connection   *)
(* it replaced only after unlocking.  Unregister takes a connection out    *)
(* under Hub.mu, and closes it after unlocking and flushing.  It is called *)
(* by the read pump and the write pump when they end and by "go            *)
(* h.Unregister" wherever a message cannot be queued.                      *)
(***************************************************************************)
EXTENDS Integers, FiniteSets

CONSTANTS
  Clients,       \* connections; each registers at most once
  Characters,
  Guest,         \* the character of a connection without one
  Character,     \* Character[c]
  NoClient,      \* "" and nil
  MaxClients     \* Hub.maxClients, MAX_CONNECTIONS

ASSUME ConstantsAssumption ==
  /\ NoClient \notin Clients
  /\ Guest \notin Characters
  /\ Character \in [Clients -> Characters \cup {Guest}]
  /\ MaxClients \in Nat \ {0}
  /\ IsFiniteSet(Clients)

VARIABLES
  clients,      \* Hub.clients
  active,       \* Hub.activeCharacters; NoClient when not in the map
  names,        \* Hub.names, for the names that are characters'
  entry,        \* how far a connection's ServeHTTP is: "new", "notifying",
                \* "welcoming", "serving" (both pumps run) or "over"
  replaced,     \* replaced[c]: replacedClient in c's call of Register, until used
  replace,      \* connections with a message in their replace channel
  done,         \* connections whose done channel is closed
  writing,      \* connections whose writePump runs
  leaving,      \* connections somebody is about to unregister
  latest        \* ghost: the last connection registered for each character

vars == <<clients, active, names, entry, replaced, replace, done, writing,
          leaving, latest>>

Init ==
  /\ clients = {}
  /\ active = [h \in Characters |-> NoClient]
  /\ names = [h \in Characters |-> NoClient]
  /\ entry = [c \in Clients |-> "new"]
  /\ replaced = [c \in Clients |-> NoClient]
  /\ replace = {}
  /\ done = {}
  /\ writing = {}
  /\ leaving = {}
  /\ latest = [h \in Characters |-> NoClient]

Persistent(c) == Character[c] \in Characters

-----------------------------------------------------------------------------
(* Register *)

\* h.clients[h.activeCharacters[id]]: nil for a guest and for a character
\* without a connected client.
Replaced(c) ==
  IF Persistent(c) /\ active[Character[c]] \in clients
  THEN active[Character[c]] ELSE NoClient

\* A character's newcomer gets in even when the hub is full.
HasRoom(c) == Cardinality(clients) < MaxClients \/ Replaced(c) # NoClient

\* Under Hub.mu.
Register(c) ==
  /\ entry[c] = "new"
  /\ HasRoom(c)
  /\ entry' = [entry EXCEPT ![c] = "notifying"]
  /\ replaced' = [replaced EXCEPT ![c] = Replaced(c)]
  /\ clients' = clients \cup {c}
  /\ IF Persistent(c)
     THEN /\ active' = [active EXCEPT ![Character[c]] = c]
          /\ names' = [names EXCEPT ![Character[c]] = c]
          /\ latest' = [latest EXCEPT ![Character[c]] = c]
     ELSE UNCHANGED <<active, names, latest>>
  /\ UNCHANGED <<replace, done, writing, leaving>>

\* ErrCapacity: the connection is closed without ever being in the hub.
RegisterRefused(c) ==
  /\ entry[c] = "new"
  /\ ~HasRoom(c)
  /\ entry' = [entry EXCEPT ![c] = "over"]
  /\ UNCHANGED <<clients, active, names, replaced, replace, done, writing,
                 leaving, latest>>

\* notifySessionReplaced, after Hub.mu is released: the message goes into the
\* channel, of capacity one, or the connection is unregistered at once.
NobodyIsToldMutant(c) == replace' = replace /\ leaving' = leaving
OldIsTold(c) ==
  LET old == replaced[c]
  IN IF old = NoClient THEN UNCHANGED <<replace, leaving>>
     ELSE IF old \in done \/ old \in replace
     THEN replace' = replace /\ leaving' = leaving \cup {old}
     ELSE replace' = replace \cup {old} /\ leaving' = leaving

NotifySessionReplaced(c) ==
  /\ entry[c] = "notifying"
  /\ OldIsTold(c)
  /\ entry' = [entry EXCEPT ![c] = "welcoming"]
  /\ replaced' = [replaced EXCEPT ![c] = NoClient]
  /\ UNCHANGED <<clients, active, names, done, writing, latest>>

\* The welcome is queued and ServeHTTP starts the pumps.
Welcome(c) ==
  /\ entry[c] = "welcoming"
  /\ c \notin done
  /\ entry' = [entry EXCEPT ![c] = "serving"]
  /\ writing' = writing \cup {c}
  /\ UNCHANGED <<clients, active, names, replaced, replace, done, leaving, latest>>

\* Rooms broadcast to the newcomer before its pumps run; when the queue is
\* full, or it was unregistered meanwhile, Register unregisters it and fails.
WelcomeFails(c) ==
  /\ entry[c] = "welcoming"
  /\ entry' = [entry EXCEPT ![c] = "over"]
  /\ leaving' = leaving \cup {c}
  /\ UNCHANGED <<clients, active, names, replaced, replace, done, writing, latest>>

-----------------------------------------------------------------------------
(* The ways out *)

\* sendOne and sendMany: a full queue gets a connection unregistered.
SendFails(c) ==
  /\ c \in clients \ leaving
  /\ leaving' = leaving \cup {c}
  /\ UNCHANGED <<clients, active, names, entry, replaced, replace, done,
                 writing, latest>>

\* readPump ends: the peer is gone, or the socket was closed.
ReaderEnds(c) ==
  /\ entry[c] = "serving"
  /\ entry' = [entry EXCEPT ![c] = "over"]
  /\ leaving' = leaving \cup {c}
  /\ UNCHANGED <<clients, active, names, replaced, replace, done, writing, latest>>

\* writePump ends: a write failed,
WriterFails(c) ==
  /\ c \in writing
  /\ writing' = writing \ {c}
  /\ leaving' = leaving \cup {c}
  /\ UNCHANGED <<clients, active, names, entry, replaced, replace, done, latest>>

\* or it took the replacement message and delivered it, or not, or it saw done.
ReplaceIgnoredMutant(c) ==
  /\ c \in writing /\ c \in replace \cup done
  /\ replace' = replace \ {c}
  /\ writing' = IF c \in done THEN writing \ {c} ELSE writing
  /\ leaving' = IF c \in done THEN leaving \cup {c} ELSE leaving
  /\ UNCHANGED <<clients, active, names, entry, replaced, done, latest>>
WriterStops(c) ==
  /\ c \in writing /\ c \in replace \cup done
  /\ replace' = replace \ {c}
  /\ writing' = writing \ {c}
  /\ leaving' = leaving \cup {c}
  /\ UNCHANGED <<clients, active, names, entry, replaced, done, latest>>

\* The critical section of Unregister.  Only a connection's own entries go.
ForgetActiveMutant(c) ==
  IF Persistent(c)
  THEN /\ active' = [active EXCEPT ![Character[c]] = NoClient]
       /\ names' = [names EXCEPT ![Character[c]] = NoClient]
  ELSE UNCHANGED <<active, names>>
ForgetCharacter(c) ==
  IF Persistent(c)
  THEN LET h == Character[c] IN
       /\ active' = IF active[h] = c THEN [active EXCEPT ![h] = NoClient] ELSE active
       /\ names' = IF names[h] = c THEN [names EXCEPT ![h] = NoClient] ELSE names
  ELSE UNCHANGED <<active, names>>

Unregister(c) ==
  /\ c \in leaving
  /\ c \in clients
  /\ clients' = clients \ {c}
  /\ ForgetCharacter(c)
  /\ UNCHANGED <<entry, replaced, replace, done, writing, leaving, latest>>

\* client.close(), at the end of the call that took it out of the hub or at
\* once in a later call.
Close(c) ==
  /\ c \in leaving
  /\ c \notin clients
  /\ done' = done \cup {c}
  /\ leaving' = leaving \ {c}
  /\ UNCHANGED <<clients, active, names, entry, replaced, replace, writing, latest>>

Next ==
  \E c \in Clients :
    \/ Register(c)
    \/ RegisterRefused(c)
    \/ NotifySessionReplaced(c)
    \/ Welcome(c)
    \/ WelcomeFails(c)
    \/ SendFails(c)
    \/ ReaderEnds(c)
    \/ WriterFails(c)
    \/ WriterStops(c)
    \/ Unregister(c)
    \/ Close(c)

Spec == Init /\ [][Next]_vars

\* The goroutines of the hub run; select chooses at random among the channels
\* that are ready, so a writePump with messages to send sees the replacement
\* in the end, and every write has a deadline.  Nobody has to connect, and
\* nothing has to fail.
Fairness ==
  \A c \in Clients :
    /\ WF_vars(NotifySessionReplaced(c))
    /\ WF_vars(Welcome(c) \/ WelcomeFails(c))
    /\ WF_vars(WriterStops(c))
    /\ WF_vars(Unregister(c))
    /\ WF_vars(Close(c))

FairSpec == Spec /\ Fairness

-----------------------------------------------------------------------------
(* Properties *)

TypeOK ==
  /\ clients \subseteq Clients
  /\ active \in [Characters -> Clients \cup {NoClient}]
  /\ names \in [Characters -> Clients \cup {NoClient}]
  /\ entry \in [Clients -> {"new", "notifying", "welcoming", "serving", "over"}]
  /\ replaced \in [Clients -> Clients \cup {NoClient}]
  /\ replace \subseteq Clients
  /\ done \subseteq Clients
  /\ writing \subseteq Clients
  /\ leaving \subseteq Clients
  /\ latest \in [Characters -> Clients \cup {NoClient}]

\* A connection that is not its character's latest any more.
Superseded(c) == Persistent(c) /\ latest[Character[c]] # c

\* A character's entries in the hub's maps are those of its latest connection
\* while that is connected, and empty afterwards: an older connection that
\* unregisters late takes nothing away from the one that replaced it.
LatestIsActive ==
  \A h \in Characters :
    LET c == IF latest[h] \in clients THEN latest[h] ELSE NoClient
    IN active[h] = c /\ names[h] = c

\* A connection that was replaced is on its way out: it will be told, or has
\* been, or is about to be unregistered.  No notice is lost between the maps'
\* change, the message, the pumps that may not run yet, and Unregister.
SupersededIsTold ==
  \A c \in clients : Superseded(c) =>
    \/ c \in leaving
    \/ c \in replace /\ (c \in writing \/ entry[c] \in {"notifying", "welcoming"})
    \/ \E d \in Clients : replaced[d] = c /\ entry[d] = "notifying"

\* A newcomer that replaces its character's connection gets in although the
\* hub is full, so the hub may hold more than MaxClients connections; but not
\* counting those already replaced it never does.
Current == {c \in clients : ~Superseded(c)}
CapacityIsKept == Cardinality(Current) <= MaxClients

\* A connection that is closed is out of the hub for good: Register is over
\* before anybody can unregister it.
ClosedAreOut == done \cap clients = {}

\* The inductive invariant behind these: who is registered is not new, the
\* latest connection of a character is one of that character's, and every
\* connection in the hub has a pump, or will get one, or is leaving.
NewAreUnknown ==
  \A c \in Clients : entry[c] = "new" =>
    /\ c \notin clients \cup replace \cup done \cup writing \cup leaving
    /\ \A d \in Clients : replaced[d] # c

LatestIsOwn ==
  \A h \in Characters : latest[h] # NoClient => Character[latest[h]] = h

ConnectedAreServed ==
  \A c \in clients :
    c \in leaving \cup writing \/ entry[c] \in {"notifying", "welcoming"}

IInv ==
  /\ TypeOK
  /\ NewAreUnknown
  /\ LatestIsOwn
  /\ ConnectedAreServed
  /\ LatestIsActive
  /\ SupersededIsTold
  /\ CapacityIsKept
  /\ ClosedAreOut

\* A character that was opened in another browser is left with one connection.
OneConnectionPerCharacter ==
  \A c \in Clients : c \in clients /\ Superseded(c) ~> c \notin clients

=============================================================================
