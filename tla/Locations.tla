----------------------------- MODULE Locations -----------------------------
(***************************************************************************)
(* How the place of a character reaches PostgreSQL (persistence.go, and    *)
(* markLocation and flushLocation of client.go).  An accepted report marks *)
(* the connection's location dirty after Hub.mu is released.  Flushes come *)
(* from the two-second ticker, a change of room, Unregister, a request for *)
(* the character list and the end of the process; Client.flushMu lets one  *)
(* at a time save a connection.                                            *)
(*                                                                         *)
(* All connections here are of one character, so they save the same row: a *)
(* character opened again has its older connection for a while longer.     *)
(* A location is the number of the report that brought it.                 *)
(***************************************************************************)
EXTENDS Integers, FiniteSets

CONSTANTS
  Clients,
  NoClient,
  MaxReports,   \* bound: reports of a connection that change its location
  MaxFailures,  \* bound: saves that fail
  Stops         \* bound: whether the process may be stopped

\* The goroutines that flush: RunPersistence, "go h.flushClientLocation" after
\* a change of room, Unregister, SyncAccountLocations and the end of main.
Flushers == {"ticker", "room", "unregister", "sync", "exit"}

ASSUME ConstantsAssumption ==
  /\ NoClient \notin Clients
  /\ MaxReports \in Nat
  /\ MaxFailures \in Nat
  /\ Stops \in BOOLEAN

VARIABLES
  clients,      \* Hub.clients
  pending,      \* Hub.pendingLocations
  used,         \* connections that have registered
  report,       \* the report a connection's HandlePresence has accepted, if any
  version,      \* Client.locationVersion
  dirty,        \* Client.dirtyLocation # nil
  todo,         \* todo[x]: connections flusher x has still to flush
  flushing,     \* triples <<x, c, v>>: x holds c.flushMu, has read version v
                \* and is in SaveLocation
  saved,        \* the row: whose report it holds, and which
  failures,     \* saves that have failed
  failed,       \* ghost: flushers of the current round that failed to save
  running,      \* the process: "up", "stopping" or "down"
  ticking,      \* RunPersistence has not returned
  connected,    \* ghost: Hub.clients when the shutdown began
  written,      \* ghost: last report of a connection known to be saved
  wanted,       \* ghost: versions when the current list request, or the
                \* shutdown, began
  late          \* ghost: connections that marked a location after they were
                \* unregistered, or whose last flush failed

vars == <<clients, pending, used, report, version, dirty, todo, flushing,
          saved, failures, failed, running, ticking, connected, written,
          wanted, late>>

NoReport == [here |-> FALSE, onFoot |-> FALSE, roomChanged |-> FALSE]
Reports == [here : BOOLEAN, onFoot : BOOLEAN, roomChanged : BOOLEAN]

Init ==
  /\ clients = {}
  /\ pending = {}
  /\ used = {}
  /\ report = [c \in Clients |-> NoReport]
  /\ version = [c \in Clients |-> 0]
  /\ dirty = [c \in Clients |-> FALSE]
  /\ todo = [x \in Flushers |-> {}]
  /\ flushing = {}
  /\ saved = [by |-> NoClient, version |-> 0]
  /\ failures = 0
  /\ failed = {}
  /\ running = "up"
  /\ ticking = TRUE
  /\ connected = {}
  /\ written = [c \in Clients |-> 0]
  /\ wanted = [x \in {"sync", "exit"} |-> [c \in Clients |-> 0]]
  /\ late = {}

Idle(x) == todo[x] = {} /\ \A t \in flushing : t[1] # x

-----------------------------------------------------------------------------
(* Connections and reports *)

Register(c) ==
  /\ running = "up"
  /\ c \notin used
  /\ used' = used \cup {c}
  /\ clients' = clients \cup {c}
  /\ UNCHANGED <<pending, report, version, dirty, todo, flushing, saved,
                 failures, failed, running, ticking, connected, written,
                 wanted, late>>

\* HandlePresence up to h.mu.Unlock.
HandlePresence(c, onFoot, roomChanged) ==
  /\ running # "down"
  /\ c \in clients
  /\ ~report[c].here
  /\ report' = [report EXCEPT ![c] =
       [here |-> TRUE, onFoot |-> onFoot, roomChanged |-> roomChanged]]
  /\ UNCHANGED <<clients, pending, used, version, dirty, todo, flushing, saved,
                 failures, failed, running, ticking, connected, written,
                 wanted, late>>

\* The rest of it, when the connection may be unregistered already: a driver's
\* place is not marked, and a change of room starts a flush.
MarkLocation(c) ==
  /\ running # "down"
  /\ report[c].here
  /\ report' = [report EXCEPT ![c] = NoReport]
  /\ IF report[c].onFoot
     THEN /\ version[c] < MaxReports
          /\ version' = [version EXCEPT ![c] = version[c] + 1]
          /\ dirty' = [dirty EXCEPT ![c] = TRUE]
          /\ late' = IF c \in clients THEN late ELSE late \cup {c}
     ELSE UNCHANGED <<version, dirty, late>>
  /\ todo' = IF report[c].roomChanged
             THEN [todo EXCEPT !["room"] = todo["room"] \cup {c}] ELSE todo
  /\ UNCHANGED <<clients, pending, used, flushing, saved, failures, failed,
                 running, ticking, connected, written, wanted>>

\* Unregister takes the connection out of clients and into pendingLocations in
\* one critical section, and then flushes it.
PendingAfter(c) == pending \cup {c}

Unregister(c) ==
  /\ running # "down"
  /\ c \in clients
  /\ clients' = clients \ {c}
  /\ pending' = PendingAfter(c)
  /\ todo' = [todo EXCEPT !["unregister"] = todo["unregister"] \cup {c}]
  /\ UNCHANGED <<used, report, version, dirty, flushing, saved, failures,
                 failed, running, ticking, connected, written, wanted, late>>

\* Each call of Unregister is a goroutine of its own; it forgets the pending
\* location when its flush is over, successful or not.
EarlyMutant(c) == TRUE
UnregisterFlushed(c) ==
  /\ c \notin todo["unregister"]
  /\ \A t \in flushing : ~(t[1] = "unregister" /\ t[2] = c)

UnregisterEnds(c) ==
  /\ running # "down"
  /\ c \in pending
  /\ UnregisterFlushed(c)
  /\ pending' = pending \ {c}
  /\ UNCHANGED <<clients, used, report, version, dirty, todo, flushing, saved,
                 failures, failed, running, ticking, connected, written,
                 wanted, late>>

-----------------------------------------------------------------------------
(* flushLocation *)

\* Several calls of the same flusher run one after the other, except those of
\* Unregister and of changes of room, which are goroutines of their own.
Sequential(x) == x \in {"ticker", "sync", "exit"}

\* flushMu
NoMutexMutant(c) == TRUE
FlushMuFree(c) == \A t \in flushing : t[2] # c

\* A clean connection needs nothing.
NeedsFlush(c) == dirty[c]

SkipFlush(x, c) ==
  /\ running # "down"
  /\ c \in todo[x]
  /\ FlushMuFree(c)
  /\ ~NeedsFlush(c)
  /\ todo' = [todo EXCEPT ![x] = todo[x] \ {c}]
  /\ UNCHANGED <<clients, pending, used, report, version, dirty, flushing,
                 saved, failures, failed, running, ticking, connected, written,
                 wanted, late>>

BeginFlush(x, c) ==
  /\ running # "down"
  /\ c \in todo[x]
  /\ FlushMuFree(c)
  /\ Sequential(x) => \A t \in flushing : t[1] # x
  /\ NeedsFlush(c)
  /\ todo' = [todo EXCEPT ![x] = todo[x] \ {c}]
  /\ flushing' = flushing \cup {<<x, c, version[c]>>}
  /\ UNCHANGED <<clients, pending, used, report, version, dirty, saved,
                 failures, failed, running, ticking, connected, written,
                 wanted, late>>

\* A location that was marked again during the save stays dirty.
AlwaysCleanMutant(c, v) == FALSE
StillDirty(c, v) == dirty[c] /\ version[c] # v

FlushSaves(x, c, v) ==
  /\ running # "down"
  /\ <<x, c, v>> \in flushing
  /\ flushing' = flushing \ {<<x, c, v>>}
  /\ saved' = [by |-> c, version |-> v]
  /\ written' = [written EXCEPT ![c] = v]
  /\ dirty' = [dirty EXCEPT ![c] = StillDirty(c, v)]
  /\ UNCHANGED <<clients, pending, used, report, version, todo, failures,
                 failed, running, ticking, connected, wanted, late>>

\* SaveLocation returns an error; after a timeout the row may have been
\* written all the same.
FlushFails(x, c, v, wrote) ==
  /\ running # "down"
  /\ <<x, c, v>> \in flushing
  /\ failures < MaxFailures
  /\ failures' = failures + 1
  /\ flushing' = flushing \ {<<x, c, v>>}
  /\ saved' = IF wrote THEN [by |-> c, version |-> v] ELSE saved
  /\ failed' = failed \cup {x}
  /\ late' = IF x = "unregister" THEN late \cup {c} ELSE late
  /\ UNCHANGED <<clients, pending, used, report, version, dirty, todo, running,
                 ticking, connected, written, wanted>>

-----------------------------------------------------------------------------
(* Who flushes what *)

\* FlushLocations, of the ticker and of main: the connected ones, as they are.
LeaversMutant == pending
ToFlush == clients

\* Once the process is to stop, RunPersistence flushes a last time and returns.
TickerFlush ==
  /\ running # "down"
  /\ ticking
  /\ Idle("ticker")
  /\ clients # {} \/ running = "stopping"
  /\ todo' = [todo EXCEPT !["ticker"] = ToFlush]
  /\ ticking' \in IF running = "up" THEN {TRUE} ELSE BOOLEAN
  /\ UNCHANGED <<clients, pending, used, report, version, dirty, flushing,
                 saved, failures, failed, running, connected, written, wanted,
                 late>>

\* GET /api/characters: SyncAccountLocations takes those being unregistered too,
ToSync == clients \cup pending

SyncAccountLocations ==
  /\ running = "up"
  /\ Idle("sync")
  /\ todo' = [todo EXCEPT !["sync"] = ToSync]
  /\ failed' = failed \ {"sync"}
  /\ wanted' = [wanted EXCEPT !["sync"] = version]
  /\ UNCHANGED <<clients, pending, used, report, version, dirty, flushing,
                 saved, failures, running, ticking, connected, written, late>>

\* The end of main: ListenAndServe has returned, the pumps still run.
Shutdown ==
  /\ Stops
  /\ running = "up"
  /\ running' = "stopping"
  /\ connected' = clients
  /\ todo' = [todo EXCEPT !["exit"] = ToFlush]
  /\ wanted' = [wanted EXCEPT !["exit"] = version]
  /\ UNCHANGED <<clients, pending, used, report, version, dirty, flushing,
                 saved, failures, failed, ticking, written, late>>

Exit ==
  /\ running = "stopping"
  /\ Idle("exit")
  /\ running' = "down"
  /\ UNCHANGED <<clients, pending, used, report, version, dirty, todo, flushing,
                 saved, failures, failed, ticking, connected, written, wanted,
                 late>>

Flush ==
  \/ \E x \in Flushers, c \in Clients : SkipFlush(x, c) \/ BeginFlush(x, c)
  \/ \E t \in flushing :
       \/ FlushSaves(t[1], t[2], t[3])
       \/ \E wrote \in BOOLEAN : FlushFails(t[1], t[2], t[3], wrote)

Next ==
  \/ \E c \in Clients :
       \/ Register(c)
       \/ \E onFoot, roomChanged \in BOOLEAN : HandlePresence(c, onFoot, roomChanged)
       \/ MarkLocation(c)
       \/ Unregister(c)
       \/ UnregisterEnds(c)
  \/ Flush
  \/ TickerFlush
  \/ SyncAccountLocations
  \/ Shutdown
  \/ Exit

Spec == Init /\ [][Next]_vars

\* The goroutines run, the ticker ticks and main ends when its flush has; nobody
\* has to connect or report, and the process need not stop.
Fairness ==
  /\ WF_vars(TickerFlush)
  /\ WF_vars(Exit)
  /\ \A c \in Clients : WF_vars(MarkLocation(c)) /\ WF_vars(UnregisterEnds(c))
  /\ \A x \in Flushers, c \in Clients :
       /\ WF_vars(SkipFlush(x, c) \/ BeginFlush(x, c))
       /\ \A v \in 1 .. MaxReports :
            WF_vars(\/ FlushSaves(x, c, v)
                    \/ \E wrote \in BOOLEAN : FlushFails(x, c, v, wrote))

FairSpec == Spec /\ Fairness

-----------------------------------------------------------------------------
(* Properties *)

TypeOK ==
  /\ clients \subseteq Clients
  /\ pending \subseteq Clients
  /\ used \subseteq Clients
  /\ report \in [Clients -> Reports]
  /\ version \in [Clients -> 0 .. MaxReports]
  /\ dirty \in [Clients -> BOOLEAN]
  /\ todo \in [Flushers -> SUBSET Clients]
  /\ flushing \subseteq Flushers \X Clients \X (1 .. MaxReports)
  /\ saved \in [by : Clients \cup {NoClient}, version : 0 .. MaxReports]
  /\ failures \in 0 .. MaxFailures
  /\ failed \subseteq Flushers
  /\ running \in {"up", "stopping", "down"}
  /\ ticking \in BOOLEAN
  /\ connected \subseteq Clients
  /\ written \in [Clients -> 0 .. MaxReports]
  /\ wanted \in [{"sync", "exit"} -> [Clients -> 0 .. MaxReports]]
  /\ late \subseteq Clients

\* "Reconcile the realtime state first so character selection and world loading
\* read the same authoritative server value" (accounts.go): when the list
\* request has flushed without an error, the locations that were marked before
\* it began are saved, also those of a connection being unregistered.  A mark
\* made after Unregister has taken the connection out (DisconnectFlushes), and one
\* whose last flush failed, have nobody left to save them: these are in late.
SyncIsFresh ==
  Idle("sync") /\ "sync" \notin failed =>
    \A c \in Clients \ late : written[c] >= wanted["sync"][c]

\* Of what was marked before the shutdown began, the end of main loses only the
\* location of a connection that had left before, and whose flush in Unregister
\* the process did not wait for: never that of a connected client, nor that of one
\* that Unregister is done with.
LeaverIsCutOff(c) ==
  /\ c \notin connected
  /\ c \in todo["unregister"] \/ \E t \in flushing : t[1] = "unregister" /\ t[2] = c

ExitLosesLeaversOnly ==
  running = "down" /\ "exit" \notin failed =>
    \A c \in connected \cup (Clients \ late) :
      written[c] >= wanted["exit"][c] \/ LeaverIsCutOff(c)

\* A connection never writes an older location over a newer one of its own,
\* whichever of its flushers comes first.
SavedInOrder ==
  [][\A c \in Clients : saved'.by = c =>
       /\ saved.by = c => saved'.version >= saved.version
       /\ saved' # saved => saved'.version >= written[c]]_vars

\* A reported location is saved as long as the process runs.
LocationIsSaved ==
  \A c \in Clients, n \in 1 .. MaxReports :
    version[c] = n /\ c \in clients ~>
      written[c] >= n \/ running = "down" \/ c \in late

Settled(c) ==
  /\ ~report[c].here
  /\ \A x \in Flushers : c \notin todo[x]
  /\ \A t \in flushing : t[2] # c

\* docs/multiplayer-server.md: locations are "flushed again on disconnect"
DisconnectFlushes ==
  \A c \in used \ (clients \cup pending) : Settled(c) => ~dirty[c]

\* The inductive invariant.  flushMu: a connection is saved by one flusher at a
\* time, each save newer than the last one, and what is not dirty is saved.
FlushesAreInOrder ==
  /\ \A t, u \in flushing : t[2] = u[2] => t = u
  /\ \A t \in flushing :
       /\ dirty[t[2]]
       /\ written[t[2]] <= t[3] /\ t[3] <= version[t[2]]
       /\ saved.by = t[2] => saved.version <= t[3]
  /\ \A c \in Clients :
       /\ saved.by = c => saved.version <= version[c]
       /\ IF dirty[c] THEN 0 < version[c] /\ written[c] <= version[c]
                      ELSE written[c] = version[c]

\* Unregister hands a connection from clients to pending, and keeps it there
\* until its last location is saved; once the process stops, nobody joins.
LeaversAreFlushed ==
  /\ running # "up" => clients \subseteq connected
  /\ clients \cup pending \subseteq used /\ clients \cap pending = {}
  /\ \A c \in Clients \ late :
       dirty[c] =>
         \/ c \in clients
         \/ c \in pending /\ c \in todo["unregister"]
         \/ c \in pending /\ <<"unregister", c, version[c]>> \in flushing

\* A round of flushes has saved, is saving or is still to save what was marked
\* before it began.
Owed(x) == IF x = "sync" THEN Clients \ late ELSE connected
RoundsAreFresh ==
  \A x \in {"sync", "exit"} :
    /\ \A c \in Clients : wanted[x][c] <= version[c]
    /\ x \notin failed => \A c \in Owed(x) :
         \/ wanted[x][c] <= written[c]
         \/ c \in todo[x]
         \/ \E v \in wanted[x][c] .. version[c] : <<x, c, v>> \in flushing

IInv ==
  /\ TypeOK
  /\ FlushesAreInOrder
  /\ LeaversAreFlushed
  /\ RoundsAreFresh
  /\ ExitLosesLeaversOnly

=============================================================================
