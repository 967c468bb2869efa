------------------------------- MODULE Travel -------------------------------
(***************************************************************************)
(* Timed travel: how internal/realtime/transitions.go lets a player into   *)
(* an interior whose door has opening hours.  A client asks at the door    *)
(* (transition.request), is granted an authorization, commits it           *)
(* (transition.commit), and then enters with an ordinary presence report.  *)
(*                                                                         *)
(* Both handlers read a clock before they take Hub.mu, and a commit takes  *)
(* Hub.mu up to three times.  readPump handles one message of a connection *)
(* at a time, so pc[c] is the place of its only handler; Unregister, which *)
(* other goroutines call too, can come between any two of its steps.       *)
(***************************************************************************)
EXTENDS Integers

CONSTANTS
  Clients,      \* connections; each registers and unregisters once
  Worlds,
  NoWorld,      \* "" as a world id
  Positions,    \* coordinates in a world, as far as doors can tell them apart
  Rules,        \* travelaccess rules, by TransitionID
  Source,       \* Source[r], Destination[r]: the worlds a rule joins
  Destination,
  InRange,      \* the pairs <<r, p>> with rule.WithinRange
  AlwaysAccessible,  \* interiors without opening hours
  Day,          \* game minutes in a day
  DayBoundary,  \* OpenWindow.DayBoundaryHour, in game minutes
  Opens,        \* OpenWindow.StartMinute and EndMinute, of the day that
  Closes,       \* begins at the boundary; they may exceed Day
  Lifetime,     \* Lifetime[r]: AuthorizationLifetime
  RequestIDs,   \* what clients call their attempts
  Authorizations,  \* what randomHex can draw as an AuthorizationID
  NoRule,
  NoID,
  NoPosition,
  MaxTime       \* bound of the real-time clock

ASSUME ConstantsAssumption ==
  /\ NoWorld \notin Worlds
  /\ NoRule \notin Rules
  /\ NoID \notin RequestIDs \cup Authorizations
  /\ Source \in [Rules -> Worlds]
  /\ Destination \in [Rules -> Worlds]
  /\ AlwaysAccessible \subseteq Worlds
  /\ Day \in Nat \ {0}
  /\ DayBoundary \in [Rules -> 0 .. Day - 1]
  /\ Opens \in [Rules -> Nat]
  /\ Closes \in [Rules -> Nat]
  /\ Lifetime \in [Rules -> Nat \ {0}]
  /\ MaxTime \in Nat

VARIABLES
  now,          \* time.Now()
  minute,       \* game time of day, which an administrator may also set
  conn,         \* "new", in Hub.clients ("live"), or unregistered ("closed")
  initial,      \* Client.initialWorldID: where the character was saved
  announced,    \* Client.announcedInitialEntry
  presences,    \* Hub.presences; "here" is membership, as in the maps below
  departed,     \* Hub.departedWorlds; NoWorld when not in the map
  grants,       \* Hub.transitionGrants
  arrivals,     \* Hub.authorizedArrivals
  pc,           \* the step of the transition handler the client's reader is at
  stamp,        \* the clock reading that handler took
  drawn,        \* authorization ids drawn so far
  permits,      \* ghost: per world, authorizations granted that did not lapse
  entries       \* ghost: per controlled world, times the client came in

vars == <<now, minute, conn, initial, announced, presences, departed, grants,
          arrivals, pc, stamp, drawn, permits, entries>>

-----------------------------------------------------------------------------
(* State *)

Presence ==
  [here : BOOLEAN, world : Worlds \cup {NoWorld},
   at : Positions \cup {NoPosition}, onFoot : BOOLEAN]
NoPresence ==
  [here |-> FALSE, world |-> NoWorld,
   at |-> NoPosition, onFoot |-> FALSE]

\* transitionGrant
Grant ==
  [here : BOOLEAN, request : RequestIDs \cup {NoID},
   authorization : Authorizations \cup {NoID},
   rule : Rules \cup {NoRule}, expires : Nat]
NoGrant ==
  [here |-> FALSE, request |-> NoID, authorization |-> NoID,
   rule |-> NoRule, expires |-> 0]

\* authorizedArrival
Arrival ==
  [here : BOOLEAN, source : Worlds \cup {NoWorld},
   destination : Worlds \cup {NoWorld}]
NoArrival == [here |-> FALSE, source |-> NoWorld, destination |-> NoWorld]

Init ==
  /\ now = 0
  /\ minute \in 0 .. Day - 1
  /\ conn = [c \in Clients |-> "new"]
  /\ initial = [c \in Clients |-> NoWorld]
  /\ announced = [c \in Clients |-> FALSE]
  /\ presences = [c \in Clients |-> NoPresence]
  /\ departed = [c \in Clients |-> NoWorld]
  /\ grants = [c \in Clients |-> NoGrant]
  /\ arrivals = [c \in Clients |-> NoArrival]
  /\ pc = [c \in Clients |-> "idle"]
  /\ stamp = [c \in Clients |-> 0]
  /\ drawn = {}
  /\ permits = [c \in Clients |-> [w \in Worlds |-> 0]]
  /\ entries = [c \in Clients |-> [w \in Worlds |-> 0]]

OneMore(count, c, w) == [count EXCEPT ![c] = [count[c] EXCEPT ![w] = count[c][w] + 1]]

-----------------------------------------------------------------------------
(* The catalog of internal/travelaccess *)

\* Catalog.ControlsDestination: a raw report may not enter these.
Controls(w) ==
  /\ w \notin AlwaysAccessible
  /\ \E r \in Rules : Destination[r] = w

\* Rule.IsOpen at game minute m: before the boundary it is still yesterday.
IsOpen(r, m) ==
  LET sinceBoundary == IF m < DayBoundary[r] THEN m + Day ELSE m
  IN Opens[r] <= sinceBoundary /\ sinceBoundary < Closes[r]

\* Catalog.IsRuleOpen
IsRuleOpen(r, m) == Destination[r] \in AlwaysAccessible \/ IsOpen(r, m)

\* Standing at the door of r, on foot.  Both handlers check it.
AtDoor(c, r) ==
  /\ presences[c].here
  /\ presences[c].world = Source[r]
  /\ presences[c].onFoot
  /\ <<r, presences[c].at>> \in InRange

-----------------------------------------------------------------------------
(* Connections *)

\* The character's saved world comes with the connection.
Register(c, w) ==
  /\ conn[c] = "new"
  /\ conn' = [conn EXCEPT ![c] = "live"]
  /\ initial' = [initial EXCEPT ![c] = w]
  /\ UNCHANGED <<now, minute, announced, presences, departed, grants, arrivals,
                 pc, stamp, drawn, permits, entries>>

UnregisterKeepsArrivalMutant(c) ==
  /\ conn[c] = "live"
  /\ conn' = [conn EXCEPT ![c] = "closed"]
  /\ presences' = [presences EXCEPT ![c] = NoPresence]
  /\ departed' = [departed EXCEPT ![c] = NoWorld]
  /\ grants' = [grants EXCEPT ![c] = NoGrant]
  /\ UNCHANGED <<now, minute, initial, announced, arrivals, pc, stamp, drawn,
                 permits, entries>>
Unregister(c) ==
  /\ conn[c] = "live"
  /\ conn' = [conn EXCEPT ![c] = "closed"]
  /\ presences' = [presences EXCEPT ![c] = NoPresence]
  /\ departed' = [departed EXCEPT ![c] = NoWorld]
  /\ grants' = [grants EXCEPT ![c] = NoGrant]
  /\ arrivals' = [arrivals EXCEPT ![c] = NoArrival]
  /\ UNCHANGED <<now, minute, initial, announced, pc, stamp, drawn, permits, entries>>

-----------------------------------------------------------------------------
(* Presence reports and leaving *)

\* Where a client that reports a world comes from.
ComesFrom(c) == IF presences[c].here THEN presences[c].world ELSE departed[c]

Arriving(c, w) == arrivals[c].here /\ w = arrivals[c].destination

\* A report sent from the source room before the commit was handled.
NeverInFlightMutant(c, w) == FALSE
InFlight(c, w) ==
  /\ arrivals[c].here
  /\ w # arrivals[c].destination
  /\ w = arrivals[c].source

\* Already inside, or restoring the saved location with the first report.
ResumesAnyTimeMutant(c, w) == ComesFrom(c) = w \/ initial[c] = w
Resumes(c, w) == ComesFrom(c) = w \/ (~announced[c] /\ initial[c] = w)

\* allowPresenceDestinationLocked
Allowed(c, w) ==
  Arriving(c, w) \/ (~InFlight(c, w) /\ (~Controls(w) \/ Resumes(c, w)))

\* Walking into another open area gives up an unused grant.
GrantsAfter(c, w) ==
  IF /\ Allowed(c, w) /\ ~Arriving(c, w) /\ ~Controls(w)
     /\ grants[c].here /\ w # Source[grants[c].rule]
  THEN [grants EXCEPT ![c] = NoGrant]
  ELSE grants

\* A report from the source room leaves the reserved arrival alone; any other
\* report uses it up, even one that is then refused.
ArrivalsKeptMutant(c, w) == arrivals
ArrivalsAfter(c, w) ==
  IF InFlight(c, w) THEN arrivals ELSE [arrivals EXCEPT ![c] = NoArrival]

\* The destination check and the storing of the report in HandlePresence.  A
\* vehicle the report names may or may not be granted (Forklifts.tla).
HandlePresence(c, w, p, f) ==
  /\ conn[c] = "live"
  /\ pc[c] = "idle"
  /\ arrivals' = ArrivalsAfter(c, w)
  /\ grants' = GrantsAfter(c, w)
  /\ IF Allowed(c, w)
     THEN /\ presences' = [presences EXCEPT ![c] =
               [here |-> TRUE, world |-> w, at |-> p, onFoot |-> f]]
          /\ departed' = [departed EXCEPT ![c] = NoWorld]
          /\ announced' = [announced EXCEPT ![c] = TRUE]
          /\ entries' = IF Controls(w) /\ ComesFrom(c) # w
                        THEN OneMore(entries, c, w)
                        ELSE entries
     ELSE UNCHANGED <<presences, departed, announced, entries>>
  /\ UNCHANGED <<now, minute, conn, initial, pc, stamp, drawn, permits>>

\* The part of leaveWorld under Hub.mu that is about places.
Depart(c) ==
  IF presences[c].here
  THEN /\ presences' = [presences EXCEPT ![c] = NoPresence]
       /\ departed' = [departed EXCEPT ![c] = presences[c].world]
  ELSE UNCHANGED <<presences, departed>>

\* LeaveWorld does not look the client up: it may run after Unregister.
LeaveWorld(c) ==
  /\ conn[c] # "new"
  /\ pc[c] = "idle"
  /\ grants' = [grants EXCEPT ![c] = NoGrant]
  /\ arrivals' = [arrivals EXCEPT ![c] = NoArrival]
  /\ Depart(c)
  /\ UNCHANGED <<now, minute, conn, initial, announced, pc, stamp, drawn,
                 permits, entries>>

-----------------------------------------------------------------------------
(* HandleTransitionRequest *)

\* h.world.Snapshot(), before Hub.mu is taken.
BeginRequest(c) ==
  /\ conn[c] = "live"
  /\ pc[c] = "idle"
  /\ pc' = [pc EXCEPT ![c] = "requesting"]
  /\ stamp' = [stamp EXCEPT ![c] = minute]
  /\ UNCHANGED <<now, minute, conn, initial, announced, presences, departed,
                 grants, arrivals, drawn, permits, entries>>

\* A request that names no rule, does not match its rule, or is not made at an
\* open door: whatever was granted before is gone.  After Unregister the
\* handler returns at once, with nothing left to delete.
RefuseTransition(c) ==
  /\ pc[c] = "requesting"
  /\ pc' = [pc EXCEPT ![c] = "idle"]
  /\ stamp' = [stamp EXCEPT ![c] = 0]
  /\ grants' = [grants EXCEPT ![c] = NoGrant]
  /\ UNCHANGED <<now, minute, conn, initial, announced, presences, departed,
                 arrivals, drawn, permits, entries>>

AuthorizeTransition(c, q, r, a) ==
  /\ pc[c] = "requesting"
  /\ conn[c] = "live"
  /\ AtDoor(c, r)
  /\ IsRuleOpen(r, stamp[c])
  /\ a \notin drawn
  /\ drawn' = drawn \cup {a}
  /\ pc' = [pc EXCEPT ![c] = "idle"]
  /\ stamp' = [stamp EXCEPT ![c] = 0]
  /\ grants' = [grants EXCEPT ![c] =
       [here |-> TRUE, request |-> q, authorization |-> a, rule |-> r,
        expires |-> now + Lifetime[r]]]
  /\ permits' = OneMore(permits, c, Destination[r])
  /\ UNCHANGED <<now, minute, conn, initial, announced, presences, departed,
                 arrivals, entries>>

-----------------------------------------------------------------------------
(* HandleTransitionCommit *)

\* time.Now(), before Hub.mu is taken.
BeginCommit(c) ==
  /\ conn[c] = "live"
  /\ pc[c] = "idle"
  /\ pc' = [pc EXCEPT ![c] = "committing"]
  /\ stamp' = [stamp EXCEPT ![c] = now]
  /\ UNCHANGED <<now, minute, conn, initial, announced, presences, departed,
                 grants, arrivals, drawn, permits, entries>>

\* The client names the attempt and the authorization it was given.
NamesGrant(c, q, a) ==
  /\ conn[c] = "live"
  /\ grants[c].here
  /\ grants[c].request = q
  /\ grants[c].authorization = a

GrantIsGood(c) == stamp[c] < grants[c].expires /\ AtDoor(c, grants[c].rule)

\* Good or not, a grant that is named is used up.
GrantsLeft(c, q, a) ==
  IF NamesGrant(c, q, a) THEN [grants EXCEPT ![c] = NoGrant] ELSE grants

\* The first critical section: reserve the arrival.
CommitTransition(c, q, a) ==
  LET good == NamesGrant(c, q, a) /\ GrantIsGood(c)
  IN /\ pc[c] = "committing"
     /\ stamp' = [stamp EXCEPT ![c] = 0]
     /\ grants' = GrantsLeft(c, q, a)
     /\ arrivals' =
          IF good
          THEN [arrivals EXCEPT ![c] =
                  [here |-> TRUE, source |-> Source[grants[c].rule],
                   destination |-> Destination[grants[c].rule]]]
          ELSE arrivals
     /\ pc' = [pc EXCEPT ![c] = IF good THEN "leaving" ELSE "idle"]
     /\ UNCHANGED <<now, minute, conn, initial, announced, presences, departed,
                    drawn, permits, entries>>

\* The second: leaveWorld(client, true), which fails without a presence.
CommitLeaves(c) ==
  /\ pc[c] = "leaving"
  /\ Depart(c)
  /\ pc' = [pc EXCEPT ![c] = IF presences[c].here THEN "idle" ELSE "undoing"]
  /\ UNCHANGED <<now, minute, conn, initial, announced, grants, arrivals,
                 stamp, drawn, permits, entries>>

\* The third, if it failed: give the arrival back.
CommitUndone(c) ==
  /\ pc[c] = "undoing"
  /\ arrivals' = [arrivals EXCEPT ![c] = NoArrival]
  /\ pc' = [pc EXCEPT ![c] = "idle"]
  /\ UNCHANGED <<now, minute, conn, initial, announced, presences, departed,
                 grants, stamp, drawn, permits, entries>>

-----------------------------------------------------------------------------
(* Clocks *)

\* A grant can still be committed, by a handler that has read the clock or
\* by one to come.
Usable(c, time) ==
  /\ grants[c].here
  /\ \/ time < grants[c].expires
     \/ pc[c] = "committing" /\ stamp[c] < grants[c].expires

\* A permit counts no more once its grant has run out.
Lapses(c, w) ==
  /\ Usable(c, now)
  /\ ~Usable(c, now + 1)
  /\ Destination[grants[c].rule] = w

Tick ==
  /\ now < MaxTime
  /\ now' = now + 1
  /\ permits' = [c \in Clients |-> [w \in Worlds |->
       IF Lapses(c, w) THEN permits[c][w] - 1 ELSE permits[c][w]]]
  /\ UNCHANGED <<minute, conn, initial, announced, presences, departed, grants,
                 arrivals, pc, stamp, drawn, entries>>

\* The game clock runs, or is set (worldstate.Manager).
GameClock(m) ==
  /\ minute' = m
  /\ UNCHANGED <<now, conn, initial, announced, presences, departed, grants,
                 arrivals, pc, stamp, drawn, permits, entries>>

Next ==
  \/ \E c \in Clients :
       \/ \E w \in Worlds \cup {NoWorld} : Register(c, w)
       \/ Unregister(c)
       \/ \E w \in Worlds, p \in Positions, f \in BOOLEAN : HandlePresence(c, w, p, f)
       \/ LeaveWorld(c)
       \/ BeginRequest(c)
       \/ RefuseTransition(c)
       \/ \E q \in RequestIDs, r \in Rules, a \in Authorizations :
            AuthorizeTransition(c, q, r, a)
       \/ BeginCommit(c)
       \/ \E q \in RequestIDs, a \in Authorizations : CommitTransition(c, q, a)
       \/ CommitLeaves(c)
       \/ CommitUndone(c)
  \/ Tick
  \/ \E m \in 0 .. Day - 1 : GameClock(m)

Spec == Init /\ [][Next]_vars

-----------------------------------------------------------------------------
(* Properties *)

\* A map without the key reads as the zero value, and one with it is filled in.
TypeOK ==
  /\ now \in Nat
  /\ minute \in 0 .. Day - 1
  /\ conn \in [Clients -> {"new", "live", "closed"}]
  /\ initial \in [Clients -> Worlds \cup {NoWorld}]
  /\ announced \in [Clients -> BOOLEAN]
  /\ presences \in [Clients -> Presence]
  /\ departed \in [Clients -> Worlds \cup {NoWorld}]
  /\ grants \in [Clients -> Grant]
  /\ arrivals \in [Clients -> Arrival]
  /\ pc \in [Clients -> {"idle", "requesting", "committing", "leaving", "undoing"}]
  /\ stamp \in [Clients -> Nat]
  /\ drawn \subseteq Authorizations
  /\ permits \in [Clients -> [Worlds -> Int]]
  /\ entries \in [Clients -> [Worlds -> Nat]]
  /\ \A c \in Clients :
       /\ IF presences[c].here THEN presences[c].world \in Worlds
                               ELSE presences[c] = NoPresence
       /\ IF grants[c].here THEN grants[c].rule \in Rules ELSE grants[c] = NoGrant
       /\ IF arrivals[c].here THEN arrivals[c].destination \in Worlds
                              ELSE arrivals[c] = NoArrival

\* "A raw presence report cannot enter a controlled interior without a
\* committed, connection-scoped arrival" (allowPresenceDestinationLocked): a
\* client comes into a timed interior at most once for each authorization it
\* was given at an open door and that did not run out, and once more where
\* its character was saved.  Reloading inside is not coming in.
Saved(c, w) == IF initial[c] = w THEN 1 ELSE 0

EntriesAreAuthorized ==
  \A c \in Clients, w \in Worlds :
    Controls(w) => entries[c][w] <= permits[c][w] + Saved(c, w)

\* Once the source room has been left, a reserved arrival belongs to a player
\* who is in no room and is remembered to come from the door's source.
ArrivalIsOnTheWay ==
  \A c \in Clients : arrivals[c].here /\ pc[c] # "leaving" =>
    /\ ~presences[c].here
    /\ departed[c] = arrivals[c].source

\* An unused grant belongs to a connected player who is in the source world:
\* every way of going elsewhere takes the grant away.
GrantHolderIsAtSource ==
  \A c \in Clients : grants[c].here =>
    /\ conn[c] = "live"
    /\ presences[c].here
    /\ presences[c].world = Source[grants[c].rule]

\* Whatever handler was under way when it unregistered, a closed connection
\* leaves nothing behind in the hub's maps.
ClosedLeavesNothing ==
  \A c \in Clients : conn[c] = "closed" =>
    /\ ~presences[c].here
    /\ departed[c] = NoWorld
    /\ ~grants[c].here
    /\ ~arrivals[c].here

\* A report in flight from the source room does not put a traveller back
\* (unless a rule led from a world to itself).
NotPutBack ==
  [][\A c \in Clients :
       arrivals[c].here /\ pc[c] # "leaving" /\ presences'[c].here =>
         presences'[c].world \notin {arrivals[c].source} \ {arrivals[c].destination}]_vars

\* What makes these inductive: an unused grant, a reserved arrival and the
\* right to resume the saved place each stand for one entry still to come;
PermitsCoverEntries ==
  \A c \in Clients, w \in Worlds :
    entries[c][w]
      + (IF Usable(c, now) /\ Destination[grants[c].rule] = w THEN 1 ELSE 0)
      + (IF arrivals[c].here /\ arrivals[c].destination = w THEN 1 ELSE 0)
      + (IF ~announced[c] /\ initial[c] = w THEN 1 ELSE 0)
      <= permits[c][w] + Saved(c, w)

\* a commit that has still to leave the source room finds the player there,
\* unless the connection was closed meanwhile;
CommitUnderWay ==
  \A c \in Clients :
    /\ pc[c] \in {"leaving", "undoing"} => ~grants[c].here
    /\ pc[c] = "leaving" /\ conn[c] # "closed" =>
         presences[c].here /\ arrivals[c].here
         /\ presences[c].world = arrivals[c].source
    /\ pc[c] = "undoing" => conn[c] = "closed"

\* and a first report makes the connection known.
NewIsBlank ==
  \A c \in Clients :
    /\ conn[c] = "new" => initial[c] = NoWorld /\ pc[c] = "idle"
    /\ presences[c].here => announced[c]

IInv ==
  /\ TypeOK
  /\ PermitsCoverEntries
  /\ ArrivalIsOnTheWay
  /\ GrantHolderIsAtSource
  /\ ClosedLeavesNothing
  /\ CommitUnderWay
  /\ NewIsBlank

=============================================================================
