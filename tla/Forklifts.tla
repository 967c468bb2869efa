----------------------------- MODULE Forklifts -----------------------------
(***************************************************************************)
(* The shared forklifts of internal/realtime: who drives which one, what   *)
(* the rooms are told about it, and how an abandoned one is collected and  *)
(* put back.  Every handler holds Hub.mu for its whole state change, so    *)
(* each is one action.  Timers (time.AfterFunc) are pairs of a forklift    *)
(* and the expiry they were armed for; they fire at that time or later.    *)
(* Position, orientation, lift and velocities are left out.                *)
(***************************************************************************)
EXTENDS Integers, FiniteSets

CONSTANTS
  Clients,          \* connections
  NoClient,         \* OwnerID ""
  Worlds,           \* rooms
  NoWorld,          \* WorldID "" of a zero ForkliftState
  BaseForklifts,    \* the ids of vehicle_spawns.json
  DynamicForklifts, \* ids "forklift-<12 hex>" that HandleForkliftSpawn can draw
  NoVehicle,        \* a nil VehicleID
  EmptyID,          \* the map key "" of a zero ForkliftState
  Home,             \* Home[f]: the world a base forklift is authored in
  ExpiringWorlds,   \* where getting out starts the abandonment clock
  SpawnLimit,       \* SpawnLimit[w]: dynamic forklifts allowed in w
  Lifetime,         \* abandonedForkliftLifetime
  MaxTime           \* bound of the clock

Forklifts == BaseForklifts \cup DynamicForklifts
Keys == Forklifts \cup {EmptyID}

ASSUME ConstantsAssumption ==
  /\ NoClient \notin Clients
  /\ NoWorld \notin Worlds
  /\ NoVehicle \notin Keys
  /\ EmptyID \notin Forklifts
  /\ BaseForklifts \cap DynamicForklifts = {}
  /\ Home \in [BaseForklifts -> Worlds]
  /\ ExpiringWorlds \subseteq Worlds
  /\ SpawnLimit \in [Worlds -> Nat]
  /\ Lifetime \in Nat \ {0}
  /\ MaxTime \in Nat

VARIABLES
  now,        \* the clock, in units of which Lifetime is a multiple
  live,       \* Hub.clients
  presences,  \* Hub.presences: the world and vehicle of each client in a room
  owners,     \* Hub.forkliftOwners
  forklifts,  \* Hub.forklifts; a key that is not in the map has the zero value
  timers,     \* armed expiry timers: <<id, ExpiresAtMs>>
  respawns,   \* base forklifts whose one-second respawn timer is armed
  drawn       \* dynamic ids already handed out: randomHex never repeats one

vars == <<now, live, presences, owners, forklifts, timers, respawns, drawn>>

-----------------------------------------------------------------------------
(* State *)

Presence == [world : Worlds \cup {NoWorld}, vehicle : Forklifts \cup {NoVehicle}]
NoPresence == [world |-> NoWorld, vehicle |-> NoVehicle]
Present(c) == presences[c].world # NoWorld

\* protocol.ForkliftState; "here" is membership in the map.
ForkliftState ==
  [here : BOOLEAN, world : Worlds \cup {NoWorld},
   owner : Clients \cup {NoClient}, expires : Nat]
ZeroForklift ==
  [here |-> FALSE, world |-> NoWorld, owner |-> NoClient, expires |-> 0]

\* initialForkliftState
InitialForklift(f) ==
  [here |-> TRUE, world |-> Home[f], owner |-> NoClient, expires |-> 0]

Init ==
  /\ now = 1
  /\ live = {}
  /\ presences = [c \in Clients |-> NoPresence]
  /\ owners = [f \in Forklifts |-> NoClient]
  /\ forklifts = [f \in Keys |-> IF f \in BaseForklifts THEN InitialForklift(f)
                                                        ELSE ZeroForklift]
  /\ timers = {}
  /\ respawns = {}
  /\ drawn = {}

-----------------------------------------------------------------------------
(* Helpers.  An operator whose name ends in Mutant is a wrong variant of the   *)
(* definition after it; no specification uses it.                           *)

\* forkliftReleaseExpiry: only two worlds start the clock when a driver gets
\* out; elsewhere the forklift stays where it was left.
ReleaseExpiry(w) == IF w \in ExpiringWorlds THEN now + Lifetime ELSE 0

\* "state := h.forklifts[f]; ...; h.forklifts[state.ID] = state" of a driver
\* that goes away.  When f is no longer in the map its zero value is written
\* back, under the empty id.
StoredUnderItsNameMutant(f) == f
StoredUnder(f) == IF forklifts[f].here THEN f ELSE EmptyID

AbandonKeepsOwnerMutant(f, e) ==
  [forklifts EXCEPT ![StoredUnder(f)] =
     [forklifts[f] EXCEPT !.here = TRUE, !.expires = e]]
Abandon(f, e) ==
  [forklifts EXCEPT ![StoredUnder(f)] =
     [forklifts[f] EXCEPT !.here = TRUE, !.owner = NoClient, !.expires = e]]

\* releaseForkliftLocked
ReleaseNothingMutant(c, v) == owners
ReleaseForklift(c, v) ==
  IF v # NoVehicle /\ owners[v] = c THEN [owners EXCEPT ![v] = NoClient]
                                    ELSE owners

\* scheduleForkliftExpiry
ArmNothingMutant(f, e) == timers
ArmExpiry(f, e) == IF e > 0 THEN timers \cup {<<f, e>>} ELSE timers

\* The vehicle a presence report is granted: the one it names when that is in
\* the map, in the reported world and not someone else's.
GrantContestedMutant(c, w, v) ==
  IF v # NoVehicle /\ forklifts[v].here /\ forklifts[v].world = w
  THEN v ELSE NoVehicle
Granted(c, w, v) ==
  IF /\ v # NoVehicle
     /\ forklifts[v].here
     /\ forklifts[v].world = w
     /\ owners[v] \in {NoClient, c}
  THEN v ELSE NoVehicle

\* dynamicForkliftCountLocked
DynamicCount(w) ==
  Cardinality({f \in DynamicForklifts : forklifts[f].here /\ forklifts[f].world = w})

-----------------------------------------------------------------------------
(* Handlers *)

Register(c) ==
  /\ c \notin live
  /\ live' = live \cup {c}
  /\ UNCHANGED <<now, presences, owners, forklifts, timers, respawns, drawn>>

\* HandlePresence gets out of the vehicle of the previous report if the new one
\* is granted another or none,
Leaves(c, vehicle) == presences[c].vehicle \notin {NoVehicle, vehicle}
LeaveExpiry(c) == ReleaseExpiry(forklifts[presences[c].vehicle].world)
AfterLeaving(c, vehicle) ==
  IF Leaves(c, vehicle) THEN Abandon(presences[c].vehicle, LeaveExpiry(c))
                        ELSE forklifts
OwnersAfterLeaving(c, vehicle) ==
  IF Leaves(c, vehicle) THEN ReleaseForklift(c, presences[c].vehicle) ELSE owners

\* then into the vehicle it is granted.
Board(states, f, c) ==
  [states EXCEPT ![f] = [states[f] EXCEPT !.owner = c, !.expires = 0]]

HandlePresence(c, w, v) ==
  LET vehicle == Granted(c, w, v)
  IN /\ c \in live
     /\ presences' = [presences EXCEPT ![c] = [world |-> w, vehicle |-> vehicle]]
     /\ IF vehicle = NoVehicle
        THEN /\ forklifts' = AfterLeaving(c, vehicle)
             /\ owners' = OwnersAfterLeaving(c, vehicle)
        ELSE /\ forklifts' = Board(AfterLeaving(c, vehicle), vehicle, c)
             /\ owners' = [OwnersAfterLeaving(c, vehicle) EXCEPT ![vehicle] = c]
     /\ timers' = IF Leaves(c, vehicle)
                  THEN ArmExpiry(StoredUnder(presences[c].vehicle), LeaveExpiry(c))
                  ELSE timers
     /\ UNCHANGED <<now, live, respawns, drawn>>

\* The owner an accepted update leaves in the forklift's state.
UpdatedOwner(c, f, release) ==
  IF ~release /\ owners[f] = c THEN c ELSE NoClient

\* HandleForkliftUpdate: the physics report of a driver or, for a forklift
\* nobody drives, of anyone in its room.  A release does not touch presences.
UpdateAllowed(c, f, release) ==
  IF release THEN owners[f] = c ELSE owners[f] \in {NoClient, c}

HandleForkliftUpdate(c, f, release) ==
  LET expiry == IF release THEN ReleaseExpiry(forklifts[f].world) ELSE 0
  IN /\ Present(c)
     /\ forklifts[f].here
     /\ forklifts[f].world = presences[c].world
     /\ UpdateAllowed(c, f, release)
     /\ owners' = IF release THEN [owners EXCEPT ![f] = NoClient] ELSE owners
     /\ forklifts' = [forklifts EXCEPT ![f] =
          [@ EXCEPT !.owner = UpdatedOwner(c, f, release), !.expires = expiry]]
     /\ timers' = ArmExpiry(f, expiry)
     /\ UNCHANGED <<now, live, presences, respawns, drawn>>

\* HandleForkliftSpawn
MaySpawn(w) == DynamicCount(w) < SpawnLimit[w]

HandleForkliftSpawn(c, f) ==
  LET w == presences[c].world
  IN /\ Present(c)
     /\ MaySpawn(w)
     /\ f \notin drawn
     /\ drawn' = drawn \cup {f}
     /\ forklifts' = [forklifts EXCEPT ![f] =
          [here |-> TRUE, world |-> w, owner |-> NoClient, expires |-> now + Lifetime]]
     /\ timers' = ArmExpiry(f, now + Lifetime)
     /\ UNCHANGED <<now, live, presences, owners, respawns>>

\* leaveWorld puts the vehicle back at its authored place, or removes it.
LeaveWorld(c) ==
  LET vehicle == presences[c].vehicle
  IN /\ Present(c)
     /\ presences' = [presences EXCEPT ![c] = NoPresence]
     /\ forklifts' =
          IF vehicle = NoVehicle THEN forklifts
          ELSE [forklifts EXCEPT ![vehicle] =
                  IF vehicle \in BaseForklifts THEN InitialForklift(vehicle)
                                               ELSE ZeroForklift]
     /\ owners' = ReleaseForklift(c, vehicle)
     /\ UNCHANGED <<now, live, timers, respawns, drawn>>

\* Unregister leaves it where it stands, with the abandonment clock started
\* in every world.
Unregister(c) ==
  LET vehicle == presences[c].vehicle
      expiry  == now + Lifetime
  IN /\ c \in live
     /\ live' = live \ {c}
     /\ presences' = [presences EXCEPT ![c] = NoPresence]
     /\ owners' = ReleaseForklift(c, vehicle)
     /\ IF vehicle = NoVehicle
        THEN UNCHANGED <<forklifts, timers>>
        ELSE /\ forklifts' = Abandon(vehicle, expiry)
             /\ timers' = ArmExpiry(StoredUnder(vehicle), expiry)
     /\ UNCHANGED <<now, respawns, drawn>>

-----------------------------------------------------------------------------
(* Timers *)

\* The expiry callback acts only if the forklift is still the one, abandoned
\* at the same moment, the timer was armed for.
AnyTimerAppliesMutant(f, e) == forklifts[f].here /\ forklifts[f].owner = NoClient
ExpiryApplies(f, e) ==
  /\ forklifts[f].here
  /\ forklifts[f].owner = NoClient
  /\ forklifts[f].expires = e

NoRespawnMutant(f) == respawns
ArmRespawn(f) == IF f \in BaseForklifts THEN respawns \cup {f} ELSE respawns

ForkliftExpiry(f, e) ==
  /\ <<f, e>> \in timers
  /\ e <= now
  /\ timers' = timers \ {<<f, e>>}
  /\ IF ExpiryApplies(f, e)
     THEN /\ forklifts' = [forklifts EXCEPT ![f] = ZeroForklift]
          /\ respawns' = ArmRespawn(f)
     ELSE UNCHANGED <<forklifts, respawns>>
  /\ UNCHANGED <<now, live, presences, owners, drawn>>

ForkliftRespawn(f) ==
  /\ f \in respawns
  /\ respawns' = respawns \ {f}
  /\ forklifts' = IF forklifts[f].here THEN forklifts
                  ELSE [forklifts EXCEPT ![f] = InitialForklift(f)]
  /\ UNCHANGED <<now, live, presences, owners, timers, drawn>>

Tick ==
  /\ now < MaxTime
  /\ now' = now + 1
  /\ UNCHANGED <<live, presences, owners, forklifts, timers, respawns, drawn>>

-----------------------------------------------------------------------------
Next ==
  \/ \E c \in Clients :
       \/ Register(c)
       \/ \E w \in Worlds, v \in Forklifts \cup {NoVehicle} : HandlePresence(c, w, v)
       \/ \E f \in Forklifts, release \in BOOLEAN : HandleForkliftUpdate(c, f, release)
       \/ \E f \in DynamicForklifts : HandleForkliftSpawn(c, f)
       \/ LeaveWorld(c)
       \/ Unregister(c)
  \/ \E t \in timers : ForkliftExpiry(t[1], t[2])
  \/ \E f \in respawns : ForkliftRespawn(f)
  \/ Tick

Spec == Init /\ [][Next]_vars

\* Go timers fire and time passes; clients may stay silent for ever.
Fairness ==
  /\ WF_vars(Tick)
  /\ \A f \in Keys, e \in 1 .. MaxTime : WF_vars(ForkliftExpiry(f, e))
  /\ \A f \in BaseForklifts : WF_vars(ForkliftRespawn(f))

FairSpec == Spec /\ Fairness

-----------------------------------------------------------------------------
(* Properties *)

TypeOK ==
  /\ now \in Nat
  /\ live \subseteq Clients
  /\ presences \in [Clients -> Presence]
  /\ owners \in [Forklifts -> Clients \cup {NoClient}]
  /\ forklifts \in [Keys -> ForkliftState]
  /\ timers \subseteq Keys \X Nat
  /\ respawns \subseteq BaseForklifts
  /\ drawn \subseteq DynamicForklifts

\* A claim in forkliftOwners belongs to a connected client whose last report
\* has it in that forklift, in the forklift's world: Unregister, leaveWorld, a
\* change of room and a contested or vanished vehicle all give claims back.
OwnerDrives ==
  \A f \in Forklifts : owners[f] # NoClient =>
    LET c == owners[f] IN
      /\ c \in live
      /\ presences[c].vehicle = f
      /\ forklifts[f].here => forklifts[f].world = presences[c].world

\* The owner a room is told about is the client that holds the claim: no step
\* of another client's handler, and no timer, leaves a stale owner on show.
ShownOwnerIsReal ==
  \A f \in Keys : forklifts[f].owner # NoClient =>
    f \in Forklifts /\ owners[f] = forklifts[f].owner

\* A forklift shown as driven has no abandonment clock running.
DrivenHasNoExpiry ==
  \A f \in Keys : forklifts[f].owner # NoClient => forklifts[f].expires = 0

\* Every expiry written into a state has its timer: none of the three
\* handlers that start the clock forgets scheduleForkliftExpiry, and a timer
\* made void by a newer report is never the only one left.
ExpiryIsArmed ==
  \A f \in Keys : forklifts[f].expires > 0 => <<f, forklifts[f].expires>> \in timers

\* A base forklift missing from the map has its respawn timer running.
MissingBaseIsDue ==
  \A f \in BaseForklifts : ~forklifts[f].here => f \in respawns

\* Nothing moves a forklift to another world while it exists, and a dynamic
\* forklift that was removed never comes back: not through the report, the
\* update or the disconnection of a client still riding it.
WorldStays ==
  [][\A f \in Forklifts :
       /\ forklifts[f].here /\ forklifts[f].here' =>
            forklifts[f].world' = forklifts[f].world
       /\ f \in drawn /\ ~forklifts[f].here => ~forklifts[f].here']_vars

\* A forklift leaves the map only when its abandonment time is over or when a
\* client last reported in it leaves the world.
NoEarlyRemoval ==
  [][\A f \in Forklifts : forklifts[f].here /\ ~forklifts[f].here' =>
       \/ forklifts[f].expires > 0 /\ forklifts[f].expires <= now
       \/ \E c \in Clients : presences[c].vehicle = f /\ ~Present(c)']_vars

\* forkliftOwners implements exclusive driving.
Claims == INSTANCE VehicleClaims WITH Vehicles <- Forklifts, holder <- owners
DrivingIsExclusive == Claims!Spec

\* An abandoned forklift is collected once its time is over, unless a report,
\* an update or a departure changes its expiry first.
AbandonedIsCollected ==
  \A f \in Forklifts, e \in 1 .. MaxTime :
    forklifts[f].expires = e ~> forklifts[f].expires # e

\* A collected base forklift comes back.
BaseComesBack ==
  \A f \in BaseForklifts : ~forklifts[f].here ~> forklifts[f].here

\* The facts that make the invariants above inductive: a key that is not in the
\* map reads as the zero value, a base forklift is only ever in, or driven in,
\* its home world, and a dynamic id means nothing before it is drawn.
MissingIsZero ==
  \A k \in Keys : ~forklifts[k].here => forklifts[k] = ZeroForklift

HomeWorld ==
  \A f \in BaseForklifts :
    /\ forklifts[f].here => forklifts[f].world = Home[f]
    /\ owners[f] # NoClient => presences[owners[f]].world = Home[f]

DrawnFirst ==
  \A f \in DynamicForklifts \ drawn : ~forklifts[f].here /\ owners[f] = NoClient

IInv ==
  /\ TypeOK
  /\ OwnerDrives
  /\ ShownOwnerIsReal
  /\ DrivenHasNoExpiry
  /\ ExpiryIsArmed
  /\ MissingBaseIsDue
  /\ MissingIsZero
  /\ HomeWorld
  /\ DrawnFirst

=============================================================================
