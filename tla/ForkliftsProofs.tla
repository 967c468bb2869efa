-------------------------- MODULE ForkliftsProofs --------------------------
(***************************************************************************)
(* Proofs about Forklifts.tla, for any number of clients, worlds and       *)
(* forklifts.  The inductive invariant is IInv: the typing facts, who      *)
(* drives what, what is shown, and which timers are armed.  It needs one   *)
(* conjunct no run of TLC has to state, that a base forklift in the map is *)
(* in its home world.                                                      *)
(***************************************************************************)
EXTENDS Forklifts, TLAPS

\* Reading a state of the map: its fields have their types.
LEMMA ForkliftFields ==
  ASSUME TypeOK, NEW f \in Keys
  PROVE  /\ forklifts[f] \in ForkliftState
         /\ forklifts[f].here \in BOOLEAN
         /\ forklifts[f].world \in Worlds \cup {NoWorld}
         /\ forklifts[f].owner \in Clients \cup {NoClient}
         /\ forklifts[f].expires \in Nat
  BY DEF TypeOK, ForkliftState

\* A presence names a vehicle the map may hold, or none.
LEMMA PresenceFields ==
  ASSUME TypeOK, NEW c \in Clients
  PROVE  /\ presences[c].world \in Worlds \cup {NoWorld}
         /\ presences[c].vehicle \in Forklifts \cup {NoVehicle}
  BY DEF TypeOK, Presence

\* Storing an abandoned forklift keeps the map well typed.
LEMMA AbandonType ==
  ASSUME TypeOK, NEW f \in Forklifts, NEW e \in Nat
  PROVE  /\ Abandon(f, e) \in [Keys -> ForkliftState]
         /\ StoredUnder(f) \in Keys
<1>1. f \in Keys /\ EmptyID \in Keys
  BY DEF Keys
<1>2. StoredUnder(f) \in Keys
  BY <1>1 DEF StoredUnder
<1>3. [forklifts[f] EXCEPT !.here = TRUE, !.owner = NoClient, !.expires = e]
        \in ForkliftState
  BY <1>1, ForkliftFields DEF ForkliftState
<1> QED
  BY <1>1, <1>2, <1>3 DEF Abandon, TypeOK

LEMMA ReleaseForkliftType ==
  ASSUME TypeOK, NEW c \in Clients, NEW v \in Forklifts \cup {NoVehicle}
  PROVE  ReleaseForklift(c, v) \in [Forklifts -> Clients \cup {NoClient}]
  BY ConstantsAssumption DEF ReleaseForklift, TypeOK, Keys

LEMMA ArmExpiryType ==
  ASSUME TypeOK, NEW f \in Keys, NEW e \in Nat
  PROVE  ArmExpiry(f, e) \subseteq Keys \X Nat
  BY DEF ArmExpiry, TypeOK

LEMMA ReleaseExpiryType ==
  ASSUME TypeOK, NEW w
  PROVE  ReleaseExpiry(w) \in Nat
  BY ConstantsAssumption DEF ReleaseExpiry, TypeOK

LEMMA GrantedType ==
  ASSUME NEW c \in Clients, NEW w \in Worlds, NEW v \in Forklifts \cup {NoVehicle}
  PROVE  Granted(c, w, v) \in Forklifts \cup {NoVehicle}
  BY DEF Granted

LEMMA InitialType ==
  /\ ZeroForklift \in ForkliftState
  /\ \A f \in BaseForklifts : InitialForklift(f) \in ForkliftState
  BY ConstantsAssumption DEF ZeroForklift, InitialForklift, ForkliftState

-----------------------------------------------------------------------------
(* Type correctness, one lemma per handler. *)

LEMMA LeavingType ==
  ASSUME TypeOK, NEW c \in Clients, NEW vehicle
  PROVE  /\ AfterLeaving(c, vehicle) \in [Keys -> ForkliftState]
         /\ OwnersAfterLeaving(c, vehicle) \in [Forklifts -> Clients \cup {NoClient}]
         /\ Leaves(c, vehicle) =>
              /\ presences[c].vehicle \in Forklifts
              /\ LeaveExpiry(c) \in Nat
              /\ ArmExpiry(StoredUnder(presences[c].vehicle), LeaveExpiry(c))
                   \subseteq Keys \X Nat
<1>1. CASE Leaves(c, vehicle)
  <2>1. presences[c].vehicle \in Forklifts
    BY <1>1, PresenceFields DEF Leaves
  <2>2. LeaveExpiry(c) \in Nat
    BY ReleaseExpiryType DEF LeaveExpiry
  <2> QED
    BY <1>1, <2>1, <2>2, AbandonType, ReleaseForkliftType, ArmExpiryType
    DEF AfterLeaving, OwnersAfterLeaving
<1>2. CASE ~Leaves(c, vehicle)
  BY <1>2 DEF AfterLeaving, OwnersAfterLeaving, TypeOK
<1> QED
  BY <1>1, <1>2

LEMMA BoardType ==
  ASSUME NEW states \in [Keys -> ForkliftState], NEW f \in Keys, NEW c \in Clients
  PROVE  Board(states, f, c) \in [Keys -> ForkliftState]
<1>1. [states[f] EXCEPT !.owner = c, !.expires = 0] \in ForkliftState
  BY DEF ForkliftState
<1> QED
  BY <1>1 DEF Board

-----------------------------------------------------------------------------
(* Type correctness, one lemma per handler. *)

LEMMA HandlePresenceType ==
  ASSUME TypeOK, NEW c \in Clients, NEW w \in Worlds,
         NEW v \in Forklifts \cup {NoVehicle}, HandlePresence(c, w, v)
  PROVE  TypeOK'
<1> DEFINE vehicle == Granted(c, w, v)
<1>1. vehicle \in Forklifts \cup {NoVehicle}
  BY GrantedType
<1> HIDE DEF vehicle
<1>2. forklifts' \in [Keys -> ForkliftState]
  <2>1. CASE vehicle = NoVehicle
    BY <2>1, LeavingType DEF HandlePresence, vehicle
  <2>2. CASE vehicle # NoVehicle
    <3>1. vehicle \in Keys
      BY <2>2, <1>1 DEF Keys
    <3>2. forklifts' = Board(AfterLeaving(c, vehicle), vehicle, c)
      BY <2>2 DEF HandlePresence, vehicle
    <3> QED
      BY <3>1, <3>2, LeavingType, BoardType
  <2> QED
    BY <2>1, <2>2
<1>3. owners' \in [Forklifts -> Clients \cup {NoClient}]
  <2>1. OwnersAfterLeaving(c, vehicle) \in [Forklifts -> Clients \cup {NoClient}]
    BY LeavingType
  <2> QED
    BY <1>1, <2>1 DEF HandlePresence, vehicle
<1>4. presences' \in [Clients -> Presence]
  BY <1>1 DEF HandlePresence, TypeOK, Presence, vehicle
<1>5. timers' \subseteq Keys \X Nat
  <2>1. CASE Leaves(c, vehicle)
    BY <2>1, LeavingType DEF HandlePresence, vehicle
  <2>2. CASE ~Leaves(c, vehicle)
    BY <2>2 DEF HandlePresence, TypeOK, vehicle
  <2> QED
    BY <2>1, <2>2
<1> QED
  BY <1>2, <1>3, <1>4, <1>5 DEF HandlePresence, TypeOK

LEMMA HandleForkliftUpdateType ==
  ASSUME TypeOK, NEW c \in Clients, NEW f \in Forklifts, NEW release \in BOOLEAN,
         HandleForkliftUpdate(c, f, release)
  PROVE  TypeOK'
<1> DEFINE expiry == IF release THEN ReleaseExpiry(forklifts[f].world) ELSE 0
<1>1. f \in Keys
  BY DEF Keys
<1>2. expiry \in Nat
  BY ReleaseExpiryType
<1> HIDE DEF expiry
<1>3. UpdatedOwner(c, f, release) \in Clients \cup {NoClient}
  BY DEF UpdatedOwner
<1>4. [forklifts[f] EXCEPT !.owner = UpdatedOwner(c, f, release), !.expires = expiry]
        \in ForkliftState
  BY <1>1, <1>2, <1>3, ForkliftFields DEF ForkliftState
<1>5. forklifts' \in [Keys -> ForkliftState]
  BY <1>1, <1>4 DEF HandleForkliftUpdate, TypeOK, expiry
<1>6. timers' \subseteq Keys \X Nat
  BY <1>1, <1>2, ArmExpiryType DEF HandleForkliftUpdate, expiry
<1>7. owners' \in [Forklifts -> Clients \cup {NoClient}]
  BY DEF HandleForkliftUpdate, TypeOK
<1> QED
  BY <1>5, <1>6, <1>7 DEF HandleForkliftUpdate, TypeOK

LEMMA HandleForkliftSpawnType ==
  ASSUME TypeOK, NEW c \in Clients, NEW f \in DynamicForklifts,
         HandleForkliftSpawn(c, f)
  PROVE  TypeOK'
<1>1. f \in Keys
  BY DEF Keys, Forklifts
<1>2. now + Lifetime \in Nat
  BY ConstantsAssumption DEF TypeOK
<1>3. [here |-> TRUE, world |-> presences[c].world, owner |-> NoClient,
       expires |-> now + Lifetime] \in ForkliftState
  BY <1>2, PresenceFields DEF ForkliftState
<1>4. forklifts' \in [Keys -> ForkliftState]
  BY <1>1, <1>3 DEF HandleForkliftSpawn, TypeOK
<1>5. timers' \subseteq Keys \X Nat
  BY <1>1, <1>2, ArmExpiryType DEF HandleForkliftSpawn
<1> QED
  BY <1>4, <1>5 DEF HandleForkliftSpawn, TypeOK

LEMMA LeaveWorldType ==
  ASSUME TypeOK, NEW c \in Clients, LeaveWorld(c)
  PROVE  TypeOK'
<1> DEFINE vehicle == presences[c].vehicle
<1>1. vehicle \in Forklifts \cup {NoVehicle}
  BY PresenceFields
<1>2. owners' \in [Forklifts -> Clients \cup {NoClient}]
  BY <1>1, ReleaseForkliftType DEF LeaveWorld
<1>3. forklifts' \in [Keys -> ForkliftState]
  BY <1>1, InitialType DEF LeaveWorld, TypeOK
<1>4. presences' \in [Clients -> Presence]
  BY DEF LeaveWorld, TypeOK, Presence, NoPresence
<1> QED
  BY <1>2, <1>3, <1>4 DEF LeaveWorld, TypeOK

LEMMA UnregisterType ==
  ASSUME TypeOK, NEW c \in Clients, Unregister(c)
  PROVE  TypeOK'
<1> DEFINE vehicle == presences[c].vehicle
           expiry == now + Lifetime
<1>1. vehicle \in Forklifts \cup {NoVehicle}
  BY PresenceFields
<1>2. expiry \in Nat
  BY ConstantsAssumption DEF TypeOK
<1>3. owners' \in [Forklifts -> Clients \cup {NoClient}]
  BY <1>1, ReleaseForkliftType DEF Unregister
<1>4. forklifts' \in [Keys -> ForkliftState] /\ timers' \subseteq Keys \X Nat
  <2>1. CASE vehicle = NoVehicle
    BY <2>1 DEF Unregister, TypeOK
  <2>2. CASE vehicle # NoVehicle
    BY <2>2, <1>1, <1>2, AbandonType, ArmExpiryType DEF Unregister
  <2> QED
    BY <2>1, <2>2
<1>5. presences' \in [Clients -> Presence]
  BY DEF Unregister, TypeOK, Presence, NoPresence
<1> QED
  BY <1>3, <1>4, <1>5 DEF Unregister, TypeOK

LEMMA TimersType ==
  ASSUME TypeOK
  PROVE  /\ \A f \in Keys, e \in Nat : ForkliftExpiry(f, e) => TypeOK'
         /\ \A f \in BaseForklifts : ForkliftRespawn(f) => TypeOK'
         /\ Tick => TypeOK'
<1>1. ASSUME NEW f \in Keys, NEW e \in Nat, ForkliftExpiry(f, e)
      PROVE  TypeOK'
  <2>1. forklifts' \in [Keys -> ForkliftState]
    BY <1>1, InitialType DEF ForkliftExpiry, TypeOK
  <2>2. respawns' \subseteq BaseForklifts
    BY <1>1 DEF ForkliftExpiry, TypeOK, ArmRespawn
  <2> QED
    BY <1>1, <2>1, <2>2 DEF ForkliftExpiry, TypeOK
<1>2. ASSUME NEW f \in BaseForklifts, ForkliftRespawn(f)
      PROVE  TypeOK'
  <2>1. forklifts' \in [Keys -> ForkliftState]
    BY <1>2, InitialType DEF ForkliftRespawn, TypeOK
  <2> QED
    BY <1>2, <2>1 DEF ForkliftRespawn, TypeOK
<1>3. Tick => TypeOK'
  BY DEF Tick, TypeOK
<1> QED
  BY <1>1, <1>2, <1>3

LEMMA InitType == Init => TypeOK
<1> SUFFICES ASSUME Init PROVE TypeOK
  OBVIOUS
<1>1. forklifts \in [Keys -> ForkliftState]
  BY InitialType DEF Init
<1> QED
  BY <1>1 DEF Init, TypeOK, NoPresence, Presence

LEMMA NextType == TypeOK /\ [Next]_vars => TypeOK'
<1> SUFFICES ASSUME TypeOK, [Next]_vars PROVE TypeOK'
  OBVIOUS
<1>1. ASSUME NEW c \in Clients, Register(c) PROVE TypeOK'
  BY <1>1 DEF Register, TypeOK
<1>2. ASSUME NEW t \in timers, ForkliftExpiry(t[1], t[2]) PROVE TypeOK'
  <2>1. t[1] \in Keys /\ t[2] \in Nat
    BY DEF TypeOK
  <2> QED
    BY <1>2, <2>1, TimersType
<1>3. ASSUME NEW f \in respawns, ForkliftRespawn(f) PROVE TypeOK'
  <2>1. f \in BaseForklifts
    BY DEF TypeOK
  <2> QED
    BY <1>3, <2>1, TimersType
<1>4. CASE UNCHANGED vars
  BY <1>4 DEF vars, TypeOK
<1> QED
  BY <1>1, <1>2, <1>3, <1>4, HandlePresenceType, HandleForkliftUpdateType,
     HandleForkliftSpawnType, LeaveWorldType, UnregisterType, TimersType DEF Next

\* Every variable keeps its type, whatever the clients send and whenever the
\* timers fire.
THEOREM TypeCorrect == Spec => []TypeOK
<1>1. TypeOK /\ [Next]_vars => TypeOK'
  BY NextType
<1> QED
  BY InitType, <1>1, PTL DEF Spec

-----------------------------------------------------------------------------
(* What each handler does to one forklift. *)

\* releaseForkliftLocked takes back nothing but c's own claim on v.
LEMMA ReleaseForkliftEffect ==
  ASSUME TypeOK, NEW c \in Clients, NEW v \in Forklifts \cup {NoVehicle},
         NEW f \in Forklifts
  PROVE  ReleaseForklift(c, v)[f] =
           IF f = v /\ owners[f] = c THEN NoClient ELSE owners[f]
  BY ConstantsAssumption DEF ReleaseForklift, TypeOK, Keys

\* Storing an abandoned forklift changes that forklift, if it is in the map,
\* and otherwise only the entry of the empty id.
LEMMA AbandonEffect ==
  ASSUME TypeOK, NEW g \in Forklifts, NEW e \in Nat, NEW k \in Keys
  PROVE  /\ k # StoredUnder(g) => Abandon(g, e)[k] = forklifts[k]
         /\ k = StoredUnder(g) =>
              /\ Abandon(g, e)[k].here
              /\ Abandon(g, e)[k].owner = NoClient
              /\ Abandon(g, e)[k].expires = e
              /\ Abandon(g, e)[k].world = forklifts[g].world
         /\ k \in Forklifts /\ k = StoredUnder(g) => k = g /\ forklifts[k].here
<1>1. g \in Keys /\ EmptyID \in Keys /\ EmptyID \notin Forklifts
  BY ConstantsAssumption DEF Keys
<1>2. forklifts[g] \in ForkliftState
  BY <1>1, ForkliftFields
<1>3. k \in Forklifts /\ k = StoredUnder(g) => k = g /\ forklifts[k].here
  BY <1>1 DEF StoredUnder
<1>4. StoredUnder(g) \in Keys
  BY <1>1 DEF StoredUnder
<1> QED
  BY <1>2, <1>3, <1>4 DEF Abandon, TypeOK, ForkliftState

\* A claim survives another client's step, and one's own only as a claim on
\* the vehicle just reported.
LEMMA HandlePresenceOwners ==
  ASSUME IInv, NEW c \in Clients, NEW w \in Worlds,
         NEW v \in Forklifts \cup {NoVehicle}, HandlePresence(c, w, v),
         NEW f \in Forklifts
  PROVE  owners'[f] = IF f = Granted(c, w, v) THEN c
                      ELSE IF owners[f] = c THEN NoClient ELSE owners[f]
<1> DEFINE vehicle == Granted(c, w, v)
<1>1. vehicle \in Forklifts \cup {NoVehicle} /\ NoVehicle \notin Forklifts
  BY GrantedType, ConstantsAssumption DEF Keys
<1> HIDE DEF vehicle
<1>2. owners[f] = c => presences[c].vehicle = f
  BY ConstantsAssumption DEF IInv, OwnerDrives
<1>3. f # vehicle => OwnersAfterLeaving(c, vehicle)[f] =
                       IF owners[f] = c THEN NoClient ELSE owners[f]
  <2>1. CASE Leaves(c, vehicle)
    <3>1. presences[c].vehicle \in Forklifts
      BY <2>1, LeavingType DEF IInv
    <3> QED
      BY <2>1, <3>1, <1>2, ReleaseForkliftEffect DEF OwnersAfterLeaving, IInv
  <2>2. CASE ~Leaves(c, vehicle)
    BY <2>2, <1>1, <1>2 DEF OwnersAfterLeaving, Leaves
  <2> QED
    BY <2>1, <2>2
<1>4. OwnersAfterLeaving(c, vehicle) \in [Forklifts -> Clients \cup {NoClient}]
  BY LeavingType DEF IInv
<1> QED
  BY <1>1, <1>3, <1>4 DEF HandlePresence, vehicle

\* A presence report changes the forklift it is granted, the one it leaves and
\* possibly the entry of the empty id.
LEMMA HandlePresenceForklifts ==
  ASSUME IInv, NEW c \in Clients, NEW w \in Worlds,
         NEW v \in Forklifts \cup {NoVehicle}, HandlePresence(c, w, v),
         NEW k \in Keys
  PROVE  LET vehicle == Granted(c, w, v)
             left == presences[c].vehicle
         IN  \/ /\ k = vehicle
                /\ forklifts[k].here /\ forklifts'[k].here
                /\ forklifts[k].world = w /\ forklifts'[k].world = w
                /\ forklifts'[k].owner = c
                /\ forklifts'[k].expires = 0
             \/ /\ k # vehicle
                /\ Leaves(c, vehicle)
                /\ k = StoredUnder(left)
                /\ k \in Forklifts => k = left /\ forklifts[k].here
                /\ forklifts'[k].here
                /\ forklifts'[k].world = forklifts[left].world
                /\ forklifts'[k].owner = NoClient
                /\ forklifts'[k].expires = LeaveExpiry(c)
             \/ /\ k # vehicle
                /\ Leaves(c, vehicle) => k # StoredUnder(left)
                /\ forklifts'[k] = forklifts[k]
<1> DEFINE vehicle == Granted(c, w, v)
           left == presences[c].vehicle
           states == AfterLeaving(c, vehicle)
<1>1. vehicle \in Forklifts \cup {NoVehicle} /\ NoVehicle \notin Keys
  BY GrantedType, ConstantsAssumption
<1>2. vehicle # NoVehicle => forklifts[vehicle].here /\ forklifts[vehicle].world = w
  BY DEF Granted
<1> HIDE DEF vehicle
<1>3. TypeOK
  BY DEF IInv
<1>4. states \in [Keys -> ForkliftState]
  BY <1>3, LeavingType
<1>5. \/ /\ Leaves(c, vehicle)
         /\ k = StoredUnder(left)
         /\ k \in Forklifts => k = left /\ forklifts[k].here
         /\ states[k].here
         /\ states[k].world = forklifts[left].world
         /\ states[k].owner = NoClient
         /\ states[k].expires = LeaveExpiry(c)
      \/ /\ Leaves(c, vehicle) => k # StoredUnder(left)
         /\ states[k] = forklifts[k]
  <2>1. CASE Leaves(c, vehicle)
    <3>1. left \in Forklifts /\ LeaveExpiry(c) \in Nat
      BY <2>1, <1>3, LeavingType
    <3>2. states = Abandon(left, LeaveExpiry(c))
      BY <2>1 DEF AfterLeaving
    <3> HIDE DEF states, left
    <3>3. CASE k = StoredUnder(left)
      BY <2>1, <3>1, <3>2, <3>3, <1>3, AbandonEffect
    <3>4. CASE k # StoredUnder(left)
      BY <3>1, <3>2, <3>4, <1>3, AbandonEffect
    <3> QED
      BY <3>3, <3>4
  <2>2. CASE ~Leaves(c, vehicle)
    BY <2>2 DEF AfterLeaving
  <2> QED
    BY <2>1, <2>2
<1>6. k = vehicle => states[k] = forklifts[k]
  BY <1>1, <1>5 DEF Leaves, Keys, StoredUnder
<1> HIDE DEF states
<1>7. k # vehicle => forklifts'[k] = states[k]
  <2>1. CASE vehicle = NoVehicle
    BY <2>1 DEF HandlePresence, vehicle, states
  <2>2. CASE vehicle # NoVehicle
    <3>1. forklifts' = Board(states, vehicle, c)
      BY <2>2 DEF HandlePresence, vehicle, states
    <3> QED
      BY <3>1, <1>4 DEF Board
  <2> QED
    BY <2>1, <2>2
<1>8. k = vehicle => forklifts'[k] = [states[k] EXCEPT !.owner = c, !.expires = 0]
  <2> SUFFICES ASSUME k = vehicle
               PROVE  forklifts'[k] = [states[k] EXCEPT !.owner = c, !.expires = 0]
    OBVIOUS
  <2>1. vehicle # NoVehicle
    BY <1>1
  <2>2. forklifts' = Board(states, vehicle, c)
    BY <2>1 DEF HandlePresence, vehicle, states
  <2> QED
    BY <2>2, <1>4 DEF Board
<1>9. k = vehicle =>
        /\ forklifts[k].here /\ forklifts'[k].here
        /\ forklifts[k].world = w /\ forklifts'[k].world = w
        /\ forklifts'[k].owner = c
        /\ forklifts'[k].expires = 0
  <2>1. states[k] \in ForkliftState
    BY <1>4
  <2> QED
    BY <2>1, <1>1, <1>2, <1>6, <1>8 DEF ForkliftState
<1>10. CASE k = vehicle
  BY <1>9, <1>10 DEF vehicle
<1>11. CASE k # vehicle
  BY <1>5, <1>7, <1>11 DEF vehicle
<1> QED
  BY <1>10, <1>11

-----------------------------------------------------------------------------
(* Every handler preserves the inductive invariant. *)

LEMMA HandlePresenceInv ==
  ASSUME IInv, NEW c \in Clients, NEW w \in Worlds,
         NEW v \in Forklifts \cup {NoVehicle}, HandlePresence(c, w, v)
  PROVE  IInv'
<1> DEFINE vehicle == Granted(c, w, v)
           left == presences[c].vehicle
<1>1. TypeOK'
  BY HandlePresenceType DEF IInv
<1>2. vehicle \in Forklifts \cup {NoVehicle}
  BY GrantedType
<1>3. vehicle # NoVehicle =>
        forklifts[vehicle].here /\ forklifts[vehicle].world = w
        /\ owners[vehicle] \in {NoClient, c}
  BY DEF Granted
<1>4. /\ c \in live /\ live' = live
      /\ presences' = [presences EXCEPT ![c] = [world |-> w, vehicle |-> vehicle]]
      /\ respawns' = respawns /\ drawn' = drawn
      /\ timers' = IF Leaves(c, vehicle)
                   THEN ArmExpiry(StoredUnder(left), LeaveExpiry(c)) ELSE timers
  BY DEF HandlePresence
<1>5. \A f \in Forklifts :
        owners'[f] = IF f = vehicle THEN c
                     ELSE IF owners[f] = c THEN NoClient ELSE owners[f]
  BY HandlePresenceOwners
<1>6. \A k \in Keys :
        \/ /\ k = vehicle
           /\ forklifts[k].here /\ forklifts'[k].here
           /\ forklifts[k].world = w /\ forklifts'[k].world = w
           /\ forklifts'[k].owner = c
           /\ forklifts'[k].expires = 0
        \/ /\ k # vehicle
           /\ Leaves(c, vehicle)
           /\ k = StoredUnder(left)
           /\ k \in Forklifts => k = left /\ forklifts[k].here
           /\ forklifts'[k].here
           /\ forklifts'[k].world = forklifts[left].world
           /\ forklifts'[k].owner = NoClient
           /\ forklifts'[k].expires = LeaveExpiry(c)
        \/ /\ k # vehicle
           /\ Leaves(c, vehicle) => k # StoredUnder(left)
           /\ forklifts'[k] = forklifts[k]
  BY HandlePresenceForklifts
<1>7. /\ Forklifts \subseteq Keys /\ BaseForklifts \subseteq Forklifts
      /\ DynamicForklifts \subseteq Forklifts
      /\ NoVehicle \notin Keys /\ NoClient \notin Clients
  BY ConstantsAssumption DEF Keys, Forklifts
<1>8. \A d \in Clients \ {c} : presences'[d] = presences[d]
  BY <1>4 DEF IInv, TypeOK
<1>9. presences'[c].world = w /\ presences'[c].vehicle = vehicle
  BY <1>4 DEF IInv, TypeOK
<1>10. \A f \in Forklifts : owners[f] \in Clients \cup {NoClient}
  BY DEF IInv, TypeOK
<1> HIDE DEF vehicle, left
<1>11. OwnerDrives'
  <2> SUFFICES ASSUME NEW f \in Forklifts, owners'[f] # NoClient
               PROVE  /\ owners'[f] \in live'
                      /\ presences'[owners'[f]].vehicle = f
                      /\ forklifts'[f].here =>
                           forklifts'[f].world = presences'[owners'[f]].world
    BY DEF OwnerDrives
  <2>1. CASE f = vehicle
    BY <2>1, <1>4, <1>5, <1>6, <1>7, <1>9
  <2>2. CASE f # vehicle
    <3>1. owners'[f] = owners[f] /\ owners[f] \in Clients \ {c}
      BY <2>2, <1>5, <1>10
    <3>2. forklifts'[f].here => forklifts[f].here
                                /\ forklifts'[f].world = forklifts[f].world
      BY <2>2, <1>6, <1>7
    <3> QED
      BY <3>1, <3>2, <1>4, <1>8 DEF IInv, OwnerDrives
  <2> QED
    BY <2>1, <2>2
<1>12. ShownOwnerIsReal'
  <2> SUFFICES ASSUME NEW k \in Keys, forklifts'[k].owner # NoClient
               PROVE  k \in Forklifts /\ owners'[k] = forklifts'[k].owner
    BY DEF ShownOwnerIsReal
  <2>1. CASE k = vehicle
    BY <2>1, <1>2, <1>5, <1>6, <1>7
  <2>2. CASE k # vehicle
    <3>1. forklifts'[k] = forklifts[k]
      BY <2>2, <1>6
    <3>2. k \in Forklifts /\ owners[k] = forklifts[k].owner
      BY <3>1 DEF IInv, ShownOwnerIsReal
    <3>3. owners[k] # c
      <4> SUFFICES ASSUME owners[k] = c PROVE FALSE
        OBVIOUS
      <4>1. left = k
        BY <3>2, <1>7 DEF IInv, OwnerDrives, left
      <4>2. Leaves(c, vehicle)
        BY <4>1, <2>2, <1>7 DEF Leaves, left
      <4>3. k # StoredUnder(left)
        BY <4>2, <2>2, <1>6, <3>1, <3>2, <1>7
      <4>4. ~forklifts[k].here
        BY <4>1, <4>3 DEF StoredUnder
      <4> QED
        BY <4>4, <3>1 DEF IInv, MissingIsZero, ZeroForklift
    <3> QED
      BY <3>1, <3>2, <3>3, <2>2, <1>5
  <2> QED
    BY <2>1, <2>2
<1>13. DrivenHasNoExpiry'
  BY <1>6 DEF IInv, DrivenHasNoExpiry
<1>14. ExpiryIsArmed'
  <2> SUFFICES ASSUME NEW k \in Keys, forklifts'[k].expires > 0
               PROVE  <<k, forklifts'[k].expires>> \in timers'
    BY DEF ExpiryIsArmed
  <2>1. timers \subseteq timers'
    BY <1>4 DEF ArmExpiry
  <2>2. CASE Leaves(c, vehicle) /\ k = StoredUnder(left) /\ k # vehicle
    <3>1. forklifts'[k].expires = LeaveExpiry(c)
      BY <2>2, <1>6
    <3> QED
      BY <3>1, <2>2, <1>4 DEF ArmExpiry
  <2>3. CASE ~(Leaves(c, vehicle) /\ k = StoredUnder(left) /\ k # vehicle)
    <3>1. k # vehicle
      BY <1>6
    <3>2. forklifts'[k] = forklifts[k]
      BY <3>1, <2>3, <1>6
    <3> QED
      BY <3>2, <2>1 DEF IInv, ExpiryIsArmed
  <2> QED
    BY <2>2, <2>3
<1>15. MissingBaseIsDue'
  BY <1>4, <1>6, <1>7 DEF IInv, MissingBaseIsDue
<1>16. MissingIsZero'
  BY <1>6 DEF IInv, MissingIsZero, ZeroForklift
<1>17. HomeWorld'
  <2> SUFFICES ASSUME NEW f \in BaseForklifts
               PROVE  /\ forklifts'[f].here => forklifts'[f].world = Home[f]
                      /\ owners'[f] # NoClient => presences'[owners'[f]].world = Home[f]
    BY DEF HomeWorld
  <2>1. forklifts'[f].here => forklifts'[f].world = Home[f]
    BY <1>6, <1>7 DEF IInv, HomeWorld
  <2>2. CASE f = vehicle
    <3>1. owners'[f] = c /\ w = Home[f]
      BY <2>2, <1>3, <1>5, <1>7 DEF IInv, HomeWorld
    <3> QED
      BY <2>1, <3>1, <1>9
  <2>3. CASE f # vehicle
    <3>1. owners'[f] # NoClient => owners'[f] = owners[f] /\ owners[f] \in Clients \ {c}
      BY <2>3, <1>5, <1>7, <1>10
    <3> QED
      BY <2>1, <3>1, <1>8 DEF IInv, HomeWorld
  <2> QED
    BY <2>2, <2>3
<1>18. DrawnFirst'
  <2> SUFFICES ASSUME NEW f \in DynamicForklifts \ drawn
               PROVE  ~forklifts'[f].here /\ owners'[f] = NoClient
    BY <1>4 DEF DrawnFirst
  <2>1. ~forklifts[f].here /\ owners[f] = NoClient
    BY DEF IInv, DrawnFirst
  <2>2. f # vehicle
    BY <2>1, <1>3, <1>7
  <2> QED
    BY <2>1, <2>2, <1>5, <1>6, <1>7
<1> QED
  BY <1>1, <1>11, <1>12, <1>13, <1>14, <1>15, <1>16, <1>17, <1>18 DEF IInv

\* The sets of ids, and what they do not contain.
LEMMA Domains ==
  /\ Forklifts \subseteq Keys /\ BaseForklifts \subseteq Forklifts
  /\ DynamicForklifts \subseteq Forklifts
  /\ BaseForklifts \cap DynamicForklifts = {}
  /\ Forklifts \subseteq BaseForklifts \cup DynamicForklifts
  /\ NoVehicle \notin Keys /\ NoClient \notin Clients /\ NoWorld \notin Worlds
  /\ EmptyID \in Keys \ Forklifts
  BY ConstantsAssumption DEF Keys, Forklifts

\* The fields of an authored forklift and of the zero value.
LEMMA InitialFields ==
  /\ ~ZeroForklift.here /\ ZeroForklift.owner = NoClient /\ ZeroForklift.expires = 0
  /\ \A f \in BaseForklifts :
       /\ InitialForklift(f).here
       /\ InitialForklift(f).world = Home[f]
       /\ InitialForklift(f).owner = NoClient
       /\ InitialForklift(f).expires = 0
  BY DEF ZeroForklift, InitialForklift

LEMMA HandleForkliftUpdateInv ==
  ASSUME IInv, NEW c \in Clients, NEW f \in Forklifts, NEW release \in BOOLEAN,
         HandleForkliftUpdate(c, f, release)
  PROVE  IInv'
<1> DEFINE expiry == IF release THEN ReleaseExpiry(forklifts[f].world) ELSE 0
           owner == UpdatedOwner(c, f, release)
<1>1. TypeOK /\ TypeOK'
  BY HandleForkliftUpdateType DEF IInv
<1>2. /\ forklifts[f].here /\ forklifts[f].world = presences[c].world
      /\ live' = live /\ presences' = presences
      /\ respawns' = respawns /\ drawn' = drawn
      /\ timers' = ArmExpiry(f, expiry)
  BY DEF HandleForkliftUpdate
<1>3. \A g \in Forklifts :
        owners'[g] = IF release /\ g = f THEN NoClient ELSE owners[g]
  BY <1>1 DEF HandleForkliftUpdate, TypeOK
<1>4. /\ \A k \in Keys \ {f} : forklifts'[k] = forklifts[k]
      /\ forklifts'[f].here /\ forklifts'[f].world = forklifts[f].world
      /\ forklifts'[f].owner = owner /\ forklifts'[f].expires = expiry
  <2>1. f \in Keys /\ forklifts[f] \in ForkliftState
    BY <1>1, Domains, ForkliftFields
  <2>2. forklifts' = [forklifts EXCEPT ![f] =
                        [forklifts[f] EXCEPT !.owner = owner, !.expires = expiry]]
    BY <2>1, <1>1 DEF HandleForkliftUpdate, TypeOK
  <2> HIDE DEF owner, expiry
  <2> QED
    BY <2>1, <2>2, <1>1, <1>2 DEF TypeOK, ForkliftState
<1>5. owner = IF ~release /\ owners[f] = c THEN c ELSE NoClient
  BY DEF UpdatedOwner
<1>6. release => owners[f] = c
  BY DEF HandleForkliftUpdate, UpdateAllowed
<1>7. ~release => expiry = 0
  OBVIOUS
<1> HIDE DEF owner, expiry
<1>8. OwnerDrives'
  BY <1>2, <1>3, <1>4, Domains DEF IInv, OwnerDrives
<1>9. ShownOwnerIsReal'
  <2> SUFFICES ASSUME NEW k \in Keys, forklifts'[k].owner # NoClient
               PROVE  k \in Forklifts /\ owners'[k] = forklifts'[k].owner
    BY DEF ShownOwnerIsReal
  <2>1. CASE k = f
    BY <2>1, <1>3, <1>4, <1>5
  <2>2. CASE k # f
    BY <2>2, <1>3, <1>4 DEF IInv, ShownOwnerIsReal
  <2> QED
    BY <2>1, <2>2
<1>10. DrivenHasNoExpiry'
  BY <1>4, <1>5, <1>7 DEF IInv, DrivenHasNoExpiry
<1>11. ExpiryIsArmed'
  BY <1>2, <1>4 DEF IInv, ExpiryIsArmed, ArmExpiry
<1>12. MissingBaseIsDue'
  BY <1>2, <1>4, Domains DEF IInv, MissingBaseIsDue
<1>13. MissingIsZero'
  BY <1>4 DEF IInv, MissingIsZero, ZeroForklift
<1>14. HomeWorld'
  BY <1>2, <1>3, <1>4, Domains DEF IInv, HomeWorld
<1>15. DrawnFirst'
  BY <1>2, <1>3, <1>4, Domains DEF IInv, DrawnFirst
<1> QED
  BY <1>1, <1>8, <1>9, <1>10, <1>11, <1>12, <1>13, <1>14, <1>15 DEF IInv

LEMMA HandleForkliftSpawnInv ==
  ASSUME IInv, NEW c \in Clients, NEW f \in DynamicForklifts,
         HandleForkliftSpawn(c, f)
  PROVE  IInv'
<1>1. TypeOK /\ TypeOK'
  BY HandleForkliftSpawnType DEF IInv
<1>2. /\ f \in DynamicForklifts \ drawn /\ drawn' = drawn \cup {f}
      /\ live' = live /\ presences' = presences /\ owners' = owners
      /\ respawns' = respawns
      /\ timers' = ArmExpiry(f, now + Lifetime)
  BY DEF HandleForkliftSpawn
<1>3. /\ \A k \in Keys \ {f} : forklifts'[k] = forklifts[k]
      /\ forklifts'[f].here /\ forklifts'[f].owner = NoClient
      /\ forklifts'[f].expires = now + Lifetime
  BY <1>1, Domains DEF HandleForkliftSpawn, TypeOK
<1>4. owners[f] = NoClient
  BY <1>2 DEF IInv, DrawnFirst
<1>5. OwnerDrives'
  BY <1>2, <1>3, <1>4, Domains DEF IInv, OwnerDrives
<1>6. ShownOwnerIsReal'
  BY <1>2, <1>3 DEF IInv, ShownOwnerIsReal
<1>7. DrivenHasNoExpiry'
  BY <1>3 DEF IInv, DrivenHasNoExpiry
<1>8. ExpiryIsArmed'
  BY <1>2, <1>3 DEF IInv, ExpiryIsArmed, ArmExpiry
<1>9. MissingBaseIsDue'
  BY <1>2, <1>3, Domains DEF IInv, MissingBaseIsDue
<1>10. MissingIsZero'
  BY <1>3 DEF IInv, MissingIsZero, ZeroForklift
<1>11. HomeWorld'
  BY <1>2, <1>3, Domains DEF IInv, HomeWorld
<1>12. DrawnFirst'
  BY <1>2, <1>3, Domains DEF IInv, DrawnFirst
<1> QED
  BY <1>1, <1>5, <1>6, <1>7, <1>8, <1>9, <1>10, <1>11, <1>12 DEF IInv

\* What giving up the claim on the vehicle one is in does to all claims.
LEMMA GiveUpOwners ==
  ASSUME IInv, NEW c \in Clients, NEW f \in Forklifts,
         owners' = ReleaseForklift(c, presences[c].vehicle)
  PROVE  owners'[f] = IF owners[f] = c THEN NoClient ELSE owners[f]
<1>1. owners[f] = c => presences[c].vehicle = f
  BY Domains DEF IInv, OwnerDrives
<1>2. presences[c].vehicle \in Forklifts \cup {NoVehicle}
  BY PresenceFields DEF IInv
<1> QED
  BY <1>1, <1>2, ReleaseForkliftEffect DEF IInv

LEMMA LeaveWorldInv ==
  ASSUME IInv, NEW c \in Clients, LeaveWorld(c)
  PROVE  IInv'
<1> DEFINE vehicle == presences[c].vehicle
<1>1. TypeOK /\ TypeOK'
  BY LeaveWorldType DEF IInv
<1>2. vehicle \in Forklifts \cup {NoVehicle}
  BY <1>1, PresenceFields
<1>3. /\ live' = live /\ respawns' = respawns /\ drawn' = drawn /\ timers' = timers
      /\ presences' = [presences EXCEPT ![c] = NoPresence]
  BY DEF LeaveWorld
<1>4. \A f \in Forklifts :
        owners'[f] = IF owners[f] = c THEN NoClient ELSE owners[f]
  BY GiveUpOwners DEF LeaveWorld
<1>5. \A d \in Clients \ {c} : presences'[d] = presences[d]
  BY <1>1, <1>3 DEF TypeOK
<1>6. \A f \in Forklifts : owners[f] = c => f = vehicle
  BY Domains DEF IInv, OwnerDrives
<1>7. \A k \in Keys :
        \/ k # vehicle /\ forklifts'[k] = forklifts[k]
        \/ /\ k = vehicle /\ k \in BaseForklifts
           /\ forklifts'[k].here /\ forklifts'[k].world = Home[k]
           /\ forklifts'[k].owner = NoClient /\ forklifts'[k].expires = 0
        \/ /\ k = vehicle /\ k \in DynamicForklifts
           /\ forklifts'[k] = ZeroForklift /\ ~forklifts'[k].here
           /\ forklifts'[k].owner = NoClient /\ forklifts'[k].expires = 0
  <2> SUFFICES ASSUME NEW k \in Keys
               PROVE  \/ k # vehicle /\ forklifts'[k] = forklifts[k]
                      \/ k = vehicle /\ k \in BaseForklifts
                         /\ forklifts'[k] = InitialForklift(k)
                      \/ k = vehicle /\ k \in DynamicForklifts
                         /\ forklifts'[k] = ZeroForklift
    BY InitialFields
  <2> QED
    BY <1>1, <1>2, Domains DEF LeaveWorld, TypeOK
<1>8. \A f \in Forklifts : owners[f] \in Clients \cup {NoClient}
  BY <1>1 DEF TypeOK
<1> HIDE DEF vehicle
<1>9. OwnerDrives'
  <2> SUFFICES ASSUME NEW f \in Forklifts, owners'[f] # NoClient
               PROVE  /\ owners'[f] \in live'
                      /\ presences'[owners'[f]].vehicle = f
                      /\ forklifts'[f].here =>
                           forklifts'[f].world = presences'[owners'[f]].world
    BY DEF OwnerDrives
  <2>1. owners'[f] = owners[f] /\ owners[f] \in Clients \ {c}
    BY <1>4, <1>8
  <2>2. forklifts'[f].here => forklifts'[f].world = presences[owners[f]].world
    <3>1. CASE f \in BaseForklifts
      BY <3>1, <2>1, <1>7, Domains
      DEF IInv, OwnerDrives, HomeWorld
    <3>2. CASE f \notin BaseForklifts
      BY <3>2, <2>1, <1>7, Domains DEF IInv, OwnerDrives
    <3> QED
      BY <3>1, <3>2
  <2> QED
    BY <2>1, <2>2, <1>3, <1>5 DEF IInv, OwnerDrives
<1>10. ShownOwnerIsReal'
  BY <1>4, <1>6, <1>7 DEF IInv, ShownOwnerIsReal
<1>11. DrivenHasNoExpiry'
  BY <1>7 DEF IInv, DrivenHasNoExpiry
<1>12. ExpiryIsArmed'
  BY <1>3, <1>7 DEF IInv, ExpiryIsArmed
<1>13. MissingBaseIsDue'
  BY <1>3, <1>7, Domains DEF IInv, MissingBaseIsDue
<1>14. MissingIsZero'
  BY <1>7 DEF IInv, MissingIsZero
<1>15. HomeWorld'
  BY <1>4, <1>5, <1>7, <1>8, Domains DEF IInv, HomeWorld
<1>16. DrawnFirst'
  BY <1>3, <1>4, <1>7, Domains DEF IInv, DrawnFirst
<1> QED
  BY <1>1, <1>9, <1>10, <1>11, <1>12, <1>13, <1>14, <1>15, <1>16 DEF IInv

LEMMA UnregisterInv ==
  ASSUME IInv, NEW c \in Clients, Unregister(c)
  PROVE  IInv'
<1> DEFINE vehicle == presences[c].vehicle
           expiry == now + Lifetime
<1>1. TypeOK /\ TypeOK'
  BY UnregisterType DEF IInv
<1>2. vehicle \in Forklifts \cup {NoVehicle} /\ expiry \in Nat
  BY <1>1, PresenceFields, ConstantsAssumption DEF TypeOK
<1>3. /\ live' = live \ {c} /\ respawns' = respawns /\ drawn' = drawn
      /\ timers \subseteq timers'
      /\ vehicle # NoVehicle => timers' = ArmExpiry(StoredUnder(vehicle), expiry)
      /\ presences' = [presences EXCEPT ![c] = NoPresence]
  BY DEF Unregister, ArmExpiry
<1>4. \A f \in Forklifts :
        owners'[f] = IF owners[f] = c THEN NoClient ELSE owners[f]
  BY GiveUpOwners DEF Unregister
<1>5. \A d \in Clients \ {c} : presences'[d] = presences[d]
  BY <1>1, <1>3 DEF TypeOK
<1>6. \A f \in Forklifts : owners[f] = c => f = vehicle
  BY Domains DEF IInv, OwnerDrives
<1>7. \A k \in Keys :
        \/ /\ vehicle # NoVehicle => k # StoredUnder(vehicle)
           /\ forklifts'[k] = forklifts[k]
        \/ /\ vehicle # NoVehicle /\ k = StoredUnder(vehicle)
           /\ k \in Forklifts => k = vehicle /\ forklifts[k].here
           /\ forklifts'[k].here
           /\ forklifts'[k].world = forklifts[vehicle].world
           /\ forklifts'[k].owner = NoClient
           /\ forklifts'[k].expires = expiry
  <2>1. CASE vehicle = NoVehicle
    BY <2>1 DEF Unregister
  <2>2. CASE vehicle # NoVehicle
    <3>1. forklifts' = Abandon(vehicle, expiry) /\ vehicle \in Forklifts
      BY <2>2, <1>2 DEF Unregister
    <3> HIDE DEF vehicle, expiry
    <3>2. ASSUME NEW k \in Keys, k # StoredUnder(vehicle)
          PROVE  forklifts'[k] = forklifts[k]
      BY <3>1, <3>2, <1>1, <1>2, AbandonEffect
    <3>3. ASSUME NEW k \in Keys, k = StoredUnder(vehicle)
          PROVE  /\ k \in Forklifts => k = vehicle /\ forklifts[k].here
                 /\ forklifts'[k].here
                 /\ forklifts'[k].world = forklifts[vehicle].world
                 /\ forklifts'[k].owner = NoClient
                 /\ forklifts'[k].expires = expiry
      BY <3>1, <3>3, <1>1, <1>2, AbandonEffect
    <3> QED
      BY <2>2, <3>2, <3>3
  <2> QED
    BY <2>1, <2>2
<1>8. \A f \in Forklifts : owners[f] \in Clients \cup {NoClient}
  BY <1>1 DEF TypeOK
<1> HIDE DEF vehicle, expiry
<1>9. OwnerDrives'
  <2> SUFFICES ASSUME NEW f \in Forklifts, owners'[f] # NoClient
               PROVE  /\ owners'[f] \in live'
                      /\ presences'[owners'[f]].vehicle = f
                      /\ forklifts'[f].here =>
                           forklifts'[f].world = presences'[owners'[f]].world
    BY DEF OwnerDrives
  <2>1. owners'[f] = owners[f] /\ owners[f] \in Clients \ {c}
    BY <1>4, <1>8
  <2>2. forklifts'[f].here => forklifts[f].here
                              /\ forklifts'[f].world = forklifts[f].world
    BY <1>7, Domains
  <2> QED
    BY <2>1, <2>2, <1>3, <1>5 DEF IInv, OwnerDrives
<1>10. ShownOwnerIsReal'
  <2> SUFFICES ASSUME NEW k \in Keys, forklifts'[k].owner # NoClient
               PROVE  k \in Forklifts /\ owners'[k] = forklifts'[k].owner
    BY DEF ShownOwnerIsReal
  <2>1. forklifts'[k] = forklifts[k] /\ (vehicle # NoVehicle => k # StoredUnder(vehicle))
    BY <1>7
  <2>2. k \in Forklifts /\ owners[k] = forklifts[k].owner
    BY <2>1 DEF IInv, ShownOwnerIsReal
  <2>3. owners[k] # c
    <3> SUFFICES ASSUME owners[k] = c PROVE FALSE
      OBVIOUS
    <3>1. k = vehicle /\ vehicle # NoVehicle
      BY <2>2, <1>6, Domains
    <3>2. ~forklifts[k].here
      BY <3>1, <2>1 DEF StoredUnder
    <3> QED
      BY <3>2, <2>1 DEF IInv, MissingIsZero, ZeroForklift
  <2> QED
    BY <2>1, <2>2, <2>3, <1>4
<1>11. DrivenHasNoExpiry'
  BY <1>7 DEF IInv, DrivenHasNoExpiry
<1>12. ExpiryIsArmed'
  BY <1>3, <1>7 DEF IInv, ExpiryIsArmed, ArmExpiry
<1>13. MissingBaseIsDue'
  BY <1>3, <1>7, Domains DEF IInv, MissingBaseIsDue
<1>14. MissingIsZero'
  BY <1>7 DEF IInv, MissingIsZero
<1>15. HomeWorld'
  BY <1>4, <1>5, <1>7, <1>8, Domains DEF IInv, HomeWorld
<1>16. DrawnFirst'
  BY <1>3, <1>4, <1>7, Domains DEF IInv, DrawnFirst
<1> QED
  BY <1>1, <1>9, <1>10, <1>11, <1>12, <1>13, <1>14, <1>15, <1>16 DEF IInv

\* A collected forklift was driven by nobody whose claim is on show, and its
\* timer was the one armed for its expiry.
LEMMA ForkliftExpiryInv ==
  ASSUME IInv, NEW f \in Keys, NEW e \in Nat, ForkliftExpiry(f, e)
  PROVE  IInv'
<1>1. TypeOK /\ TypeOK'
  BY TimersType DEF IInv
<1>2. /\ live' = live /\ presences' = presences /\ owners' = owners /\ drawn' = drawn
      /\ timers' = timers \ {<<f, e>>}
  BY DEF ForkliftExpiry
<1>3. \/ ~ExpiryApplies(f, e) /\ forklifts' = forklifts /\ respawns' = respawns
      \/ /\ ExpiryApplies(f, e) /\ respawns' = ArmRespawn(f)
         /\ \A k \in Keys \ {f} : forklifts'[k] = forklifts[k]
         /\ forklifts'[f] = ZeroForklift
         /\ ~forklifts'[f].here /\ forklifts'[f].owner = NoClient
         /\ forklifts'[f].expires = 0
  BY <1>1, InitialFields DEF ForkliftExpiry, TypeOK
<1>4. OwnerDrives'
  BY <1>2, <1>3, Domains DEF IInv, OwnerDrives
<1>5. ShownOwnerIsReal'
  BY <1>2, <1>3 DEF IInv, ShownOwnerIsReal
<1>6. DrivenHasNoExpiry'
  BY <1>3 DEF IInv, DrivenHasNoExpiry
<1>7. ExpiryIsArmed'
  <2> SUFFICES ASSUME NEW k \in Keys, forklifts'[k].expires > 0
               PROVE  <<k, forklifts'[k].expires>> \in timers'
    BY DEF ExpiryIsArmed
  <2>1. forklifts'[k] = forklifts[k]
    BY <1>3
  <2>2. <<k, forklifts[k].expires>> \in timers
    BY <2>1 DEF IInv, ExpiryIsArmed
  <2>3. ~(k = f /\ forklifts[k].expires = e)
    <3> SUFFICES ASSUME k = f, forklifts[k].expires = e PROVE FALSE
      OBVIOUS
    <3>1. ~ExpiryApplies(f, e)
      BY <1>3, <2>1
    <3>2. forklifts[k].owner = NoClient
      BY <2>1 DEF IInv, DrivenHasNoExpiry
    <3>3. ~forklifts[k].here
      BY <3>1, <3>2 DEF ExpiryApplies
    <3> QED
      BY <3>3, <2>1, InitialFields DEF IInv, MissingIsZero
  <2> QED
    BY <2>1, <2>2, <2>3, <1>2
<1>8. MissingBaseIsDue'
  BY <1>3, Domains DEF IInv, MissingBaseIsDue, ArmRespawn
<1>9. MissingIsZero'
  BY <1>3 DEF IInv, MissingIsZero
<1>10. HomeWorld'
  BY <1>2, <1>3, Domains DEF IInv, HomeWorld
<1>11. DrawnFirst'
  BY <1>2, <1>3, Domains DEF IInv, DrawnFirst
<1> QED
  BY <1>1, <1>4, <1>5, <1>6, <1>7, <1>8, <1>9, <1>10, <1>11 DEF IInv

LEMMA ForkliftRespawnInv ==
  ASSUME IInv, NEW f \in BaseForklifts, ForkliftRespawn(f)
  PROVE  IInv'
<1>1. TypeOK /\ TypeOK'
  BY TimersType DEF IInv
<1>2. /\ live' = live /\ presences' = presences /\ owners' = owners /\ drawn' = drawn
      /\ timers' = timers /\ respawns' = respawns \ {f}
  BY DEF ForkliftRespawn
<1>3. /\ \A k \in Keys \ {f} : forklifts'[k] = forklifts[k]
      /\ \/ forklifts[f].here /\ forklifts'[f] = forklifts[f]
         \/ /\ ~forklifts[f].here
            /\ forklifts'[f].here /\ forklifts'[f].world = Home[f]
            /\ forklifts'[f].owner = NoClient /\ forklifts'[f].expires = 0
  BY <1>1, Domains, InitialFields DEF ForkliftRespawn, TypeOK
<1>4. OwnerDrives'
  BY <1>2, <1>3, Domains DEF IInv, OwnerDrives, HomeWorld
<1>5. ShownOwnerIsReal'
  BY <1>2, <1>3 DEF IInv, ShownOwnerIsReal
<1>6. DrivenHasNoExpiry'
  BY <1>3 DEF IInv, DrivenHasNoExpiry
<1>7. ExpiryIsArmed'
  BY <1>2, <1>3 DEF IInv, ExpiryIsArmed
<1>8. MissingBaseIsDue'
  BY <1>2, <1>3, Domains DEF IInv, MissingBaseIsDue
<1>9. MissingIsZero'
  BY <1>3 DEF IInv, MissingIsZero
<1>10. HomeWorld'
  BY <1>2, <1>3, Domains DEF IInv, HomeWorld
<1>11. DrawnFirst'
  BY <1>2, <1>3, Domains DEF IInv, DrawnFirst
<1> QED
  BY <1>1, <1>4, <1>5, <1>6, <1>7, <1>8, <1>9, <1>10, <1>11 DEF IInv

LEMMA InitInv == Init => IInv
<1> SUFFICES ASSUME Init PROVE IInv
  OBVIOUS
<1>1. TypeOK
  BY InitType
<1>2. /\ \A f \in Forklifts : owners[f] = NoClient
      /\ \A k \in Keys : forklifts[k].owner = NoClient /\ forklifts[k].expires = 0
      /\ \A k \in BaseForklifts : forklifts[k].here /\ forklifts[k].world = Home[k]
      /\ \A k \in Keys \ BaseForklifts : forklifts[k] = ZeroForklift /\ ~forklifts[k].here
  BY Domains, InitialFields DEF Init
<1> QED
  BY <1>1, <1>2, Domains
  DEF IInv, OwnerDrives, ShownOwnerIsReal, DrivenHasNoExpiry, ExpiryIsArmed,
      MissingBaseIsDue, MissingIsZero, HomeWorld, DrawnFirst

LEMMA NextInv == IInv /\ [Next]_vars => IInv'
<1> SUFFICES ASSUME IInv, [Next]_vars PROVE IInv'
  OBVIOUS
<1>1. ASSUME NEW c \in Clients, Register(c) PROVE IInv'
  <2>1. TypeOK'
    BY <1>1, NextType DEF IInv, Next
  <2> QED
    BY <1>1, <2>1
    DEF Register, IInv, OwnerDrives, ShownOwnerIsReal, DrivenHasNoExpiry,
        ExpiryIsArmed, MissingBaseIsDue, MissingIsZero, HomeWorld, DrawnFirst
<1>2. ASSUME NEW t \in timers, ForkliftExpiry(t[1], t[2]) PROVE IInv'
  <2>1. t[1] \in Keys /\ t[2] \in Nat
    BY DEF IInv, TypeOK
  <2> QED
    BY <1>2, <2>1, ForkliftExpiryInv
<1>3. ASSUME NEW f \in respawns, ForkliftRespawn(f) PROVE IInv'
  <2>1. f \in BaseForklifts
    BY DEF IInv, TypeOK
  <2> QED
    BY <1>3, <2>1, ForkliftRespawnInv
<1>4. CASE Tick \/ UNCHANGED vars
  <2>1. TypeOK'
    BY <1>4, NextType DEF IInv, Next
  <2> QED
    BY <1>4, <2>1
    DEF Tick, vars, IInv, OwnerDrives, ShownOwnerIsReal, DrivenHasNoExpiry,
        ExpiryIsArmed, MissingBaseIsDue, MissingIsZero, HomeWorld, DrawnFirst
<1> QED
  BY <1>1, <1>2, <1>3, <1>4, HandlePresenceInv, HandleForkliftUpdateInv,
     HandleForkliftSpawnInv, LeaveWorldInv, UnregisterInv DEF Next

-----------------------------------------------------------------------------
(* The theorems. *)

\* Claims, shown owners, abandonment clocks, timers and respawns agree in
\* every reachable state.
THEOREM Invariance == Spec => []IInv
<1>1. IInv /\ [Next]_vars => IInv'
  BY NextInv
<1> QED
  BY InitInv, <1>1, PTL DEF Spec

\* A claim in forkliftOwners is held by a connected client whose last report
\* is from inside that forklift, in its world.
THEOREM ClaimsBelongToDrivers == Spec => []OwnerDrives
<1>1. IInv => OwnerDrives
  BY DEF IInv
<1> QED
  BY Invariance, <1>1, PTL

\* The owner the rooms are shown holds the claim.
THEOREM ShownOwnersAreReal == Spec => []ShownOwnerIsReal
<1>1. IInv => ShownOwnerIsReal
  BY DEF IInv
<1> QED
  BY Invariance, <1>1, PTL

\* An abandonment clock in a state has its timer, so scheduleForkliftExpiry is
\* never forgotten and never left with only a void timer.
THEOREM ExpiriesAreArmed == Spec => []ExpiryIsArmed
<1>1. IInv => ExpiryIsArmed
  BY DEF IInv
<1> QED
  BY Invariance, <1>1, PTL

\* A base forklift that was collected has its respawn timer running.
THEOREM MissingBasesAreDue == Spec => []MissingBaseIsDue
<1>1. IInv => MissingBaseIsDue
  BY DEF IInv
<1> QED
  BY Invariance, <1>1, PTL

\* A step keeps every forklift in its world and brings no removed one back.
LEMMA WorldStep ==
  ASSUME IInv, [Next]_vars, NEW f \in Forklifts
  PROVE  /\ forklifts[f].here /\ forklifts[f].here' =>
              forklifts[f].world' = forklifts[f].world
         /\ f \in drawn /\ ~forklifts[f].here => ~forklifts[f].here'
<1> DEFINE Stays ==
             /\ forklifts[f].here /\ forklifts'[f].here =>
                  forklifts'[f].world = forklifts[f].world
             /\ f \in drawn /\ ~forklifts[f].here => ~forklifts'[f].here
<1>1. TypeOK /\ f \in Keys /\ drawn \subseteq DynamicForklifts
  BY Domains DEF IInv, TypeOK
<1>2. ASSUME NEW c \in Clients, NEW w \in Worlds,
             NEW v \in Forklifts \cup {NoVehicle}, HandlePresence(c, w, v)
      PROVE  Stays
  BY <1>1, <1>2, HandlePresenceForklifts
<1>3. ASSUME NEW c \in Clients, NEW g \in Forklifts, NEW release \in BOOLEAN,
             HandleForkliftUpdate(c, g, release)
      PROVE  Stays
  <2>1. g \in Keys /\ forklifts[g] \in ForkliftState
    BY <1>1, Domains, ForkliftFields
  <2>2. forklifts[g].here
    BY <1>3 DEF HandleForkliftUpdate
  <2>3. f # g => forklifts'[f] = forklifts[f]
    BY <1>1, <1>3, <2>1 DEF HandleForkliftUpdate, TypeOK
  <2>4. forklifts'[g].world = forklifts[g].world
    BY <1>1, <1>3, <2>1 DEF HandleForkliftUpdate, TypeOK, ForkliftState
  <2> QED
    BY <2>2, <2>3, <2>4
<1>4. ASSUME NEW c \in Clients, NEW g \in DynamicForklifts, HandleForkliftSpawn(c, g)
      PROVE  Stays
  <2>1. g \notin drawn
    BY <1>4 DEF HandleForkliftSpawn
  <2>2. ~forklifts[g].here
    BY <2>1 DEF IInv, DrawnFirst
  <2>3. f # g => forklifts'[f] = forklifts[f]
    BY <1>1, <1>4 DEF HandleForkliftSpawn, TypeOK
  <2> QED
    BY <2>1, <2>2, <2>3
<1>5. ASSUME NEW c \in Clients, LeaveWorld(c)
      PROVE  Stays
  <2>1. \/ forklifts'[f] = forklifts[f]
        \/ f \in BaseForklifts /\ forklifts'[f] = InitialForklift(f)
        \/ forklifts'[f] = ZeroForklift
    BY <1>1, <1>5, Domains DEF LeaveWorld, TypeOK
  <2> QED
    BY <2>1, <1>1, Domains, InitialFields DEF IInv, HomeWorld
<1>6. ASSUME NEW c \in Clients, Unregister(c)
      PROVE  Stays
  <2>1. CASE presences[c].vehicle = NoVehicle
    BY <2>1, <1>6 DEF Unregister
  <2>2. CASE presences[c].vehicle # NoVehicle
    <3>1. presences[c].vehicle \in Forklifts /\ now + Lifetime \in Nat
      BY <2>2, <1>1, PresenceFields, ConstantsAssumption DEF TypeOK
    <3>2. forklifts' = Abandon(presences[c].vehicle, now + Lifetime)
      BY <2>2, <1>6 DEF Unregister
    <3>3. CASE f = StoredUnder(presences[c].vehicle)
      BY <3>1, <3>2, <3>3, <1>1, AbandonEffect
    <3>4. CASE f # StoredUnder(presences[c].vehicle)
      BY <3>1, <3>2, <3>4, <1>1, AbandonEffect
    <3> QED
      BY <3>3, <3>4
  <2> QED
    BY <2>1, <2>2
<1>7. ASSUME NEW t \in timers, ForkliftExpiry(t[1], t[2])
      PROVE  Stays
  <2>1. forklifts'[f] = forklifts[f] \/ forklifts'[f] = ZeroForklift
    BY <1>1, <1>7 DEF ForkliftExpiry, TypeOK
  <2> QED
    BY <2>1, InitialFields
<1>8. ASSUME NEW g \in respawns, ForkliftRespawn(g)
      PROVE  Stays
  <2>1. g \in BaseForklifts
    BY <1>1 DEF TypeOK
  <2>2. /\ f # g => forklifts'[f] = forklifts[f]
        /\ forklifts[g].here => forklifts'[g] = forklifts[g]
    BY <1>1, <1>8, <2>1, Domains DEF ForkliftRespawn, TypeOK
  <2> QED
    BY <2>1, <2>2, <1>1, Domains
<1>9. ASSUME forklifts' = forklifts
      PROVE  Stays
  BY <1>9
<1>10. Stays
  BY <1>2, <1>3, <1>4, <1>5, <1>6, <1>7, <1>8, <1>9
  DEF Next, Register, Tick, vars
<1> QED
  BY <1>10

\* Nothing moves a forklift to another world, and a removed dynamic forklift is
\* never brought back by a client still riding it.
THEOREM ForkliftsStay == Spec => WorldStays
<1>1. IInv /\ [Next]_vars =>
        [\A f \in Forklifts :
           /\ forklifts[f].here /\ forklifts[f].here' =>
                forklifts[f].world' = forklifts[f].world
           /\ f \in drawn /\ ~forklifts[f].here => ~forklifts[f].here']_vars
  BY WorldStep
<1> QED
  BY <1>1, Invariance, PTL DEF Spec, WorldStays

\* Giving up one's vehicle is a step of the abstract specification.
LEMMA GiveUpStep ==
  ASSUME IInv, IInv', NEW c \in Clients,
         \A f \in Forklifts : owners'[f] = IF owners[f] = c THEN NoClient ELSE owners[f]
  PROVE  Claims!GiveUp(c)
<1>1. owners' = [u \in Forklifts |-> IF owners[u] = c THEN NoClient ELSE owners[u]]
  BY DEF IInv, TypeOK
<1> QED
  BY <1>1 DEF Claims!GiveUp

LEMMA ClaimsStep ==
  ASSUME IInv, [Next]_vars
  PROVE  [Claims!Next]_owners
<1>1. IInv'
  BY NextInv
<1>2. ASSUME NEW c \in Clients, NEW w \in Worlds,
             NEW v \in Forklifts \cup {NoVehicle}, HandlePresence(c, w, v)
      PROVE  Claims!Next
  <2> DEFINE vehicle == Granted(c, w, v)
  <2>1. vehicle \in Forklifts \cup {NoVehicle} /\ NoVehicle \notin Forklifts
    BY GrantedType, Domains
  <2>2. \A f \in Forklifts :
          owners'[f] = IF f = vehicle THEN c
                       ELSE IF owners[f] = c THEN NoClient ELSE owners[f]
    BY <1>2, HandlePresenceOwners
  <2>3. CASE vehicle = NoVehicle
    BY <2>1, <2>2, <2>3, <1>1, GiveUpStep DEF Claims!Next
  <2>4. CASE vehicle # NoVehicle
    <3>1. owners[vehicle] \in {NoClient, c}
      BY <2>4 DEF Granted
    <3> HIDE DEF vehicle
    <3>2. owners' = [u \in Forklifts |->
                       IF u = vehicle THEN c
                       ELSE IF owners[u] = c THEN NoClient ELSE owners[u]]
      BY <2>2, <1>1 DEF IInv, TypeOK
    <3>3. Claims!Claim(c, vehicle)
      BY <3>1, <3>2 DEF Claims!Claim
    <3> QED
      BY <3>3, <2>1, <2>4 DEF Claims!Next
  <2> QED
    BY <2>3, <2>4
<1>3. ASSUME NEW c \in Clients, NEW f \in Forklifts, NEW release \in BOOLEAN,
             HandleForkliftUpdate(c, f, release)
      PROVE  Claims!Next \/ owners' = owners
  <2>1. CASE release
    <3>1. owners[f] = c /\ owners' = [owners EXCEPT ![f] = NoClient]
      BY <2>1, <1>3 DEF HandleForkliftUpdate, UpdateAllowed
    <3>2. \A g \in Forklifts : owners[g] = c => g = f
      BY <3>1, Domains DEF IInv, OwnerDrives
    <3>3. \A g \in Forklifts :
            owners'[g] = IF owners[g] = c THEN NoClient ELSE owners[g]
      BY <3>1, <3>2 DEF IInv, TypeOK
    <3>4. Claims!GiveUp(c)
      BY <3>3, <1>1, GiveUpStep
    <3> QED
      BY <3>4 DEF Claims!Next
  <2>2. CASE ~release
    BY <2>2, <1>3 DEF HandleForkliftUpdate
  <2> QED
    BY <2>1, <2>2
<1>4. ASSUME NEW c \in Clients, LeaveWorld(c) \/ Unregister(c)
      PROVE  Claims!Next
  <2>1. owners' = ReleaseForklift(c, presences[c].vehicle)
    BY <1>4 DEF LeaveWorld, Unregister
  <2>2. \A f \in Forklifts :
          owners'[f] = IF owners[f] = c THEN NoClient ELSE owners[f]
    BY <2>1, GiveUpOwners
  <2> QED
    BY <2>2, <1>1, GiveUpStep DEF Claims!Next
<1>5. owners' = owners \/ Claims!Next
  BY <1>2, <1>3, <1>4
  DEF Next, Register, HandleForkliftSpawn, ForkliftExpiry, ForkliftRespawn, Tick, vars
<1> QED
  BY <1>5

\* forkliftOwners implements exclusive driving: one driver per vehicle, one
\* vehicle per driver, and no vehicle taken from a driver.
THEOREM ForkliftsAreExclusive == Spec => DrivingIsExclusive
<1>1. Init => Claims!Init
  BY DEF Init, Claims!Init
<1>2. IInv /\ [Next]_vars => [Claims!Next]_owners
  BY ClaimsStep
<1> QED
  BY <1>1, <1>2, Invariance, PTL DEF Spec, DrivingIsExclusive, Claims!Spec

-----------------------------------------------------------------------------
(* Removals *)

\* scheduleForkliftExpiry does nothing for an expiry of zero.
TimersHaveExpiries == \A t \in timers : t[2] > 0

LEMMA TimersStep ==
  ASSUME TypeOK, TimersHaveExpiries, [Next]_vars
  PROVE  TimersHaveExpiries'
<1>1. \A f, e : e > 0 => <<f, e>>[2] > 0
  OBVIOUS
<1>2. ASSUME NEW f, NEW e, timers' = ArmExpiry(f, e)
      PROVE  TimersHaveExpiries'
  BY <1>1, <1>2 DEF ArmExpiry, TimersHaveExpiries
<1>3. ASSUME timers' \subseteq timers
      PROVE  TimersHaveExpiries'
  BY <1>3 DEF TimersHaveExpiries
<1>4. \/ timers' \subseteq timers
      \/ \E f, e : timers' = ArmExpiry(f, e)
  BY DEF Next, vars, Register, HandlePresence, HandleForkliftUpdate,
         HandleForkliftSpawn, LeaveWorld, Unregister, ForkliftExpiry,
         ForkliftRespawn, Tick
<1> QED
  BY <1>2, <1>3, <1>4

\* What one step may remove, and when.
LEMMA RemovalStep ==
  ASSUME IInv, TimersHaveExpiries, [Next]_vars, NEW f \in Forklifts,
         forklifts[f].here, ~forklifts'[f].here
  PROVE  \/ forklifts[f].expires > 0 /\ forklifts[f].expires <= now
         \/ \E c \in Clients : presences[c].vehicle = f /\ ~Present(c)'
<1>1. TypeOK /\ f \in Keys
  BY Domains DEF IInv, TypeOK
<1>2. ASSUME NEW c \in Clients, NEW w \in Worlds,
             NEW v \in Forklifts \cup {NoVehicle}, HandlePresence(c, w, v)
      PROVE  FALSE
  BY <1>1, <1>2, HandlePresenceForklifts
<1>3. ASSUME NEW c \in Clients, NEW g \in Forklifts, NEW release \in BOOLEAN,
             HandleForkliftUpdate(c, g, release)
      PROVE  FALSE
  <2>1. g \in Keys /\ forklifts[g] \in ForkliftState
    BY <1>1, Domains, ForkliftFields
  <2>2. f # g => forklifts'[f] = forklifts[f]
    BY <1>1, <1>3, <2>1 DEF HandleForkliftUpdate, TypeOK
  <2>3. forklifts'[g].here = forklifts[g].here
    BY <1>1, <1>3, <2>1 DEF HandleForkliftUpdate, TypeOK, ForkliftState
  <2> QED
    BY <2>2, <2>3
<1>4. ASSUME NEW c \in Clients, NEW g \in DynamicForklifts, HandleForkliftSpawn(c, g)
      PROVE  FALSE
  <2>1. g \in Keys
    BY Domains
  <2>2. f # g => forklifts'[f] = forklifts[f]
    BY <1>1, <1>4, <2>1 DEF HandleForkliftSpawn, TypeOK
  <2>3. forklifts'[g].here
    BY <1>1, <1>4, <2>1 DEF HandleForkliftSpawn, TypeOK
  <2> QED
    BY <2>2, <2>3
<1>5. ASSUME NEW c \in Clients, LeaveWorld(c)
      PROVE  \E d \in Clients : presences[d].vehicle = f /\ ~Present(d)'
  <2>1. f = presences[c].vehicle
    BY <1>1, <1>5 DEF LeaveWorld, TypeOK
  <2>2. presences'[c] = NoPresence
    BY <1>1, <1>5 DEF LeaveWorld, TypeOK
  <2> QED
    BY <2>1, <2>2 DEF Present, NoPresence
<1>6. ASSUME NEW c \in Clients, Unregister(c)
      PROVE  FALSE
  <2>1. CASE presences[c].vehicle = NoVehicle
    BY <2>1, <1>6 DEF Unregister
  <2>2. CASE presences[c].vehicle # NoVehicle
    <3>1. presences[c].vehicle \in Forklifts /\ now + Lifetime \in Nat
      BY <2>2, <1>1, PresenceFields, ConstantsAssumption DEF TypeOK
    <3>2. forklifts' = Abandon(presences[c].vehicle, now + Lifetime)
      BY <2>2, <1>6 DEF Unregister
    <3>3. CASE f = StoredUnder(presences[c].vehicle)
      BY <3>1, <3>2, <3>3, <1>1, AbandonEffect
    <3>4. CASE f # StoredUnder(presences[c].vehicle)
      BY <3>1, <3>2, <3>4, <1>1, AbandonEffect
    <3> QED
      BY <3>3, <3>4
  <2> QED
    BY <2>1, <2>2
<1>7. ASSUME NEW t \in timers, ForkliftExpiry(t[1], t[2])
      PROVE  forklifts[f].expires > 0 /\ forklifts[f].expires <= now
  <2>1. f = t[1] /\ ExpiryApplies(t[1], t[2])
    BY <1>1, <1>7 DEF ForkliftExpiry, TypeOK
  <2>2. t[2] > 0 /\ t[2] <= now
    BY <1>7 DEF ForkliftExpiry, TimersHaveExpiries
  <2> QED
    BY <2>1, <2>2 DEF ExpiryApplies
<1>8. ASSUME NEW g \in respawns, ForkliftRespawn(g)
      PROVE  FALSE
  <2>1. g \in BaseForklifts
    BY <1>1 DEF TypeOK
  <2>2. /\ f # g => forklifts'[f] = forklifts[f]
        /\ forklifts[g].here => forklifts'[g] = forklifts[g]
    BY <1>1, <1>8, <2>1, Domains DEF ForkliftRespawn, TypeOK
  <2> QED
    BY <2>2
<1>9. forklifts' # forklifts
  OBVIOUS
<1> QED
  BY <1>2, <1>3, <1>4, <1>5, <1>6, <1>7, <1>8, <1>9 DEF Next, Register, Tick, vars

\* A forklift is removed when its abandonment time is over, or with the last
\* client that reported from it, and never by a timer that was armed for an
\* earlier parking.
THEOREM NothingIsRemovedEarly == Spec => NoEarlyRemoval
<1>1. Init => TimersHaveExpiries
  BY DEF Init, TimersHaveExpiries
<1>2. IInv /\ TimersHaveExpiries /\ [Next]_vars => TimersHaveExpiries'
  BY TimersStep DEF IInv
<1>3. Spec => []TimersHaveExpiries
  BY <1>1, <1>2, Invariance, PTL DEF Spec
<1>4. IInv /\ TimersHaveExpiries /\ [Next]_vars =>
        [\A f \in Forklifts : forklifts[f].here /\ ~forklifts[f].here' =>
           \/ forklifts[f].expires > 0 /\ forklifts[f].expires <= now
           \/ \E c \in Clients : presences[c].vehicle = f /\ ~Present(c)']_vars
  BY RemovalStep
<1> QED
  BY <1>3, <1>4, Invariance, PTL DEF Spec, NoEarlyRemoval

=============================================================================
