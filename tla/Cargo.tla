-------------------------------- MODULE Cargo --------------------------------
(***************************************************************************)
(* The crates that forklift drivers carry (internal/realtime/cargo.go).    *)
(* A driver claims a crate and reports where it pushes it.  Four kinds of  *)
(* timers follow: a claim without contact is given back, an untouched      *)
(* crate is set upright, the spawn of a crate that was taken away gets a   *)
(* new one, and stale crates are removed where there are too many.         *)
(*                                                                         *)
(* No timer is ever stopped.  Each carries the time stamp it was armed for *)
(* and acts only if the crate still has that stamp; here a timer is the    *)
(* tuple of what its closure holds.  Poses and velocities are left out but *)
(* for one question: is the crate outside the radius of its spawn?         *)
(***************************************************************************)
EXTENDS Integers, FiniteSets

CONSTANTS
  Clients,
  NoClient,      \* OwnerID ""
  Worlds,
  NoWorld,
  BaseCrates,    \* the crates of vehicle_spawns.json
  MoreCrates,    \* the ids "cargo-job-<n>" that replacements get
  Spawns,
  NoSpawn,
  SpawnOf,       \* SpawnOf[i]: the spawn of a base crate
  SpawnWorld,    \* SpawnWorld[s]
  ClaimRelease,  \* cargoClaimReleaseDelay
  AutoRight,     \* cargoAutoRightDelay
  Replenish,     \* cargoReplenishDelay
  CleanupAge,    \* cargoCleanupAge
  Threshold,     \* cargoCleanupThreshold
  MaxTime        \* bound of the clock

Crates == BaseCrates \cup MoreCrates
Never == 0       \* a time stamp that is not in its map

ASSUME ConstantsAssumption ==
  /\ NoClient \notin Clients
  /\ NoWorld \notin Worlds
  /\ NoSpawn \notin Spawns
  /\ BaseCrates \cap MoreCrates = {}
  /\ SpawnOf \in [BaseCrates -> Spawns]
  /\ \A i, j \in BaseCrates : SpawnOf[i] = SpawnOf[j] => i = j
  /\ \A s \in Spawns : \E i \in BaseCrates : SpawnOf[i] = s
  /\ SpawnWorld \in [Spawns -> Worlds]
  /\ ClaimRelease \in Nat \ {0}
  /\ AutoRight \in Nat \ {0}
  /\ ClaimRelease <= AutoRight
  /\ Replenish \in Nat \ {0}
  /\ CleanupAge \in Nat \ {0}
  /\ Threshold \in Nat
  /\ MaxTime \in Nat

VARIABLES
  now,          \* the clock; it starts at 1
  world,        \* the world of each client in Hub.presences
  cargo,        \* Hub.cargo
  spawns,       \* Hub.cargoSpawns
  away,         \* Hub.cargoAwaySince
  untouched,    \* Hub.cargoUntouched
  touched,      \* Hub.cargoLastTouched
  replaced,     \* Hub.cargoReplaced
  timers,       \* armed timers
  drawn,        \* ids used for replacements: nextCargoID only grows
  holder,       \* ghost: who claimed or touched the crate in its last message
                \* about it, and has not left the world since
  letGo         \* ghost: when the owner first reported no contact, or left

vars == <<now, world, cargo, spawns, away, untouched, touched, replaced,
          timers, drawn, holder, letGo>>

-----------------------------------------------------------------------------
(* State *)

\* protocol.CargoState; "here" is membership in the map, "out" is
\* cargoOutsideSpawn.
Crate ==
  [here : BOOLEAN, world : Worlds \cup {NoWorld}, out : BOOLEAN,
   owner : Clients \cup {NoClient}, expires : Nat]
NoCrate ==
  [here |-> FALSE, world |-> NoWorld, out |-> FALSE, owner |-> NoClient,
   expires |-> 0]
NewCrate(w) ==
  [here |-> TRUE, world |-> w, out |-> FALSE, owner |-> NoClient, expires |-> 0]

Timers ==
  [kind : {"release"}, crate : Crates, owner : Clients, stamp : Nat]
    \cup [kind : {"right", "replenish", "cleanup"}, crate : Crates, stamp : Nat]
Release(i, c, e) == [kind |-> "release", crate |-> i, owner |-> c, stamp |-> e]
Timer(k, i, t) == [kind |-> k, crate |-> i, stamp |-> t]

Init ==
  /\ now = 1
  /\ world = [c \in Clients |-> NoWorld]
  /\ cargo = [i \in Crates |->
       IF i \in BaseCrates THEN NewCrate(SpawnWorld[SpawnOf[i]]) ELSE NoCrate]
  /\ spawns = [i \in Crates |-> IF i \in BaseCrates THEN SpawnOf[i] ELSE NoSpawn]
  /\ away = [i \in Crates |-> Never]
  /\ untouched = [i \in Crates |-> Never]
  /\ touched = [i \in Crates |-> Never]
  /\ replaced = {}
  /\ timers = {}
  /\ drawn = {}
  /\ holder = [i \in Crates |-> NoClient]
  /\ letGo = [i \in Crates |-> Never]

-----------------------------------------------------------------------------
(* Going away: markClientCargoForReleaseLocked and what its callers arm *)

OwnedBy(c) == {i \in Crates : cargo[i].owner = c}

NothingMarkedMutant(c) == {}
Marked(c) == OwnedBy(c)

\* The timers of all crates that are given back are armed after the unlock.
ReleaseTimers(c) ==
  {Release(i, c, now + ClaimRelease) : i \in Marked(c)}
    \cup {Timer(k, i, now) : k \in {"right", "cleanup"}, i \in Marked(c)}

MarkForRelease(c) ==
  /\ cargo' = [i \in Crates |->
       IF i \in Marked(c) THEN [cargo[i] EXCEPT !.expires = now + ClaimRelease]
                          ELSE cargo[i]]
  /\ untouched' = [i \in Crates |-> IF i \in Marked(c) THEN now ELSE untouched[i]]
  /\ touched' = [i \in Crates |-> IF i \in Marked(c) THEN now ELSE touched[i]]
  /\ timers' = timers \cup ReleaseTimers(c)
  /\ holder' = [i \in Crates |-> IF holder[i] = c THEN NoClient ELSE holder[i]]
  /\ letGo' = [i \in Crates |-> IF holder[i] = c THEN now ELSE letGo[i]]

\* A presence report: a change of room gives the crates back.
HandlePresence(c, w) ==
  /\ world' = [world EXCEPT ![c] = w]
  /\ IF world[c] \notin {NoWorld, w}
     THEN MarkForRelease(c)
     ELSE UNCHANGED <<cargo, untouched, touched, timers, holder, letGo>>
  /\ UNCHANGED <<now, spawns, away, replaced, drawn>>

\* leaveWorld and Unregister
Depart(c) ==
  /\ world[c] # NoWorld
  /\ world' = [world EXCEPT ![c] = NoWorld]
  /\ MarkForRelease(c)
  /\ UNCHANGED <<now, spawns, away, replaced, drawn>>

-----------------------------------------------------------------------------
(* Messages *)

InWorldOf(c, i) ==
  /\ world[c] # NoWorld
  /\ cargo[i].here
  /\ cargo[i].world = world[c]

\* A claim past its expiry counts for nothing.
Claimable(c, i) ==
  \/ cargo[i].owner \in {NoClient, c}
  \/ cargo[i].expires > 0 /\ cargo[i].expires <= now

\* The claim of a client on foot or more than six metres away is refused; who
\* is in the world may sit in a forklift there or not (Forklifts.tla).
HandleCargoClaim(c, i) ==
  /\ InWorldOf(c, i)
  /\ Claimable(c, i)
  /\ cargo' = [cargo EXCEPT ![i] = [@ EXCEPT !.owner = c, !.expires = 0]]
  /\ untouched' = [untouched EXCEPT ![i] = Never]
  /\ touched' = [touched EXCEPT ![i] = now]
  /\ holder' = [holder EXCEPT ![i] = c]
  /\ letGo' = [letGo EXCEPT ![i] = Never]
  /\ UNCHANGED <<now, world, spawns, away, replaced, timers, drawn>>

\* The claim of an owner that is not in contact runs out, once.
UpdatedExpiry(i, touching) ==
  IF touching THEN 0
  ELSE IF cargo[i].expires > 0 THEN cargo[i].expires ELSE now + ClaimRelease

\* updateCargoAutoRightLocked
UpdatedUntouched(i, touching) ==
  IF touching THEN Never ELSE IF untouched[i] = Never THEN now ELSE untouched[i]

\* updateCargoReplenishmentLocked
UpdatedAway(i, out) ==
  IF i \in replaced \/ ~out THEN Never
  ELSE IF away[i] = Never THEN now ELSE away[i]

UpdatedTouched(i, touching) ==
  IF touching \/ touched[i] = Never THEN now ELSE touched[i]

UpdateTimers(c, i, out, touching) ==
  (IF touching THEN {} ELSE {Release(i, c, UpdatedExpiry(i, touching))})
    \cup (IF away[i] = Never /\ UpdatedAway(i, out) # Never
          THEN {Timer("replenish", i, now)} ELSE {})
    \cup (IF untouched[i] = Never /\ ~touching
          THEN {Timer("right", i, now), Timer("cleanup", i, UpdatedTouched(i, touching))}
          ELSE {})

HandleCargoUpdate(c, i, out, touching) ==
  /\ InWorldOf(c, i)
  /\ cargo[i].owner = c
  /\ cargo' = [cargo EXCEPT ![i] =
       [@ EXCEPT !.out = out, !.expires = UpdatedExpiry(i, touching)]]
  /\ touched' = [touched EXCEPT ![i] = UpdatedTouched(i, touching)]
  /\ untouched' = [untouched EXCEPT ![i] = UpdatedUntouched(i, touching)]
  /\ away' = [away EXCEPT ![i] = UpdatedAway(i, out)]
  /\ timers' = timers \cup UpdateTimers(c, i, out, touching)
  /\ holder' = [holder EXCEPT ![i] = IF touching THEN c ELSE NoClient]
  /\ letGo' = [letGo EXCEPT ![i] =
       IF touching THEN Never ELSE IF holder[i] = c THEN now ELSE letGo[i]]
  /\ UNCHANGED <<now, world, spawns, replaced, drawn>>

-----------------------------------------------------------------------------
(* Timers *)

\* scheduleCargoClaimRelease: the claim of an owner who is still there stays,
\* to be taken over or ended by the next timer.
AnyClaimMutant(t) == cargo[t.crate].owner = t.owner
ClaimIsOver(t) ==
  /\ cargo[t.crate].owner = t.owner
  /\ cargo[t.crate].expires = t.stamp
  /\ world[t.owner] # cargo[t.crate].world

CargoClaimRelease(t) ==
  /\ t.kind = "release"
  /\ t.stamp <= now
  /\ timers' = timers \ {t}
  /\ cargo' = IF ClaimIsOver(t)
              THEN [cargo EXCEPT ![t.crate] =
                      [@ EXCEPT !.owner = NoClient, !.expires = 0]]
              ELSE cargo
  /\ letGo' = IF ClaimIsOver(t) THEN [letGo EXCEPT ![t.crate] = Never] ELSE letGo
  /\ UNCHANGED <<now, world, spawns, away, untouched, touched, replaced,
                 drawn, holder>>

\* autoRightCargoLocked: setting a crate upright ends its claim as well.
StillUntouched(t) == t.stamp = untouched[t.crate]

CargoAutoRight(t) ==
  /\ t.kind = "right"
  /\ t.stamp + AutoRight <= now
  /\ timers' = timers \ {t}
  /\ IF cargo[t.crate].here /\ StillUntouched(t)
     THEN /\ cargo' = [cargo EXCEPT ![t.crate] =
               [@ EXCEPT !.owner = NoClient, !.expires = 0]]
          /\ untouched' = [untouched EXCEPT ![t.crate] = Never]
          /\ letGo' = [letGo EXCEPT ![t.crate] = Never]
     ELSE UNCHANGED <<cargo, untouched, letGo>>
  /\ UNCHANGED <<now, world, spawns, away, touched, replaced, drawn, holder>>

\* replenishCargoLocked
UnheldAwayMutant(t) ==
  /\ cargo[t.crate].here
  /\ t.stamp = away[t.crate]
  /\ t.crate \notin replaced
  /\ cargo[t.crate].out
  /\ cargo[t.crate].owner = NoClient
StillAway(t) ==
  /\ cargo[t.crate].here
  /\ t.stamp = away[t.crate]
  /\ t.crate \notin replaced
  /\ cargo[t.crate].out

NotReplacedMutant(i) == replaced
ReplacedAfter(i) == replaced \cup {i}

NoSpawnMutant(i, j) == spawns
SpawnsAfter(i, j) == [spawns EXCEPT ![j] = spawns[i]]

CargoReplenishment(t, j) ==
  /\ t.kind = "replenish"
  /\ t.stamp + Replenish <= now
  /\ StillAway(t)
  /\ j \notin drawn
  /\ drawn' = drawn \cup {j}
  /\ cargo' = [cargo EXCEPT ![j] = NewCrate(cargo[t.crate].world)]
  /\ spawns' = SpawnsAfter(t.crate, j)
  /\ touched' = [touched EXCEPT ![j] = now]
  /\ replaced' = ReplacedAfter(t.crate)
  /\ away' = [away EXCEPT ![t.crate] = Never]
  /\ timers' = (timers \ {t}) \cup {Timer("cleanup", j, now)}
  /\ UNCHANGED <<now, world, untouched, holder, letGo>>

NoReplenishment(t) ==
  /\ t.kind = "replenish"
  /\ t.stamp + Replenish <= now
  /\ ~StillAway(t)
  /\ timers' = timers \ {t}
  /\ UNCHANGED <<now, world, cargo, spawns, away, untouched, touched,
                 replaced, drawn, holder, letGo>>

\* cleanupStaleCargoLocked; the timer is not armed again.
StaleOwnedMutant(t) ==
  /\ cargo[t.crate].here
  /\ t.stamp = touched[t.crate]
IsStale(t) ==
  /\ cargo[t.crate].here
  /\ t.stamp = touched[t.crate]
  /\ cargo[t.crate].owner = NoClient

Crowded(w) ==
  Cardinality({i \in Crates : cargo[i].here /\ cargo[i].world = w}) > Threshold

CargoCleanup(t) ==
  LET i == t.crate
  IN /\ t.kind = "cleanup"
     /\ t.stamp + CleanupAge <= now
     /\ timers' = timers \ {t}
     /\ IF IsStale(t) /\ Crowded(cargo[i].world)
        THEN /\ cargo' = [cargo EXCEPT ![i] = NoCrate]
             /\ spawns' = [spawns EXCEPT ![i] = NoSpawn]
             /\ away' = [away EXCEPT ![i] = Never]
             /\ untouched' = [untouched EXCEPT ![i] = Never]
             /\ touched' = [touched EXCEPT ![i] = Never]
             /\ replaced' = replaced \ {i}
        ELSE UNCHANGED <<cargo, spawns, away, untouched, touched, replaced>>
     /\ UNCHANGED <<now, world, drawn, holder, letGo>>

Tick ==
  /\ now < MaxTime
  /\ now' = now + 1
  /\ UNCHANGED <<world, cargo, spawns, away, untouched, touched, replaced,
                 timers, drawn, holder, letGo>>

Next ==
  \/ \E c \in Clients :
       \/ \E w \in Worlds : HandlePresence(c, w)
       \/ Depart(c)
       \/ \E i \in Crates :
            \/ HandleCargoClaim(c, i)
            \/ \E out, touching \in BOOLEAN : HandleCargoUpdate(c, i, out, touching)
  \/ \E t \in timers :
       \/ CargoClaimRelease(t)
       \/ CargoAutoRight(t)
       \/ \E j \in MoreCrates : CargoReplenishment(t, j)
       \/ NoReplenishment(t)
       \/ CargoCleanup(t)
  \/ Tick

Spec == Init /\ [][Next]_vars

\* Timers fire and time passes; clients may stay silent.
Fairness ==
  /\ WF_vars(Tick)
  /\ \A c \in Clients, i \in Crates, e \in 1 .. MaxTime :
       WF_vars(Release(i, c, e) \in timers /\ CargoClaimRelease(Release(i, c, e)))
  /\ \A i \in Crates, s \in 1 .. MaxTime :
       /\ WF_vars(Timer("right", i, s) \in timers /\ CargoAutoRight(Timer("right", i, s)))
       /\ WF_vars(/\ Timer("replenish", i, s) \in timers
                  /\ \/ NoReplenishment(Timer("replenish", i, s))
                     \/ \E j \in MoreCrates :
                          CargoReplenishment(Timer("replenish", i, s), j))

FairSpec == Spec /\ Fairness

-----------------------------------------------------------------------------
(* Properties *)

TypeOK ==
  /\ now \in Nat
  /\ world \in [Clients -> Worlds \cup {NoWorld}]
  /\ cargo \in [Crates -> Crate]
  /\ spawns \in [Crates -> Spawns \cup {NoSpawn}]
  /\ away \in [Crates -> Nat]
  /\ untouched \in [Crates -> Nat]
  /\ touched \in [Crates -> Nat]
  /\ replaced \subseteq Crates
  /\ timers \subseteq Timers
  /\ drawn \subseteq MoreCrates
  /\ holder \in [Crates -> Clients \cup {NoClient}]
  /\ letGo \in [Crates -> Nat]

\* A driver in contact with a crate keeps it: none of the timers armed before,
\* and no other driver's claim, takes it away.
ContactKeepsClaim ==
  \A i \in Crates : holder[i] # NoClient =>
    cargo[i].here /\ cargo[i].owner = holder[i] /\ cargo[i].expires = 0

\* A crate whose owner is not in its world any more has the timer that ends
\* the claim: leaving, disconnecting and changing rooms never orphan a crate.
OrphanIsReleased ==
  \A i \in Crates :
    LET c == cargo[i].owner
    IN c # NoClient /\ world[c] # cargo[i].world =>
         /\ cargo[i].expires > 0
         /\ Release(i, c, cargo[i].expires) \in timers

\* "cargo transferred before its release grace elapsed" (realtime_test.go): a
\* crate changes hands, or is given back, no earlier than that after the last
\* contact of its owner.
GraceIsKept ==
  [][\A i \in Crates :
       cargo[i].owner # NoClient /\ cargo[i].owner' # cargo[i].owner =>
         letGo[i] # Never /\ now >= letGo[i] + ClaimRelease]_vars

\* Every stamp the timers compare has its timer.
UntouchedIsArmed ==
  \A i \in Crates : untouched[i] # Never =>
    cargo[i].here /\ Timer("right", i, untouched[i]) \in timers

AwayIsArmed ==
  \A i \in Crates : away[i] # Never =>
    /\ cargo[i].here /\ cargo[i].out /\ i \notin replaced
    /\ Timer("replenish", i, away[i]) \in timers

\* A spawn has one crate at most that will be replaced when it is taken away,
\* since nothing that drivers do yields two new crates for one; and it has one
\* as long as none of its crates was cleaned up.
Current(s) == {i \in Crates : cargo[i].here /\ spawns[i] = s /\ i \notin replaced}
SpawnHasOneCrate ==
  \A s \in Spawns :
    /\ Cardinality(Current(s)) <= 1
    /\ \/ Current(s) # {}
       \/ \E i \in BaseCrates : SpawnOf[i] = s /\ ~cargo[i].here
       \/ \E j \in drawn : ~cargo[j].here

\* The claim of a driver that has gone ends, unless the driver comes back, or
\* leaves other worlds again and again: each time renews the claim, here until
\* it outlives the clock.
OrphanIsFreed ==
  \A c \in Clients, i \in Crates :
    (cargo[i].owner = c /\ world[c] # cargo[i].world)
      ~> \/ cargo[i].owner # c \/ world[c] = cargo[i].world
         \/ cargo[i].expires > MaxTime

\* A crate that stays outside its spawn for the time is replaced (as long as
\* the model has ids left).
TakenIsReplaced ==
  \A i \in Crates, s \in 1 .. MaxTime :
    (away[i] = s /\ s + Replenish <= MaxTime)
      ~> away[i] # s \/ drawn = MoreCrates

\* The inductive invariant.  What is known of an id: an authored crate keeps its
\* spawn, and a drawn id has a crate until that is cleaned up, never again.
CratesExist ==
  \A i \in Crates :
    IF cargo[i].here
    THEN /\ cargo[i].world \in Worlds /\ spawns[i] \in Spawns
         /\ i \in BaseCrates => spawns[i] = SpawnOf[i]
         /\ i \in MoreCrates => i \in drawn
    ELSE cargo[i] = NoCrate /\ i \notin replaced

\* The owner of a crate either is in contact with it, and then no timer has its
\* stamp, or has let go of it, and then its claim runs out late enough.
ClaimsAreTimed ==
  \A i \in Crates :
    /\ holder[i] \in {NoClient, cargo[i].owner}
    /\ cargo[i].owner # NoClient =>
         IF holder[i] # NoClient
         THEN cargo[i].expires = 0 /\ untouched[i] = Never
         ELSE /\ letGo[i] # Never /\ letGo[i] <= untouched[i] /\ untouched[i] <= now
              /\ letGo[i] + ClaimRelease <= cargo[i].expires

TimersAreStamped == now > 0 /\ \A t \in timers : t.stamp > 0

\* SpawnHasOneCrate without a count.
Missing(s) ==
  \/ \E i \in BaseCrates : SpawnOf[i] = s /\ ~cargo[i].here
  \/ \E j \in drawn : ~cargo[j].here
OneCrateEach ==
  \A s \in Spawns :
    /\ \A i, j \in Current(s) : i = j
    /\ Current(s) # {} \/ Missing(s)

IInv ==
  /\ TypeOK
  /\ CratesExist
  /\ ClaimsAreTimed
  /\ TimersAreStamped
  /\ OrphanIsReleased
  /\ UntouchedIsArmed
  /\ AwayIsArmed
  /\ OneCrateEach

=============================================================================
