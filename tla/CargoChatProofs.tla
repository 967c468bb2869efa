-------------------------- MODULE CargoChatProofs ---------------------------
(***************************************************************************)
(* Proofs about Cargo.tla, for any number of drivers, crates, spawns and   *)
(* timers, any delays and any clock, and about Chat.tla, for any number of *)
(* connections and messages, any history and any limits.  The two          *)
(* components share no state; each has a part of its own here.             *)
(*                                                                         *)
(* Cargo: the argument goes crate by crate: what holds of a crate          *)
(* (CrateOK) can be disturbed only by an action on that crate or by the    *)
(* leaving of its owner; a timer that acts has the stamp of the crate, and *)
(* contact leaves the crate without one.                                   *)
(*                                                                         *)
(* The chat: every message reaches every connection (Reaches): it is on    *)
(* its way there, in its inbox, in its history or pushed out of that by    *)
(* later ones, or it passed while the history was still to be loaded, and  *)
(* the loading takes it over.  A sender has one handler at a time, which   *)
(* keeps each inbox in its order.                                          *)
(***************************************************************************)
EXTENDS Cargo, Chat, FiniteSetTheorems, TLAPS

-----------------------------------------------------------------------------
(* Part one: Cargo *)

-----------------------------------------------------------------------------
(* Crates *)

\* The parts of the inductive invariant that are about one crate.
CrateOK(i) ==
  /\ IF cargo[i].here
     THEN /\ cargo[i].world \in Worlds /\ spawns[i] \in Spawns
          /\ i \in BaseCrates => spawns[i] = SpawnOf[i]
          /\ i \in MoreCrates => i \in drawn
     ELSE cargo[i] = NoCrate /\ i \notin replaced
  /\ holder[i] \in {NoClient, cargo[i].owner}
  /\ cargo[i].owner # NoClient =>
       IF holder[i] # NoClient
       THEN cargo[i].expires = 0 /\ untouched[i] = Never
       ELSE /\ letGo[i] # Never /\ letGo[i] <= untouched[i] /\ untouched[i] <= now
            /\ letGo[i] + ClaimRelease <= cargo[i].expires
  /\ cargo[i].owner # NoClient /\ world[cargo[i].owner] # cargo[i].world =>
       /\ cargo[i].expires > 0
       /\ Release(i, cargo[i].owner, cargo[i].expires) \in timers
  /\ untouched[i] # Never =>
       cargo[i].here /\ Timer("right", i, untouched[i]) \in timers
  /\ away[i] # Never =>
       /\ cargo[i].here /\ cargo[i].out /\ i \notin replaced
       /\ Timer("replenish", i, away[i]) \in timers

LEMMA CrateByCrate ==
  IInv <=> /\ TypeOK
           /\ TimersAreStamped
           /\ OneCrateEach
           /\ \A i \in Crates : CrateOK(i)
BY DEF IInv, CrateOK, CratesExist, ClaimsAreTimed, OrphanIsReleased,
   UntouchedIsArmed, AwayIsArmed

LEMMA CrateByCrateNext ==
  IInv' <=> /\ TypeOK'
            /\ TimersAreStamped'
            /\ OneCrateEach'
            /\ \A i \in Crates : CrateOK(i)'
BY DEF IInv, CrateOK, CratesExist, ClaimsAreTimed, OrphanIsReleased,
   UntouchedIsArmed, AwayIsArmed

LEMMA CrateFields ==
  ASSUME TypeOK, NEW i \in Crates
  PROVE  /\ cargo[i] \in Crate
         /\ cargo[i].here \in BOOLEAN /\ cargo[i].out \in BOOLEAN
         /\ cargo[i].world \in Worlds \cup {NoWorld}
         /\ cargo[i].owner \in Clients \cup {NoClient}
         /\ cargo[i].expires \in Nat
         /\ away[i] \in Nat /\ untouched[i] \in Nat /\ touched[i] \in Nat
         /\ letGo[i] \in Nat /\ now \in Nat
         /\ holder[i] \in Clients \cup {NoClient}
         /\ spawns[i] \in Spawns \cup {NoSpawn}
BY DEF TypeOK, Crate

LEMMA NewExpiry ==
  ASSUME NEW k \in Crate, NEW e \in Nat,
         NEW n, n = [k EXCEPT !.expires = e]
  PROVE  /\ n \in Crate /\ n.expires = e /\ n.owner = k.owner
         /\ n.here = k.here /\ n.world = k.world /\ n.out = k.out
BY DEF Crate

LEMMA NewOwner ==
  ASSUME NEW k \in Crate, NEW c \in Clients \cup {NoClient}, NEW e \in Nat,
         NEW n, n = [k EXCEPT !.owner = c, !.expires = e]
  PROVE  /\ n \in Crate /\ n.expires = e /\ n.owner = c
         /\ n.here = k.here /\ n.world = k.world /\ n.out = k.out
BY DEF Crate

LEMMA NewPlace ==
  ASSUME NEW k \in Crate, NEW out \in BOOLEAN, NEW e \in Nat,
         NEW n, n = [k EXCEPT !.out = out, !.expires = e]
  PROVE  /\ n \in Crate /\ n.expires = e /\ n.owner = k.owner
         /\ n.here = k.here /\ n.world = k.world /\ n.out = out
BY DEF Crate

LEMMA TimerFields ==
  ASSUME NEW i \in Crates, NEW c \in Clients, NEW e \in Nat
  PROVE  /\ Release(i, c, e) \in Timers
         /\ Release(i, c, e).crate = i /\ Release(i, c, e).stamp = e
         /\ Release(i, c, e).kind = "release" /\ Release(i, c, e).owner = c
         /\ \A k \in {"right", "replenish", "cleanup"} :
              /\ Timer(k, i, e) \in Timers /\ Timer(k, i, e).kind = k
              /\ Timer(k, i, e).crate = i /\ Timer(k, i, e).stamp = e
BY DEF Release, Timer, Timers

LEMMA ATimer ==
  ASSUME TypeOK, NEW t \in timers
  PROVE  /\ t.crate \in Crates /\ t.stamp \in Nat
         /\ t.kind = "release" => t.owner \in Clients /\ t = Release(t.crate, t.owner, t.stamp)
BY DEF TypeOK, Timers, Release

LEMMA ConstantFacts ==
  /\ NoClient \notin Clients /\ NoWorld \notin Worlds
  /\ ClaimRelease \in Nat /\ ClaimRelease > 0
  /\ AutoRight \in Nat /\ ClaimRelease <= AutoRight
  /\ NoCrate \in Crate /\ ~NoCrate.here /\ NoCrate.owner = NoClient
  /\ NoCrate.expires = 0
BY ConstantsAssumption DEF NoCrate, Crate

\* A crate that no action has touched, while its timers are still armed.
LEMMA OtherCrate ==
  ASSUME TypeOK, NEW i \in Crates, CrateOK(i),
         cargo'[i] = cargo[i], spawns'[i] = spawns[i], away'[i] = away[i],
         untouched'[i] = untouched[i], holder'[i] = holder[i], letGo'[i] = letGo[i],
         i \in replaced' => i \in replaced, drawn \subseteq drawn',
         now' \in Nat, now <= now',
         cargo[i].owner # NoClient => world'[cargo[i].owner] = world[cargo[i].owner],
         \A t \in timers : t.crate = i => t \in timers'
  PROVE  CrateOK(i)'
<1>1. /\ cargo[i].owner \in Clients \cup {NoClient}
      /\ untouched[i] \in Nat /\ letGo[i] \in Nat /\ now \in Nat
      /\ away[i] \in Nat /\ cargo[i].expires \in Nat
  BY CrateFields
<1>2. /\ cargo[i].owner # NoClient /\ Release(i, cargo[i].owner, cargo[i].expires) \in timers
           => Release(i, cargo[i].owner, cargo[i].expires) \in timers'
      /\ Timer("right", i, untouched[i]) \in timers =>
           Timer("right", i, untouched[i]) \in timers'
      /\ Timer("replenish", i, away[i]) \in timers =>
           Timer("replenish", i, away[i]) \in timers'
  BY <1>1 DEF Release, Timer
<1>3. untouched[i] <= now => untouched[i] <= now'
  BY <1>1
<1> QED
  BY <1>1, <1>2, <1>3 DEF CrateOK

LEMMA OneCrateUnchanged ==
  ASSUME OneCrateEach, \A i \in Crates : cargo'[i].here = cargo[i].here,
         UNCHANGED <<spawns, replaced, drawn>>, drawn \subseteq Crates
  PROVE  OneCrateEach'
BY DEF OneCrateEach, Current, Missing, Crates

-----------------------------------------------------------------------------
(* Going away *)

\* Every crate of c is given back, with a timer for the end of the claim.
LEMMA MarkIInv ==
  ASSUME IInv, NEW c \in Clients, MarkForRelease(c),
         world' \in [Clients -> Worlds \cup {NoWorld}],
         \A d \in Clients \ {c} : world'[d] = world[d],
         UNCHANGED <<now, spawns, away, replaced, drawn>>
  PROVE  IInv'
<1>1. /\ TypeOK /\ TimersAreStamped /\ OneCrateEach
      /\ \A i \in Crates : CrateOK(i)
  BY CrateByCrate
<1>2. now \in Nat /\ now > 0 /\ now + ClaimRelease \in Nat /\ now + ClaimRelease > 0
  BY <1>1, ConstantFacts DEF TypeOK, TimersAreStamped
<1> DEFINE e == now + ClaimRelease
<1>3. e \in Nat /\ e > 0 /\ e = now + ClaimRelease
  BY <1>2
<1>4. \A i \in Crates :
        /\ cargo[i].owner = c =>
             /\ cargo'[i] = [cargo[i] EXCEPT !.expires = e]
             /\ untouched'[i] = now /\ touched'[i] = now
             /\ Release(i, c, e) \in timers' /\ Timer("right", i, now) \in timers'
        /\ cargo[i].owner # c =>
             cargo'[i] = cargo[i] /\ untouched'[i] = untouched[i] /\ touched'[i] = touched[i]
        /\ holder[i] = c => holder'[i] = NoClient /\ letGo'[i] = now
        /\ holder[i] # c => holder'[i] = holder[i] /\ letGo'[i] = letGo[i]
  BY <1>2 DEF MarkForRelease, Marked, OwnedBy, ReleaseTimers
<1>5. /\ cargo' = [i \in Crates |-> cargo'[i]] /\ untouched' = [i \in Crates |-> untouched'[i]]
      /\ touched' = [i \in Crates |-> touched'[i]] /\ holder' = [i \in Crates |-> holder'[i]]
      /\ letGo' = [i \in Crates |-> letGo'[i]]
  BY DEF MarkForRelease
<1>6. /\ timers \subseteq timers'
      /\ \A t \in timers' \ timers : \E i \in Crates :
           \/ t = Release(i, c, e)
           \/ \E k \in {"right", "cleanup"} : t = Timer(k, i, now)
  BY DEF MarkForRelease, Marked, OwnedBy, ReleaseTimers
<1> HIDE DEF e
<1>7. \A t \in timers' \ timers : t \in Timers /\ t.stamp > 0
  BY <1>2, <1>3, <1>6, TimerFields
<1>8. \A i \in Crates :
        /\ cargo'[i] \in Crate /\ cargo'[i].owner = cargo[i].owner
        /\ cargo'[i].here = cargo[i].here /\ cargo'[i].world = cargo[i].world
        /\ cargo'[i].out = cargo[i].out
        /\ cargo[i].owner = c => cargo'[i].expires = e
  <2> SUFFICES ASSUME NEW i \in Crates
               PROVE  /\ cargo'[i] \in Crate /\ cargo'[i].owner = cargo[i].owner
                      /\ cargo'[i].here = cargo[i].here /\ cargo'[i].world = cargo[i].world
                      /\ cargo'[i].out = cargo[i].out
                      /\ cargo[i].owner = c => cargo'[i].expires = e
    OBVIOUS
  <2>1. cargo[i] \in Crate
    BY <1>1, CrateFields
  <2>2. CASE cargo[i].owner = c
    <3>1. cargo'[i] = [cargo[i] EXCEPT !.expires = e]
      BY <1>4, <2>2
    <3> QED
      BY <1>3, <2>1, <3>1, NewExpiry
  <2>3. CASE cargo[i].owner # c
    BY <1>4, <2>1, <2>3
  <2> QED
    BY <2>2, <2>3
<1>9. TypeOK'
  <2>1. \A i \in Crates : /\ untouched'[i] \in Nat /\ touched'[i] \in Nat
                          /\ letGo'[i] \in Nat
                          /\ holder'[i] \in Clients \cup {NoClient}
    BY <1>1, <1>2, <1>4, CrateFields
  <2>2. /\ cargo' \in [Crates -> Crate] /\ untouched' \in [Crates -> Nat]
        /\ touched' \in [Crates -> Nat] /\ letGo' \in [Crates -> Nat]
        /\ holder' \in [Crates -> Clients \cup {NoClient}]
    BY <1>5, <1>8, <2>1
  <2>3. timers' \subseteq Timers
    BY <1>1, <1>7 DEF TypeOK
  <2> QED
    BY <1>1, <2>2, <2>3 DEF TypeOK
<1>10. TimersAreStamped'
  BY <1>1, <1>7 DEF TimersAreStamped
<1>11. OneCrateEach'
  BY <1>1, <1>8, OneCrateUnchanged DEF TypeOK, Crates
<1>12. ASSUME NEW i \in Crates PROVE CrateOK(i)'
  <2>1. CrateOK(i)
    BY <1>1
  <2>2. CASE cargo[i].owner # c
    <3>1. holder[i] # c
      BY <2>1, <2>2, ConstantFacts DEF CrateOK
    <3>2. cargo[i].owner # NoClient => world'[cargo[i].owner] = world[cargo[i].owner]
      BY <1>1, <2>2, CrateFields
    <3>3. /\ cargo'[i] = cargo[i] /\ untouched'[i] = untouched[i]
          /\ holder'[i] = holder[i] /\ letGo'[i] = letGo[i]
      BY <1>4, <2>2, <3>1
    <3>4. now' \in Nat /\ now <= now'
      BY <1>2
    <3>5. \A t \in timers : t.crate = i => t \in timers'
      BY <1>6
    <3> QED
      BY <1>1, <2>1, <3>2, <3>3, <3>4, <3>5, OtherCrate
  <2>3. CASE cargo[i].owner = c
    <3>1. c # NoClient
      BY ConstantFacts
    <3>2. cargo[i].here
      BY <2>1, <2>3, <3>1, ConstantFacts DEF CrateOK
    <3>3. holder'[i] = NoClient
      BY <1>4, <2>1, <2>3 DEF CrateOK
    <3>4. letGo'[i] # Never /\ letGo'[i] \in Nat /\ letGo'[i] <= now
      <4>1. now # Never /\ now <= now
        BY <1>2 DEF Never
      <4>2. letGo[i] \in Nat /\ untouched[i] \in Nat
        BY <1>1, CrateFields
      <4>3. holder[i] # c => letGo[i] # Never /\ letGo[i] <= untouched[i] /\ untouched[i] <= now
        BY <2>1, <2>3, <3>1 DEF CrateOK
      <4>4. holder[i] # c => letGo[i] <= now
        BY <1>2, <4>2, <4>3
      <4>5. /\ holder[i] = c => letGo'[i] = now
            /\ holder[i] # c => letGo'[i] = letGo[i]
        BY <1>4
      <4> QED
        BY <1>2, <4>1, <4>2, <4>3, <4>4, <4>5
    <3>5. letGo'[i] + ClaimRelease <= e
      BY <1>2, <1>3, <3>4, ConstantFacts
    <3>6. /\ untouched'[i] = now /\ cargo'[i].expires = e
          /\ Release(i, c, e) \in timers' /\ Timer("right", i, now) \in timers'
      BY <1>4, <1>8, <2>3
    <3>7. away'[i] = away[i] /\ spawns'[i] = spawns[i] /\ replaced' = replaced /\ drawn' = drawn
          /\ now' = now
      OBVIOUS
    <3>8. away'[i] # Never =>
            /\ cargo'[i].here /\ cargo'[i].out /\ i \notin replaced'
            /\ Timer("replenish", i, away'[i]) \in timers'
      BY <1>6, <1>8, <2>1, <3>7 DEF CrateOK
    <3>9. /\ cargo'[i].here /\ cargo'[i].world \in Worlds /\ spawns'[i] \in Spawns
          /\ i \in BaseCrates => spawns'[i] = SpawnOf[i]
          /\ i \in MoreCrates => i \in drawn'
      BY <1>8, <2>1, <3>2, <3>7 DEF CrateOK
    <3>10. cargo'[i].owner = c
      BY <1>8, <2>3
    <3>11. untouched'[i] <= now'
      BY <1>2, <3>6, <3>7
    <3>12. now' = now /\ letGo'[i] <= untouched'[i]
      BY <3>4, <3>6, <3>7
    <3>13. e > 0 
      BY <1>3
    <3> QED
      BY <3>3, <3>4, <3>5, <3>6, <3>8, <3>9, <3>10, <3>11, <3>12, <3>13 DEF CrateOK
  <2> QED
    BY <2>2, <2>3
<1> QED
  BY <1>9, <1>10, <1>11, <1>12, CrateByCrateNext

LEMMA HandlePresenceIInv ==
  ASSUME IInv, NEW c \in Clients, NEW w \in Worlds, HandlePresence(c, w)
  PROVE  IInv'
<1>1. /\ world' = [world EXCEPT ![c] = w]
      /\ UNCHANGED <<now, spawns, away, replaced, drawn>>
      /\ \/ MarkForRelease(c)
         \/ /\ world[c] \in {NoWorld, w}
            /\ UNCHANGED <<cargo, untouched, touched, timers, holder, letGo>>
  BY DEF HandlePresence
<1>2. /\ world' \in [Clients -> Worlds \cup {NoWorld}] /\ world'[c] = w
      /\ \A d \in Clients \ {c} : world'[d] = world[d]
  BY <1>1 DEF IInv, TypeOK
<1>3. CASE MarkForRelease(c)
  BY <1>1, <1>2, <1>3, MarkIInv
<1>4. CASE /\ world[c] \in {NoWorld, w}
           /\ UNCHANGED <<cargo, untouched, touched, timers, holder, letGo>>
  <2>1. /\ TypeOK /\ TimersAreStamped /\ OneCrateEach
        /\ \A i \in Crates : CrateOK(i)
    BY CrateByCrate
  <2>2. TypeOK'
    BY <1>1, <1>2, <1>4, <2>1 DEF TypeOK
  <2>3. TimersAreStamped' /\ OneCrateEach'
    BY <1>1, <1>4, <2>1, OneCrateUnchanged DEF TimersAreStamped, TypeOK, Crates
  <2>4. ASSUME NEW i \in Crates PROVE CrateOK(i)'
    <3>1. CrateOK(i) /\ cargo[i].owner \in Clients \cup {NoClient}
      BY <2>1, CrateFields
    <3>2. cargo[i].owner # NoClient => cargo[i].world # NoWorld
      BY <3>1, ConstantFacts DEF CrateOK
    <3>3. cargo[i].owner # NoClient /\ world'[cargo[i].owner] # cargo[i].world
            => world[cargo[i].owner] # cargo[i].world
      BY <1>2, <1>4, <3>1, <3>2
    <3> QED
      BY <1>1, <1>4, <3>1, <3>3 DEF CrateOK
  <2> QED
    BY <2>2, <2>3, <2>4, CrateByCrateNext
<1> QED
  BY <1>1, <1>3, <1>4

LEMMA DepartIInv ==
  ASSUME IInv, NEW c \in Clients, Depart(c)
  PROVE  IInv'
<1>1. /\ world' = [world EXCEPT ![c] = NoWorld] /\ MarkForRelease(c)
      /\ UNCHANGED <<now, spawns, away, replaced, drawn>>
  BY DEF Depart
<1>2. /\ world' \in [Clients -> Worlds \cup {NoWorld}]
      /\ \A d \in Clients \ {c} : world'[d] = world[d]
  BY <1>1 DEF IInv, TypeOK
<1> QED
  BY <1>1, <1>2, MarkIInv

-----------------------------------------------------------------------------
(* Messages *)

\* An action on one crate leaves the others as they are.
LEMMA OnlyThisCrate ==
  ASSUME IInv, NEW i \in Crates, TypeOK', TimersAreStamped', OneCrateEach', CrateOK(i)',
         \A j \in Crates \ {i} :
           /\ cargo'[j] = cargo[j] /\ spawns'[j] = spawns[j] /\ away'[j] = away[j]
           /\ untouched'[j] = untouched[j] /\ holder'[j] = holder[j]
           /\ letGo'[j] = letGo[j]
           /\ j \in replaced' => j \in replaced,
         now' = now, world' = world, drawn \subseteq drawn',
         \A t \in timers : t.crate # i => t \in timers'
  PROVE  IInv'
<1>1. TypeOK /\ \A j \in Crates : CrateOK(j)
  BY CrateByCrate
<1>2. now \in Nat /\ now <= now
  BY <1>1 DEF TypeOK
<1>3. ASSUME NEW j \in Crates \ {i} PROVE CrateOK(j)'
  BY <1>1, <1>2, <1>3, OtherCrate
<1> QED
  BY <1>3, CrateByCrateNext

LEMMA HandleCargoClaimIInv ==
  ASSUME IInv, NEW c \in Clients, NEW i \in Crates, HandleCargoClaim(c, i)
  PROVE  IInv'
<1> DEFINE k == cargo[i]
           n == [k EXCEPT !.owner = c, !.expires = 0]
<1>1. /\ k.here /\ k.world = world[c]
      /\ cargo' = [cargo EXCEPT ![i] = n]
      /\ untouched' = [untouched EXCEPT ![i] = Never]
      /\ touched' = [touched EXCEPT ![i] = now]
      /\ holder' = [holder EXCEPT ![i] = c]
      /\ letGo' = [letGo EXCEPT ![i] = Never]
      /\ UNCHANGED <<now, world, spawns, away, replaced, timers, drawn>>
  BY DEF HandleCargoClaim, InWorldOf
<1>2. /\ TypeOK /\ TimersAreStamped /\ OneCrateEach /\ CrateOK(i)
  BY CrateByCrate
<1>3. k \in Crate /\ now \in Nat /\ Never \in Nat
  BY <1>2, CrateFields DEF Never
<1>4. k = cargo[i] /\ n = [k EXCEPT !.owner = c, !.expires = 0]
  OBVIOUS
<1> HIDE DEF k, n
<1>5. /\ n \in Crate /\ n.expires = 0 /\ n.owner = c
      /\ n.here = k.here /\ n.world = k.world /\ n.out = k.out
  BY <1>3, <1>4 DEF Crate
<1>6. TypeOK'
  BY <1>1, <1>2, <1>3, <1>5 DEF TypeOK
<1>7. /\ cargo'[i] = n /\ untouched'[i] = Never /\ holder'[i] = c
      /\ \A j \in Crates \ {i} :
           /\ cargo'[j] = cargo[j] /\ untouched'[j] = untouched[j]
           /\ holder'[j] = holder[j] /\ letGo'[j] = letGo[j]
  BY <1>1, <1>2 DEF TypeOK
<1>8. CrateOK(i)'
  <2>1. /\ k.world \in Worlds /\ spawns[i] \in Spawns
        /\ i \in BaseCrates => spawns[i] = SpawnOf[i]
        /\ i \in MoreCrates => i \in drawn
        /\ away[i] # Never => /\ k.out /\ i \notin replaced
                              /\ Timer("replenish", i, away[i]) \in timers
    BY <1>1, <1>2, <1>4 DEF CrateOK
  <2>2. c # NoClient
    BY ConstantFacts
  <2>3. UNCHANGED <<now, world, spawns, away, replaced, timers, drawn>> /\ k.here
        /\ k.world = world[c]
    BY <1>1
  <2> QED
    BY <1>5, <1>7, <2>1, <2>2, <2>3 DEF CrateOK
<1>9. TimersAreStamped'
  BY <1>1, <1>2 DEF TimersAreStamped
<1>10. OneCrateEach'
  <2>1. \A j \in Crates : cargo'[j].here = cargo[j].here
    BY <1>4, <1>5, <1>7
  <2> QED
    BY <1>1, <1>2, <2>1, OneCrateUnchanged DEF TypeOK, Crates
<1> QED
  BY <1>1, <1>6, <1>7, <1>8, <1>9, <1>10, OnlyThisCrate

\* The first report without contact starts the grace; the ones that follow
\* neither prolong nor shorten it.
LEMMA HandleCargoUpdateIInv ==
  ASSUME IInv, NEW c \in Clients, NEW i \in Crates,
         NEW out \in BOOLEAN, NEW touching \in BOOLEAN,
         HandleCargoUpdate(c, i, out, touching)
  PROVE  IInv'
<1> DEFINE k == cargo[i]
           e == UpdatedExpiry(i, touching)
           u == UpdatedUntouched(i, touching)
           a == UpdatedAway(i, out)
           g == IF touching THEN Never ELSE IF holder[i] = c THEN now ELSE letGo[i]
           h == IF touching THEN c ELSE NoClient
           n == [k EXCEPT !.out = out, !.expires = e]
<1>1. /\ k.here /\ k.world = world[c] /\ k.owner = c
      /\ cargo' = [cargo EXCEPT ![i] = n]
      /\ touched' = [touched EXCEPT ![i] = UpdatedTouched(i, touching)]
      /\ untouched' = [untouched EXCEPT ![i] = u]
      /\ away' = [away EXCEPT ![i] = a]
      /\ timers' = timers \cup UpdateTimers(c, i, out, touching)
      /\ holder' = [holder EXCEPT ![i] = h]
      /\ letGo' = [letGo EXCEPT ![i] = g]
      /\ UNCHANGED <<now, world, spawns, replaced, drawn>>
  BY DEF HandleCargoUpdate, InWorldOf
<1>2. /\ TypeOK /\ TimersAreStamped /\ OneCrateEach /\ CrateOK(i)
  BY CrateByCrate
<1>3. /\ k \in Crate /\ k.expires \in Nat /\ now \in Nat /\ now > 0
      /\ away[i] \in Nat /\ untouched[i] \in Nat /\ letGo[i] \in Nat
      /\ now + ClaimRelease \in Nat /\ now + ClaimRelease > 0 /\ c # NoClient
      /\ k = cargo[i]
  BY <1>2, CrateFields, ConstantFacts DEF TimersAreStamped
<1> HIDE DEF k
<1>4. /\ e \in Nat
      /\ touching => e = 0
      /\ ~touching => /\ e > 0 /\ (e = k.expires \/ e = now + ClaimRelease)
                      /\ k.expires > 0 => e = k.expires
  BY <1>3 DEF UpdatedExpiry
<1>5. /\ u \in Nat
      /\ touching => u = Never
      /\ ~touching => /\ u # Never
                      /\ untouched[i] # Never => u = untouched[i]
                      /\ untouched[i] = Never => u = now
  BY <1>3 DEF UpdatedUntouched, Never
<1>6. /\ a \in Nat
      /\ a # Never => /\ out /\ i \notin replaced
                      /\ IF away[i] = Never THEN a = now ELSE a = away[i]
  BY <1>3 DEF UpdatedAway, Never
<1>7. /\ g \in Nat
      /\ ~touching => IF holder[i] = c THEN g = now ELSE g = letGo[i]
  BY <1>3 DEF Never
<1>8. UpdatedTouched(i, touching) \in Nat /\ UpdatedTouched(i, touching) > 0
  BY <1>2, <1>3, CrateFields DEF UpdatedTouched, Never
<1>9. /\ ~touching => Release(i, c, e) \in timers'
      /\ away[i] = Never /\ a # Never => Timer("replenish", i, now) \in timers'
      /\ untouched[i] = Never /\ ~touching => Timer("right", i, now) \in timers'
  BY <1>1 DEF UpdateTimers
<1>10. \A t \in timers' \ timers :
         \/ ~touching /\ t = Release(i, c, e)
         \/ t = Timer("replenish", i, now)
         \/ t = Timer("right", i, now)
         \/ t = Timer("cleanup", i, UpdatedTouched(i, touching))
  BY <1>1 DEF UpdateTimers
<1>11. /\ h \in Clients \cup {NoClient} /\ h \in {c, NoClient}
       /\ touching => h = c
       /\ ~touching => h = NoClient
  OBVIOUS
<1> HIDE DEF e, u, a, g, h
<1>20. n = [k EXCEPT !.out = out, !.expires = e]
  OBVIOUS
<1> HIDE DEF n
<1>12. /\ n \in Crate /\ n.expires = e /\ n.owner = c
       /\ n.here = k.here /\ n.world = k.world /\ n.out = out
  BY <1>1, <1>3, <1>4, <1>20 DEF Crate
<1>13. \A t \in timers' \ timers : t \in Timers /\ t.stamp > 0
  BY <1>3, <1>4, <1>8, <1>10, TimerFields
<1>14. /\ cargo'[i] = n /\ untouched'[i] = u /\ away'[i] = a /\ holder'[i] = h
       /\ letGo'[i] = g
       /\ \A j \in Crates \ {i} :
            /\ cargo'[j] = cargo[j] /\ untouched'[j] = untouched[j]
            /\ away'[j] = away[j]
            /\ holder'[j] = holder[j] /\ letGo'[j] = letGo[j]
  BY <1>1, <1>2 DEF TypeOK
<1>15. TypeOK'
  <2>1. timers' \subseteq Timers
    BY <1>2, <1>13 DEF TypeOK
  <2> QED
    BY <1>1, <1>2, <1>4, <1>5, <1>6, <1>7, <1>8, <1>11, <1>12, <2>1 DEF TypeOK
<1>16. TimersAreStamped'
  BY <1>1, <1>2, <1>13 DEF TimersAreStamped
<1>17. OneCrateEach'
  <2>1. \A j \in Crates : cargo'[j].here = cargo[j].here
    BY <1>1, <1>3, <1>12, <1>14
  <2> QED
    BY <1>1, <1>2, <2>1, OneCrateUnchanged DEF TypeOK, Crates
<1>18. timers \subseteq timers'
  BY <1>1
<1>19. CrateOK(i)'
  <2>1. /\ k.world \in Worlds /\ spawns[i] \in Spawns
        /\ i \in BaseCrates => spawns[i] = SpawnOf[i]
        /\ i \in MoreCrates => i \in drawn
        /\ holder[i] \in {NoClient, c}
    BY <1>1, <1>2, <1>3 DEF CrateOK
  <2>2. ~touching => /\ g # Never /\ g <= u /\ u <= now /\ g + ClaimRelease <= e
    <3>1. CASE holder[i] = c
      <4>1. k.expires = 0 /\ untouched[i] = Never
        BY <1>1, <1>2, <1>3, <3>1 DEF CrateOK
      <4> QED
        BY <1>3, <1>4, <1>5, <1>7, <3>1, <4>1 DEF Never
    <3>2. CASE holder[i] # c
      <4>1. /\ letGo[i] # Never /\ letGo[i] <= untouched[i] /\ untouched[i] <= now
            /\ letGo[i] + ClaimRelease <= k.expires
        BY <1>1, <1>2, <1>3, <2>1, <3>2 DEF CrateOK
      <4>2. untouched[i] # Never /\ k.expires > 0
        BY <1>3, <4>1, ConstantFacts DEF Never
      <4> QED
        BY <1>3, <1>4, <1>5, <1>7, <3>2, <4>1, <4>2
    <3> QED
      BY <3>1, <3>2
  <2>3. u # Never => Timer("right", i, u) \in timers'
    BY <1>2, <1>5, <1>9, <1>18 DEF CrateOK
  <2>4. a # Never => out /\ i \notin replaced /\ Timer("replenish", i, a) \in timers'
    BY <1>2, <1>6, <1>9, <1>18 DEF CrateOK
  <2>5. h # NoClient => e = 0 /\ u = Never
    BY <1>4, <1>5, <1>11
  <2>6. h = NoClient => ~touching
    BY <1>3, <1>11
  <2>7. h \in {NoClient, c} /\ k.world = world[c]
    BY <1>1, <1>11
  <2>8. k.here /\ UNCHANGED <<now, world, spawns, replaced, drawn>> /\ c # NoClient
    BY <1>1, <1>3
  <2>9. /\ cargo'[i].expires = e /\ cargo'[i].owner = c /\ cargo'[i].here
        /\ cargo'[i].world = k.world /\ cargo'[i].out = out
    BY <1>12, <1>14, <2>8
  <2>10. untouched'[i] = u /\ away'[i] = a /\ holder'[i] = h /\ letGo'[i] = g
    BY <1>14
  <2>11. h = NoClient => /\ g # Never /\ g <= u /\ u <= now
                         /\ g + ClaimRelease <= e
    BY <2>2, <2>6
  <2> QED
    BY <2>1, <2>3, <2>4, <2>5, <2>7, <2>8, <2>9, <2>10, <2>11 DEF CrateOK
<1> QED
  BY <1>1, <1>14, <1>15, <1>16, <1>17, <1>18, <1>19, OnlyThisCrate

-----------------------------------------------------------------------------
(* Timers *)

\* A timer that fires for nothing: the crate has another stamp by now.
LEMMA Disarmed ==
  ASSUME IInv, NEW t \in timers, timers' = timers \ {t},
         UNCHANGED <<now, world, cargo, spawns, away, untouched, touched, replaced,
                     drawn, holder, letGo>>,
         cargo[t.crate].owner # NoClient /\ world[cargo[t.crate].owner] # cargo[t.crate].world
           => t # Release(t.crate, cargo[t.crate].owner, cargo[t.crate].expires),
         untouched[t.crate] # Never => t # Timer("right", t.crate, untouched[t.crate]),
         away[t.crate] # Never => t # Timer("replenish", t.crate, away[t.crate])
  PROVE  IInv'
<1>1. /\ TypeOK /\ TimersAreStamped /\ OneCrateEach
      /\ \A i \in Crates : CrateOK(i)
  BY CrateByCrate
<1>2. PICK i \in Crates : i = t.crate
  BY <1>1, ATimer
<1>3. TypeOK'
  BY <1>1 DEF TypeOK
<1>4. TimersAreStamped'
  BY <1>1 DEF TimersAreStamped
<1>5. OneCrateEach'
  BY <1>1, OneCrateUnchanged DEF TypeOK, Crates
<1>6. CrateOK(i)'
  BY <1>1, <1>2 DEF CrateOK
<1> QED
  BY <1>2, <1>3, <1>4, <1>5, <1>6, OnlyThisCrate

LEMMA OwnerFree ==
  ASSUME TypeOK, TimersAreStamped, NEW i \in Crates, CrateOK(i),
         cargo[i].owner = NoClient \/ cargo[i].expires > 0 \/ untouched[i] # Never
  PROVE  holder[i] = NoClient
BY CrateFields DEF CrateOK

LEMMA CargoClaimReleaseIInv ==
  ASSUME IInv, NEW t \in timers, CargoClaimRelease(t)
  PROVE  IInv'
<1>1. /\ TypeOK /\ TimersAreStamped /\ OneCrateEach
      /\ \A i \in Crates : CrateOK(i)
  BY CrateByCrate
<1>2. PICK i \in Crates : i = t.crate
  BY <1>1, ATimer
<1>3. /\ t.kind = "release" /\ timers' = timers \ {t}
      /\ UNCHANGED <<now, world, spawns, away, untouched, touched, replaced,
                     drawn, holder>>
  BY DEF CargoClaimRelease
<1>4. \A s \in Nat : t # Timer("right", i, s) /\ t # Timer("replenish", i, s)
  BY <1>3 DEF Timer
<1>5. untouched[i] \in Nat /\ away[i] \in Nat
  BY <1>1, CrateFields
<1>6. CASE ~ClaimIsOver(t)
  <2>1. UNCHANGED <<cargo, letGo>>
    BY <1>6 DEF CargoClaimRelease
  <2>2. cargo[i].owner # NoClient /\ world[cargo[i].owner] # cargo[i].world
          => t # Release(i, cargo[i].owner, cargo[i].expires)
    BY <1>2, <1>6 DEF ClaimIsOver, Release
  <2> QED
    BY <1>2, <1>3, <1>4, <1>5, <2>1, <2>2, Disarmed
<1>7. CASE ClaimIsOver(t)
  <2> DEFINE k == cargo[i]
             n == [k EXCEPT !.owner = NoClient, !.expires = 0]
  <2>1. /\ cargo' = [cargo EXCEPT ![i] = n] /\ letGo' = [letGo EXCEPT ![i] = Never]
        /\ k = cargo[i] /\ n = [k EXCEPT !.owner = NoClient, !.expires = 0]
    BY <1>2, <1>7 DEF CargoClaimRelease
  <2>2. k \in Crate /\ Never \in Nat
    BY <1>1, CrateFields DEF Never
  <2> HIDE DEF k, n
  <2>3. /\ n \in Crate /\ n.expires = 0 /\ n.owner = NoClient
        /\ n.here = k.here /\ n.world = k.world /\ n.out = k.out
    BY <2>1, <2>2 DEF Crate
  <2>4. TypeOK'
    BY <1>1, <1>3, <2>1, <2>2, <2>3 DEF TypeOK
  <2>5. /\ cargo'[i] = n
        /\ \A j \in Crates \ {i} : cargo'[j] = cargo[j] /\ letGo'[j] = letGo[j]
    BY <1>1, <2>1 DEF TypeOK
  <2>6. holder[i] = NoClient
    <3>1. cargo[i].expires > 0
      BY <1>1, <1>2, <1>7 DEF ClaimIsOver, TimersAreStamped
    <3> QED
      BY <1>1, <3>1, OwnerFree
  <2>7. TimersAreStamped'
    BY <1>1, <1>3 DEF TimersAreStamped
  <2>8. OneCrateEach'
    <3>1. \A j \in Crates : cargo'[j].here = cargo[j].here
      BY <2>1, <2>3, <2>5
    <3> QED
      BY <1>1, <1>3, <3>1, OneCrateUnchanged DEF TypeOK, Crates
  <2>9. k.here
    <3>1. t.owner \in Clients /\ k.owner = t.owner
      BY <1>1, <1>2, <1>3, <1>7, <2>1, ATimer DEF ClaimIsOver
    <3> QED
      BY <1>1, <2>1, <3>1, ConstantFacts DEF CrateOK
  <2>10. CrateOK(i)'
    <3>1. /\ k.world \in Worlds /\ spawns[i] \in Spawns
          /\ i \in BaseCrates => spawns[i] = SpawnOf[i]
          /\ i \in MoreCrates => i \in drawn
          /\ untouched[i] # Never => Timer("right", i, untouched[i]) \in timers
          /\ away[i] # Never => /\ k.out /\ i \notin replaced
                                /\ Timer("replenish", i, away[i]) \in timers
      BY <1>1, <2>1, <2>9 DEF CrateOK
    <3>2. /\ untouched[i] # Never => Timer("right", i, untouched[i]) \in timers'
          /\ away[i] # Never => Timer("replenish", i, away[i]) \in timers'
      BY <1>3, <1>4, <1>5, <3>1
    <3> QED
      BY <1>3, <2>3, <2>5, <2>6, <2>9, <3>1, <3>2 DEF CrateOK
  <2> QED
    BY <1>2, <1>3, <2>4, <2>5, <2>7, <2>8, <2>10, OnlyThisCrate
<1> QED
  BY <1>6, <1>7

LEMMA CargoAutoRightIInv ==
  ASSUME IInv, NEW t \in timers, CargoAutoRight(t)
  PROVE  IInv'
<1>1. /\ TypeOK /\ TimersAreStamped /\ OneCrateEach
      /\ \A i \in Crates : CrateOK(i)
  BY CrateByCrate
<1>2. PICK i \in Crates : i = t.crate
  BY <1>1, ATimer
<1>3. /\ t.kind = "right" /\ timers' = timers \ {t}
      /\ UNCHANGED <<now, world, spawns, away, touched, replaced, drawn, holder>>
  BY DEF CargoAutoRight
<1>4. t.stamp > 0 /\ t.stamp \in Nat
  BY <1>1, ATimer DEF TimersAreStamped
<1>5. \A s \in Nat : t # Timer("replenish", i, s)
  BY <1>3 DEF Timer
<1>6. \A c \in Clients, s \in Nat : t # Release(i, c, s)
  BY <1>3 DEF Release
<1>7. /\ cargo[i].owner \in Clients \cup {NoClient} /\ cargo[i].expires \in Nat
      /\ away[i] \in Nat
  BY <1>1, CrateFields
<1>8. CASE ~(cargo[i].here /\ StillUntouched(t))
  <2>1. UNCHANGED <<cargo, untouched, letGo>>
    BY <1>2, <1>8 DEF CargoAutoRight
  <2>2. untouched[i] # Never => t # Timer("right", i, untouched[i])
    <3>1. untouched[i] # Never => cargo[i].here
      BY <1>1 DEF CrateOK
    <3>2. t = Timer("right", i, untouched[i]) => t.stamp = untouched[i]
      BY DEF Timer
    <3> QED
      BY <1>2, <1>8, <3>1, <3>2 DEF StillUntouched
  <2> QED
    BY <1>2, <1>3, <1>5, <1>6, <1>7, <2>1, <2>2, Disarmed
<1>9. CASE cargo[i].here /\ StillUntouched(t)
  <2> DEFINE k == cargo[i]
             n == [k EXCEPT !.owner = NoClient, !.expires = 0]
  <2>1. /\ cargo' = [cargo EXCEPT ![i] = n] /\ letGo' = [letGo EXCEPT ![i] = Never]
        /\ untouched' = [untouched EXCEPT ![i] = Never]
        /\ k = cargo[i] /\ n = [k EXCEPT !.owner = NoClient, !.expires = 0]
        /\ k.here /\ untouched[i] = t.stamp
    BY <1>2, <1>9 DEF CargoAutoRight, StillUntouched
  <2>2. k \in Crate /\ Never \in Nat
    BY <1>1, CrateFields DEF Never
  <2> HIDE DEF k, n
  <2>3. /\ n \in Crate /\ n.expires = 0 /\ n.owner = NoClient
        /\ n.here = k.here /\ n.world = k.world /\ n.out = k.out
    BY <2>1, <2>2 DEF Crate
  <2>4. TypeOK'
    BY <1>1, <1>3, <2>1, <2>2, <2>3 DEF TypeOK
  <2>5. /\ cargo'[i] = n /\ untouched'[i] = Never
        /\ \A j \in Crates \ {i} : /\ cargo'[j] = cargo[j] /\ letGo'[j] = letGo[j]
                                  /\ untouched'[j] = untouched[j]
    BY <1>1, <2>1 DEF TypeOK
  <2>6. holder[i] = NoClient
    BY <1>1, <1>4, <2>1, OwnerFree DEF Never
  <2>7. TimersAreStamped'
    BY <1>1, <1>3 DEF TimersAreStamped
  <2>8. OneCrateEach'
    <3>1. \A j \in Crates : cargo'[j].here = cargo[j].here
      BY <2>1, <2>3, <2>5
    <3> QED
      BY <1>1, <1>3, <3>1, OneCrateUnchanged DEF TypeOK, Crates
  <2>9. CrateOK(i)'
    <3>1. /\ k.world \in Worlds /\ spawns[i] \in Spawns
          /\ i \in BaseCrates => spawns[i] = SpawnOf[i]
          /\ i \in MoreCrates => i \in drawn
          /\ away[i] # Never => /\ k.out /\ i \notin replaced
                                /\ Timer("replenish", i, away[i]) \in timers
      BY <1>1, <2>1 DEF CrateOK
    <3>2. /\ away[i] # Never => Timer("replenish", i, away[i]) \in timers'
          /\ k.here
      BY <1>3, <1>5, <1>7, <2>1, <3>1
    <3> QED
      BY <1>3, <2>3, <2>5, <2>6, <3>1, <3>2 DEF CrateOK
  <2> QED
    BY <1>2, <1>3, <2>4, <2>5, <2>7, <2>8, <2>9, OnlyThisCrate
<1> QED
  BY <1>8, <1>9

LEMMA NoReplenishmentIInv ==
  ASSUME IInv, NEW t \in timers, NoReplenishment(t)
  PROVE  IInv'
<1>1. TypeOK /\ \A i \in Crates : CrateOK(i)
  BY CrateByCrate
<1>2. PICK i \in Crates : i = t.crate
  BY <1>1, ATimer
<1>3. /\ t.kind = "replenish" /\ timers' = timers \ {t} /\ ~StillAway(t)
      /\ UNCHANGED <<now, world, cargo, spawns, away, untouched, touched,
                     replaced, drawn, holder, letGo>>
  BY DEF NoReplenishment
<1>4. \A s : t # Timer("right", i, s)
  BY <1>3 DEF Timer
<1>5. \A c, s : t # Release(i, c, s)
  BY <1>3 DEF Release
<1>6. away[i] # Never => t # Timer("replenish", i, away[i])
  <2>1. away[i] # Never => cargo[i].here /\ cargo[i].out /\ i \notin replaced
    BY <1>1 DEF CrateOK
  <2>2. t = Timer("replenish", i, away[i]) => t.stamp = away[i]
    BY DEF Timer
  <2> QED
    BY <1>2, <1>3, <2>1, <2>2 DEF StillAway
<1> QED
  BY <1>2, <1>3, <1>4, <1>5, <1>6, Disarmed

\* The replacement takes over the spawn of the crate that was taken away.
LEMMA CargoReplenishmentIInv ==
  ASSUME IInv, NEW t \in timers, NEW j \in MoreCrates, CargoReplenishment(t, j)
  PROVE  /\ IInv'
         /\ \A x \in Crates : cargo'[x].owner = cargo[x].owner
<1>1. /\ TypeOK /\ TimersAreStamped /\ OneCrateEach
      /\ \A x \in Crates : CrateOK(x)
  BY CrateByCrate
<1>2. PICK i \in Crates : i = t.crate
  BY <1>1, ATimer
<1> DEFINE k == cargo[i].world
           n == NewCrate(k)
<1>3. /\ cargo[i].here /\ i \notin replaced /\ j \notin drawn
      /\ drawn' = drawn \cup {j}
      /\ cargo' = [cargo EXCEPT ![j] = n]
      /\ spawns' = [spawns EXCEPT ![j] = spawns[i]]
      /\ touched' = [touched EXCEPT ![j] = now]
      /\ replaced' = replaced \cup {i}
      /\ away' = [away EXCEPT ![i] = Never]
      /\ timers' = (timers \ {t}) \cup {Timer("cleanup", j, now)}
      /\ t.kind = "replenish"
      /\ UNCHANGED <<now, world, untouched, holder, letGo>>
  BY <1>2 DEF CargoReplenishment, StillAway, ReplacedAfter, SpawnsAfter
<1>4. /\ j \in Crates /\ j \notin BaseCrates /\ now \in Nat /\ now > 0 /\ Never \in Nat
      /\ drawn \subseteq MoreCrates
  BY <1>1, ConstantsAssumption DEF Crates, TypeOK, TimersAreStamped, Never
<1>5. /\ ~cargo[j].here /\ cargo[j] = NoCrate /\ j \notin replaced /\ i # j
      /\ holder[j] = NoClient /\ untouched[j] = Never /\ away[j] = Never
      /\ cargo[j].owner = NoClient
  BY <1>1, <1>3, <1>4, ConstantFacts DEF CrateOK
<1>6. /\ cargo[i].world \in Worlds /\ spawns[i] \in Spawns
      /\ i \in BaseCrates => spawns[i] = SpawnOf[i]
      /\ i \in MoreCrates => i \in drawn
  BY <1>1, <1>3 DEF CrateOK
<1> HIDE DEF k
<1>7. /\ n \in Crate /\ n.here /\ n.world = k /\ n.owner = NoClient /\ n.out = FALSE
      /\ n.expires = 0
  BY <1>6 DEF NewCrate, Crate, k
<1> HIDE DEF n
<1>8. /\ cargo'[j] = n /\ spawns'[j] = spawns[i] /\ away'[i] = Never
      /\ away'[j] = Never
      /\ \A x \in Crates \ {j} : cargo'[x] = cargo[x] /\ spawns'[x] = spawns[x]
      /\ \A x \in Crates \ {i} : away'[x] = away[x]
  BY <1>1, <1>3, <1>4, <1>5 DEF TypeOK
<1>14. Timer("cleanup", j, now) \in Timers /\ Timer("cleanup", j, now).stamp = now
  BY <1>4 DEF Timer, Timers
<1>15. \A u \in timers' : u \in timers \/ u = Timer("cleanup", j, now)
  BY <1>3
<1>9. TypeOK'
  <2>1. timers' \subseteq Timers
    BY <1>1, <1>14, <1>15 DEF TypeOK
  <2>2. /\ cargo' \in [Crates -> Crate] /\ spawns' \in [Crates -> Spawns \cup {NoSpawn}]
        /\ touched' \in [Crates -> Nat] /\ away' \in [Crates -> Nat]
    BY <1>1, <1>3, <1>4, <1>6, <1>7 DEF TypeOK
  <2>3. replaced' \subseteq Crates /\ drawn' \subseteq MoreCrates
    BY <1>1, <1>2, <1>3 DEF TypeOK
  <2>4. UNCHANGED <<now, world, untouched, holder, letGo>>
    BY <1>3
  <2> QED
    BY <1>1, <2>1, <2>2, <2>3, <2>4 DEF TypeOK
<1>10. TimersAreStamped'
  <2>1. now' = now
    BY <1>3
  <2> QED
    BY <1>1, <1>4, <1>14, <1>15, <2>1 DEF TimersAreStamped
<1>11. ASSUME NEW x \in Crates PROVE CrateOK(x)'
  <2>1. CASE x = j
    BY <1>3, <1>4, <1>5, <1>6, <1>7, <1>8, <2>1 DEF CrateOK, k
  <2>2. CASE x = i
    <3>1. /\ CrateOK(i) /\ cargo'[i] = cargo[i] /\ spawns'[i] = spawns[i]
          /\ i \in MoreCrates => i \in drawn'
      BY <1>1, <1>3, <1>5, <1>6, <1>8
    <3>2. cargo[i].owner \in Clients \cup {NoClient} /\ cargo[i].expires \in Nat
          /\ untouched[i] \in Nat
      BY <1>1, CrateFields
    <3>3. /\ \A c, s : t # Release(i, c, s)
          /\ \A s : t # Timer("right", i, s)
      BY <1>3 DEF Release, Timer
    <3>4. /\ \A c, s : Release(i, c, s) \in timers => Release(i, c, s) \in timers'
          /\ \A s : Timer("right", i, s) \in timers => Timer("right", i, s) \in timers'
      BY <1>3, <3>3
    <3>5. UNCHANGED <<now, world, untouched, holder, letGo>>
      BY <1>3
    <3> QED
      BY <1>3, <1>8, <2>2, <3>1, <3>4, <3>5 DEF CrateOK
  <2>3. CASE x # i /\ x # j
    <3>1. CrateOK(x) /\ now' \in Nat /\ now <= now'
      BY <1>1, <1>3, <1>4
    <3>2. \A u \in timers : u.crate = x => u \in timers'
      BY <1>2, <1>3, <2>3
    <3> QED
      BY <1>1, <1>3, <1>8, <2>3, <3>1, <3>2, OtherCrate
  <2> QED
    BY <2>1, <2>2, <2>3
<1>12. OneCrateEach'
  <2> SUFFICES ASSUME NEW s \in Spawns
               PROVE  /\ \A x, y \in Current(s)' : x = y
                      /\ (Current(s) # {} \/ Missing(s))'
    BY DEF OneCrateEach
  <2>1. /\ \A x, y \in Current(s) : x = y
        /\ Current(s) # {} \/ Missing(s)
    BY <1>1 DEF OneCrateEach
  <2>2. i \in Current(spawns[i]) /\ i \in Crates
    BY <1>3 DEF Current
  <2>3. \A x \in Current(s)' : (x = j /\ s = spawns[i]) \/ (x \in Current(s) /\ x # i)
    BY <1>3, <1>8 DEF Current
  <2>4. \A x \in Current(s) : x # i => x \in Current(s)'
    <3> SUFFICES ASSUME NEW x \in Current(s), x # i PROVE x \in Current(s)'
      OBVIOUS
    <3>1. x # j /\ x \in Crates
      BY <1>5 DEF Current
    <3> QED
      BY <1>3, <1>8, <3>1 DEF Current
  <2>5. s = spawns[i] => j \in Current(s)'
    BY <1>3, <1>4, <1>5, <1>7, <1>8 DEF Current
  <2>6. Missing(s) => Missing(s)'
    <3>1. \A x \in BaseCrates \cup drawn : x # j /\ x \in Crates
      BY <1>3, <1>4 DEF Crates
    <3> QED
      BY <1>3, <1>8, <3>1 DEF Missing
  <2>7. \A x, y \in Current(s)' : x = y
    BY <2>1, <2>2, <2>3
  <2>8. Current(s) # {} => Current(s)' # {}
    <3>1. CASE s = spawns[i]
      BY <2>5, <3>1
    <3>2. CASE s # spawns[i]
      <4>1. i \notin Current(s)
        BY <3>2 DEF Current
      <4> QED
        BY <2>4, <4>1
    <3> QED
      BY <3>1, <3>2
  <2> QED
    BY <2>1, <2>6, <2>7, <2>8
<1>13. \A x \in Crates : cargo'[x].owner = cargo[x].owner
  BY <1>5, <1>7, <1>8
<1> QED
  BY <1>9, <1>10, <1>11, <1>12, <1>13, CrateByCrateNext

\* The crate that is removed was nobody's, and its spawn counts as given up.
LEMMA CargoCleanupIInv ==
  ASSUME IInv, NEW t \in timers, CargoCleanup(t)
  PROVE  /\ IInv'
         /\ \A x \in Crates : cargo'[x].owner = cargo[x].owner
<1>1. /\ TypeOK /\ TimersAreStamped /\ OneCrateEach
      /\ \A x \in Crates : CrateOK(x)
  BY CrateByCrate
<1>2. PICK i \in Crates : i = t.crate
  BY <1>1, ATimer
<1>3. t.kind = "cleanup" /\ timers' = timers \ {t}
      /\ UNCHANGED <<now, world, drawn, holder, letGo>>
  BY DEF CargoCleanup
<1>4. /\ \A c, s : t # Release(i, c, s)
      /\ \A s : t # Timer("right", i, s) /\ t # Timer("replenish", i, s)
  BY <1>3 DEF Release, Timer
<1>5. CASE UNCHANGED <<cargo, spawns, away, untouched, touched, replaced>>
  BY <1>2, <1>3, <1>4, <1>5, Disarmed
<1>6. CASE /\ cargo[i].here /\ cargo[i].owner = NoClient
           /\ cargo' = [cargo EXCEPT ![i] = NoCrate]
           /\ spawns' = [spawns EXCEPT ![i] = NoSpawn]
           /\ away' = [away EXCEPT ![i] = Never]
           /\ untouched' = [untouched EXCEPT ![i] = Never]
           /\ touched' = [touched EXCEPT ![i] = Never]
           /\ replaced' = replaced \ {i}
  <2>1. /\ cargo'[i] = NoCrate /\ spawns'[i] = NoSpawn /\ away'[i] = Never
        /\ untouched'[i] = Never
        /\ \A x \in Crates \ {i} :
             /\ cargo'[x] = cargo[x] /\ spawns'[x] = spawns[x]
             /\ away'[x] = away[x] /\ untouched'[x] = untouched[x]
    BY <1>1, <1>6 DEF TypeOK
  <2>2. TypeOK'
    <3>1. Never \in Nat
      BY DEF Never
    <3> QED
      BY <1>1, <1>3, <1>6, <3>1, ConstantFacts DEF TypeOK
  <2>3. TimersAreStamped'
    BY <1>1, <1>3 DEF TimersAreStamped
  <2>4. holder[i] = NoClient /\ i \notin replaced'
    BY <1>1, <1>6 DEF CrateOK
  <2>5. CrateOK(i)'
    BY <1>3, <2>1, <2>4, ConstantFacts DEF CrateOK
  <2>6. OneCrateEach'
    <3> SUFFICES ASSUME NEW s \in Spawns
                 PROVE  /\ \A x, y \in Current(s)' : x = y
                        /\ (Current(s) # {} \/ Missing(s))'
      BY DEF OneCrateEach
    <3>1. /\ \A x, y \in Current(s) : x = y
          /\ Current(s) # {} \/ Missing(s)
      BY <1>1 DEF OneCrateEach
    <3>2. ~cargo'[i].here
      BY <2>1, ConstantFacts
    <3>3. \A x \in Current(s)' : x \in Current(s)
      BY <1>6, <2>1, <3>2 DEF Current
    <3>4. \A x \in Current(s) : x # i => x \in Current(s)'
      BY <1>6, <2>1 DEF Current
    <3>5. i \in Current(s) => Missing(s)'
      <4>1. i \in BaseCrates => spawns[i] = SpawnOf[i]
        BY <1>1, <1>6 DEF CrateOK
      <4>2. i \in MoreCrates => i \in drawn'
        BY <1>1, <1>3, <1>6 DEF CrateOK
      <4>3. i \in BaseCrates \/ i \in MoreCrates
        BY DEF Crates
      <4> QED
        BY <3>2, <4>1, <4>2, <4>3 DEF Current, Missing
    <3>6. Missing(s) => Missing(s)'
      <4>1. \A x \in BaseCrates \cup drawn : x \in Crates
        BY <1>1 DEF Crates, TypeOK
      <4> QED
        BY <1>3, <2>1, <3>2, <4>1 DEF Missing
    <3> QED
      BY <3>1, <3>3, <3>4, <3>5, <3>6
  <2>7. IInv'
    BY <1>2, <1>3, <1>6, <2>1, <2>2, <2>3, <2>5, <2>6, OnlyThisCrate
  <2>8. \A x \in Crates : cargo'[x].owner = cargo[x].owner
    BY <1>6, <2>1, ConstantFacts
  <2> QED
    BY <2>7, <2>8
<1> QED
  BY <1>2, <1>5, <1>6 DEF CargoCleanup, IsStale

LEMMA TickIInv ==
  ASSUME IInv, Tick
  PROVE  IInv'
<1>1. /\ TypeOK /\ TimersAreStamped /\ OneCrateEach
      /\ \A x \in Crates : CrateOK(x)
  BY CrateByCrate
<1>2. /\ now' = now + 1
      /\ UNCHANGED <<world, cargo, spawns, away, untouched, touched, replaced,
                     timers, drawn, holder, letGo>>
  BY DEF Tick
<1>3. now \in Nat /\ now' \in Nat /\ now <= now' /\ now' > 0
  BY <1>1, <1>2 DEF TypeOK
<1>4. TypeOK'
  BY <1>1, <1>2, <1>3 DEF TypeOK
<1>5. TimersAreStamped'
  BY <1>1, <1>2, <1>3 DEF TimersAreStamped
<1>6. OneCrateEach'
  BY <1>1, <1>2, OneCrateUnchanged DEF TypeOK, Crates
<1>7. \A x \in Crates : CrateOK(x)'
  BY <1>1, <1>2, <1>3, OtherCrate
<1> QED
  BY <1>4, <1>5, <1>6, <1>7, CrateByCrateNext

-----------------------------------------------------------------------------
(* The specification *)

LEMMA InitIInv == Init => IInv
<1> SUFFICES ASSUME Init PROVE IInv
  OBVIOUS
<1> USE DEF Init
<1>1. \A i \in BaseCrates :
        /\ i \notin MoreCrates /\ SpawnOf[i] \in Spawns /\ SpawnWorld[SpawnOf[i]] \in Worlds
  BY ConstantsAssumption
<1>2. \A w \in Worlds : /\ NewCrate(w) \in Crate /\ NewCrate(w).here
                        /\ NewCrate(w).world = w /\ NewCrate(w).owner = NoClient
  BY DEF NewCrate, Crate
<1>3. \A i \in Crates :
        /\ i \in BaseCrates => cargo[i] = NewCrate(SpawnWorld[SpawnOf[i]])
                               /\ spawns[i] = SpawnOf[i]
        /\ i \notin BaseCrates => cargo[i] = NoCrate /\ spawns[i] = NoSpawn
  OBVIOUS
<1>4. \A i \in Crates : /\ cargo[i] \in Crate /\ cargo[i].owner = NoClient
                        /\ cargo[i].here <=> i \in BaseCrates
                        /\ spawns[i] \in Spawns \cup {NoSpawn}
  BY <1>1, <1>2, <1>3, ConstantFacts
<1>5. TypeOK
  <2>1. /\ cargo \in [Crates -> Crate] /\ spawns \in [Crates -> Spawns \cup {NoSpawn}]
    BY <1>4
  <2> QED
    BY <2>1 DEF TypeOK, Never
<1>6. TimersAreStamped
  BY DEF TimersAreStamped
<1>7. ASSUME NEW i \in Crates PROVE CrateOK(i)
  <2>1. holder[i] = NoClient /\ untouched[i] = Never /\ away[i] = Never /\ i \notin replaced
    OBVIOUS
  <2>2. CASE i \in BaseCrates
    <3>1. cargo[i].here /\ cargo[i].world \in Worlds /\ spawns[i] = SpawnOf[i]
          /\ spawns[i] \in Spawns /\ cargo[i].owner = NoClient /\ i \notin MoreCrates
      BY <1>1, <1>2, <1>3, <1>4, <2>2
    <3> QED
      BY <2>1, <2>2, <3>1 DEF CrateOK
  <2>3. CASE i \notin BaseCrates
    <3>1. cargo[i] = NoCrate /\ ~cargo[i].here /\ cargo[i].owner = NoClient
      BY <1>3, <2>3, ConstantFacts
    <3> QED
      BY <2>1, <3>1 DEF CrateOK
  <2> QED
    BY <2>2, <2>3
<1>8. OneCrateEach
  <2> SUFFICES ASSUME NEW s \in Spawns
               PROVE  /\ \A x, y \in Current(s) : x = y
                      /\ Current(s) # {}
    BY DEF OneCrateEach
  <2>1. \A x \in Current(s) : x \in BaseCrates /\ SpawnOf[x] = s
    BY <1>3, <1>4 DEF Current
  <2>2. PICK b \in BaseCrates : SpawnOf[b] = s
    BY ConstantsAssumption
  <2>3. b \in Current(s)
    BY <1>3, <1>4, <2>2 DEF Current, Crates
  <2> QED
    BY <2>1, <2>3, ConstantsAssumption
<1> QED
  BY <1>5, <1>6, <1>7, <1>8, CrateByCrate

LEMMA UnchangedIInv ==
  ASSUME IInv, UNCHANGED vars
  PROVE  IInv'
<1>1. /\ TypeOK /\ TimersAreStamped /\ OneCrateEach
      /\ \A x \in Crates : CrateOK(x)
  BY CrateByCrate
<1> USE DEF vars
<1>2. TypeOK' /\ TimersAreStamped'
  BY <1>1 DEF TypeOK, TimersAreStamped
<1>3. OneCrateEach'
  BY <1>1, OneCrateUnchanged DEF TypeOK, Crates
<1>4. \A x \in Crates : CrateOK(x)'
  BY <1>1 DEF CrateOK
<1> QED
  BY <1>2, <1>3, <1>4, CrateByCrateNext

LEMMA NextIInv ==
  ASSUME IInv, [Next]_vars
  PROVE  IInv'
<1>1. CASE \E c \in Clients :
             \/ \E w \in Worlds : HandlePresence(c, w)
             \/ Depart(c)
             \/ \E i \in Crates :
                  \/ HandleCargoClaim(c, i)
                  \/ \E out, touching \in BOOLEAN : HandleCargoUpdate(c, i, out, touching)
  BY <1>1, HandlePresenceIInv, DepartIInv, HandleCargoClaimIInv, HandleCargoUpdateIInv
<1>2. CASE \E t \in timers :
             \/ CargoClaimRelease(t)
             \/ CargoAutoRight(t)
             \/ \E j \in MoreCrates : CargoReplenishment(t, j)
             \/ NoReplenishment(t)
             \/ CargoCleanup(t)
  BY <1>2, CargoClaimReleaseIInv, CargoAutoRightIInv, CargoReplenishmentIInv,
     NoReplenishmentIInv, CargoCleanupIInv
<1>3. CASE Tick
  BY <1>3, TickIInv
<1>4. CASE UNCHANGED vars
  BY <1>4, UnchangedIInv
<1> QED
  BY <1>1, <1>2, <1>3, <1>4 DEF Next

\* The inductive invariant holds in every reachable state of Cargo.
THEOREM Invariance == Spec => []IInv
<1>1. Init => IInv
  BY InitIInv
<1>2. IInv /\ [Next]_vars => IInv'
  BY NextIInv
<1> QED
  BY <1>1, <1>2, PTL DEF Spec

\* The crates, their time stamps and the timers always have their types.
THEOREM TypeCorrect == Spec => []TypeOK
<1>1. IInv => TypeOK
  BY DEF IInv
<1> QED
  BY <1>1, Invariance, PTL

\* A driver who is in contact with a crate owns it without an expiry, so that
\* neither scheduleCargoClaimRelease, nor the auto-right or the cleanup, nor
\* the claim of another driver takes it away.
THEOREM ContactAlwaysKeeps == Spec => []ContactKeepsClaim
<1>1. IInv => ContactKeepsClaim
  <2> SUFFICES ASSUME IInv, NEW i \in Crates, holder[i] # NoClient
               PROVE  cargo[i].here /\ cargo[i].owner = holder[i] /\ cargo[i].expires = 0
    BY DEF ContactKeepsClaim
  <2>1. CrateOK(i)
    BY CrateByCrate
  <2> QED
    BY <2>1, ConstantFacts DEF CrateOK
<1> QED
  BY <1>1, Invariance, PTL

\* leaveWorld, Unregister and a change of room never orphan a crate: its claim
\* has an expiry and the timer for it.
THEOREM OrphansAreReleased == Spec => []OrphanIsReleased
<1>1. IInv => OrphanIsReleased
  BY DEF IInv
<1> QED
  BY <1>1, Invariance, PTL

\* The stamps of cargoUntouched and cargoAwaySince have their timers armed.
THEOREM StampsAreArmed == Spec => [](UntouchedIsArmed /\ AwayIsArmed)
<1>1. IInv => UntouchedIsArmed /\ AwayIsArmed
  BY DEF IInv
<1> QED
  BY <1>1, Invariance, PTL

\* replenishCargoLocked gives a spawn one new crate for one that was taken, and
\* cleanupStaleCargoLocked alone leaves a spawn without.
THEOREM SpawnsHaveOneCrate == Spec => []SpawnHasOneCrate
<1>1. IInv => SpawnHasOneCrate
  <2> SUFFICES ASSUME IInv, NEW s \in Spawns
               PROVE  /\ Cardinality(Current(s)) <= 1
                      /\ \/ Current(s) # {}
                         \/ \E i \in BaseCrates : SpawnOf[i] = s /\ ~cargo[i].here
                         \/ \E j \in drawn : ~cargo[j].here
    BY DEF SpawnHasOneCrate
  <2>1. \A x, y \in Current(s) : x = y
    BY DEF IInv, OneCrateEach
  <2>2. Cardinality(Current(s)) <= 1
    <3>1. CASE Current(s) = {}
      BY <3>1, FS_EmptySet
    <3>2. CASE Current(s) # {}
      <4>1. PICK x : x \in Current(s)
        BY <3>2
      <4>2. Current(s) = {x}
        BY <2>1, <4>1
      <4> QED
        BY <4>2, FS_Singleton
    <3> QED
      BY <3>1, <3>2
  <2> QED
    BY <2>2 DEF IInv, OneCrateEach, Missing
<1> QED
  BY <1>1, Invariance, PTL

-----------------------------------------------------------------------------
(* The grace of a claim *)

GraceStep ==
  \A i \in Crates :
    cargo[i].owner # NoClient /\ cargo'[i].owner # cargo[i].owner =>
      letGo[i] # Never /\ now >= letGo[i] + ClaimRelease

\* A crate that was let go of and whose expiry, or whose time untouched, has
\* passed has had its grace.
LEMMA GraceIsOver ==
  ASSUME IInv, NEW i \in Crates, cargo[i].owner # NoClient,
         \/ cargo[i].expires > 0 /\ cargo[i].expires <= now
         \/ untouched[i] # Never /\ untouched[i] + AutoRight <= now
  PROVE  letGo[i] # Never /\ now >= letGo[i] + ClaimRelease
<1>1. TypeOK /\ TimersAreStamped /\ CrateOK(i)
  BY CrateByCrate
<1>2. /\ cargo[i].expires \in Nat /\ untouched[i] \in Nat /\ letGo[i] \in Nat
      /\ now \in Nat
  BY <1>1, CrateFields
<1>3. holder[i] = NoClient
  BY <1>1, OwnerFree
<1>4. /\ letGo[i] # Never /\ letGo[i] <= untouched[i]
      /\ letGo[i] + ClaimRelease <= cargo[i].expires
  BY <1>1, <1>3 DEF CrateOK
<1> QED
  BY <1>2, <1>4, ConstantFacts

LEMMA MarkKeepsOwners ==
  ASSUME TypeOK, NEW c \in Clients, MarkForRelease(c)
  PROVE  GraceStep
<1> SUFFICES ASSUME NEW i \in Crates PROVE cargo'[i].owner = cargo[i].owner
  BY DEF GraceStep
<1>1. cargo[i] \in Crate
  BY CrateFields
<1>2. cargo'[i] = [cargo[i] EXCEPT !.expires = now + ClaimRelease] \/ cargo'[i] = cargo[i]
  BY DEF MarkForRelease
<1> QED
  BY <1>1, <1>2 DEF Crate

\* A claim or a timer writes one crate; it is enough to look at that one.
LEMMA OneCrateGrace ==
  ASSUME TypeOK, NEW i \in Crates, NEW k, cargo' = [cargo EXCEPT ![i] = k],
         k.owner # cargo[i].owner /\ cargo[i].owner # NoClient =>
           letGo[i] # Never /\ now >= letGo[i] + ClaimRelease
  PROVE  GraceStep
<1>1. cargo'[i] = k /\ \A j \in Crates \ {i} : cargo'[j] = cargo[j]
  BY DEF TypeOK
<1> QED
  BY <1>1 DEF GraceStep

LEMMA GraceHolds ==
  ASSUME IInv, [Next]_vars
  PROVE  GraceStep
<1>1. TypeOK /\ TimersAreStamped
  BY CrateByCrate
<1>2. ASSUME cargo' = cargo PROVE GraceStep
  BY <1>2 DEF GraceStep
<1>3. ASSUME NEW c \in Clients, NEW w \in Worlds, HandlePresence(c, w)
      PROVE  GraceStep
  BY <1>1, <1>2, <1>3, MarkKeepsOwners DEF HandlePresence
<1>4. ASSUME NEW c \in Clients, Depart(c) PROVE GraceStep
  BY <1>1, <1>4, MarkKeepsOwners DEF Depart
<1>5. ASSUME NEW c \in Clients, NEW i \in Crates, HandleCargoClaim(c, i)
      PROVE  GraceStep
  <2>1. PICK k : cargo' = [cargo EXCEPT ![i] = k] /\ k.owner = c
    <3> DEFINE n == [cargo[i] EXCEPT !.owner = c, !.expires = 0]
    <3>1. n.owner = c
      BY <1>1, CrateFields DEF Crate
    <3>2. cargo' = [cargo EXCEPT ![i] = n]
      BY <1>5 DEF HandleCargoClaim
    <3> QED
      BY <3>1, <3>2
  <2>2. k.owner # cargo[i].owner /\ cargo[i].owner # NoClient =>
          letGo[i] # Never /\ now >= letGo[i] + ClaimRelease
    BY <1>5, <2>1, GraceIsOver DEF HandleCargoClaim, Claimable
  <2> QED
    BY <1>1, <2>1, <2>2, OneCrateGrace
<1>6. ASSUME NEW c \in Clients, NEW i \in Crates, NEW out \in BOOLEAN,
             NEW touching \in BOOLEAN, HandleCargoUpdate(c, i, out, touching)
      PROVE  GraceStep
  <2>1. PICK k : cargo' = [cargo EXCEPT ![i] = k] /\ k.owner = cargo[i].owner
    <3> DEFINE e == UpdatedExpiry(i, touching)
               n == [cargo[i] EXCEPT !.out = out, !.expires = e]
    <3>1. cargo' = [cargo EXCEPT ![i] = n]
      BY <1>6 DEF HandleCargoUpdate
    <3> HIDE DEF e
    <3>2. n.owner = cargo[i].owner
      BY <1>1, CrateFields DEF Crate
    <3> QED
      BY <3>1, <3>2
  <2> QED
    BY <1>1, <2>1, OneCrateGrace
<1>7. ASSUME NEW t \in timers, CargoClaimRelease(t) PROVE GraceStep
  <2>1. PICK i \in Crates : i = t.crate
    BY <1>1, ATimer
  <2>2. CASE ~ClaimIsOver(t)
    BY <1>2, <1>7, <2>2 DEF CargoClaimRelease
  <2>3. CASE ClaimIsOver(t)
    <3>1. cargo' = [cargo EXCEPT ![i] = [cargo[i] EXCEPT !.owner = NoClient, !.expires = 0]]
      BY <1>7, <2>1, <2>3 DEF CargoClaimRelease
    <3>2. cargo[i].expires > 0 /\ cargo[i].expires <= now
      BY <1>1, <1>7, <2>1, <2>3 DEF CargoClaimRelease, ClaimIsOver, TimersAreStamped
    <3>3. cargo[i].owner # NoClient => letGo[i] # Never /\ now >= letGo[i] + ClaimRelease
      BY <3>2, GraceIsOver
    <3> QED
      BY <1>1, <3>1, <3>3, OneCrateGrace
  <2> QED
    BY <2>2, <2>3
<1>8. ASSUME NEW t \in timers, CargoAutoRight(t) PROVE GraceStep
  <2>1. PICK i \in Crates : i = t.crate
    BY <1>1, ATimer
  <2>2. CASE ~(cargo[i].here /\ StillUntouched(t))
    BY <1>2, <1>8, <2>1, <2>2 DEF CargoAutoRight
  <2>3. CASE cargo[i].here /\ StillUntouched(t)
    <3>1. cargo' = [cargo EXCEPT ![i] = [cargo[i] EXCEPT !.owner = NoClient, !.expires = 0]]
      BY <1>8, <2>1, <2>3 DEF CargoAutoRight
    <3>2. t.stamp > 0 /\ t.stamp + AutoRight <= now /\ t.stamp = untouched[i]
      BY <1>1, <1>8, <2>1, <2>3 DEF CargoAutoRight, StillUntouched, TimersAreStamped
    <3>3. cargo[i].owner # NoClient => letGo[i] # Never /\ now >= letGo[i] + ClaimRelease
      BY <3>2, GraceIsOver DEF Never
    <3> QED
      BY <1>1, <3>1, <3>3, OneCrateGrace
  <2> QED
    BY <2>2, <2>3
<1>9. ASSUME NEW t \in timers,
             (\E j \in MoreCrates : CargoReplenishment(t, j)) \/ CargoCleanup(t)
      PROVE  GraceStep
  <2>1. \A x \in Crates : cargo'[x].owner = cargo[x].owner
    BY <1>9, CargoReplenishmentIInv, CargoCleanupIInv
  <2> QED
    BY <2>1 DEF GraceStep
<1>10. ASSUME NEW t \in timers, NoReplenishment(t) PROVE GraceStep
  BY <1>2, <1>10 DEF NoReplenishment
<1>11. CASE Tick
  BY <1>2, <1>11 DEF Tick
<1>12. CASE UNCHANGED vars
  BY <1>2, <1>12 DEF vars
<1> QED
  BY <1>3, <1>4, <1>5, <1>6, <1>7, <1>8, <1>9, <1>10, <1>11, <1>12 DEF Next

\* "cargo transferred before its release grace elapsed" (realtime_test.go): a
\* crate changes hands, or is given back, only cargoClaimReleaseDelay after its
\* owner let go of it, whichever timer, claim or departure comes.
THEOREM GraceIsAlwaysKept == Spec => GraceIsKept
<1>1. IInv /\ [Next]_vars => [GraceStep]_vars
  BY GraceHolds
<1>2. GraceStep <=> \A i \in Crates :
        cargo[i].owner # NoClient /\ cargo[i].owner' # cargo[i].owner =>
          letGo[i] # Never /\ now >= letGo[i] + ClaimRelease
  BY DEF GraceStep
<1> QED
  BY <1>1, <1>2, Invariance, PTL DEF Spec, GraceIsKept

-----------------------------------------------------------------------------
(* Part two: Chat *)

-----------------------------------------------------------------------------
(* The newest of a finite set *)

LEMMA Places ==
  ASSUME NEW n \in Nat
  PROVE  IsFiniteSet(0 .. n - 1) /\ Cardinality(0 .. n - 1) = n
<1>1. 0 \in Int /\ n - 1 \in Int
  OBVIOUS
<1>2. /\ IsFiniteSet(0 .. n - 1)
      /\ Cardinality(0 .. n - 1) = IF 0 > n - 1 THEN 0 ELSE (n - 1) - 0 + 1
  BY ONLY <1>1, FS_Interval
<1> QED
  BY <1>2

\* R is a strict order of D, B has what is before each and H the first n.
First(D, R, B, H, n) ==
  /\ \A i \in D : <<i, i>> \notin R
  /\ \A i, j, k \in D : <<i, j>> \in R /\ <<j, k>> \in R => <<i, k>> \in R
  /\ \A i, j \in D : i # j => <<i, j>> \in R \/ <<j, i>> \in R
  /\ \A j \in D : B[j] \subseteq D
  /\ \A i, j \in D : i \in B[j] <=> <<i, j>> \in R
  /\ H \subseteq D
  /\ \A j \in D : j \in H <=> Cardinality(B[j]) < n

\* In a strict order of a finite set those with fewer than n before them are n,
\* as soon as somebody has that many before it.
LEMMA TheFirst ==
  ASSUME NEW D, IsFiniteSet(D), NEW R, NEW B, NEW H, NEW n \in Nat,
         First(D, R, B, H, n), NEW k \in D, k \notin H
  PROVE  IsFiniteSet(H) /\ Cardinality(H) = n
<1>0. /\ \A i \in D : <<i, i>> \notin R
      /\ \A i, j, l \in D : <<i, j>> \in R /\ <<j, l>> \in R => <<i, l>> \in R
      /\ \A i, j \in D : i # j => <<i, j>> \in R \/ <<j, i>> \in R
      /\ \A j \in D : B[j] \subseteq D
      /\ \A i, j \in D : i \in B[j] <=> <<i, j>> \in R
      /\ H \subseteq D
      /\ \A j \in D : j \in H <=> Cardinality(B[j]) < n
  BY DEF First
<1> DEFINE Before(j) == B[j]
<1>1. PICK N \in Nat : N = Cardinality(D)
  BY FS_CardinalityType
<1>2. ASSUME NEW j \in D
      PROVE  /\ IsFiniteSet(Before(j)) /\ Cardinality(Before(j)) \in Nat
             /\ Cardinality(Before(j)) < N
  <2>1. IsFiniteSet(D \ {j}) /\ Cardinality(D \ {j}) = N - 1
    BY <1>1, FS_RemoveElement
  <2>2. Before(j) \in SUBSET (D \ {j})
    BY <1>0
  <2> HIDE DEF Before
  <2>3. IsFiniteSet(Before(j)) /\ Cardinality(Before(j)) <= N - 1
    BY <2>1, <2>2, FS_Subset
  <2>4. Cardinality(Before(j)) \in Nat
    BY <2>3, FS_CardinalityType
  <2> QED
    BY <1>1, <2>3, <2>4
<1>3. PICK rank : rank = [j \in D |-> Cardinality(Before(j))]
  OBVIOUS
<1>4. ASSUME NEW i \in D, NEW j \in D, <<i, j>> \in R
      PROVE  rank[i] < rank[j]
  <2>1. i \notin Before(i) /\ Before(i) \cup {i} \subseteq Before(j)
    BY <1>0, <1>4
  <2>2. IsFiniteSet(Before(i)) /\ IsFiniteSet(Before(j))
    BY <1>2
  <2> HIDE DEF Before
  <2>3. /\ Cardinality(Before(i) \cup {i}) = Cardinality(Before(i)) + 1
        /\ Cardinality(Before(i) \cup {i}) <= Cardinality(Before(j))
    BY <2>1, <2>2, FS_AddElement, FS_Subset
  <2>4. Cardinality(Before(i)) \in Nat /\ Cardinality(Before(j)) \in Nat
    BY <1>2
  <2> QED
    BY <1>3, <2>3, <2>4
<1> HIDE DEF Before
<1>5. rank \in [D -> 0 .. N - 1] /\ \A j \in D : rank[j] = Cardinality(Before(j))
  BY <1>1, <1>2, <1>3
<1>6. ASSUME NEW i \in D, NEW j \in D, rank[i] = rank[j]
      PROVE  i = j
  <2>1. rank[i] \in Int /\ ~(rank[i] < rank[j]) /\ ~(rank[j] < rank[i])
    BY <1>1, <1>5, <1>6
  <2> QED
    BY <1>0, <1>4, <2>1
<1>7. rank \in Injection(D, 0 .. N - 1)
  BY <1>5, <1>6 DEF Injection, IsInjective
<1>8. IsFiniteSet(0 .. N - 1) /\ Cardinality(0 .. N - 1) = N
  BY Places
<1>9. rank \in Surjection(D, 0 .. N - 1)
  BY <1>1, <1>7, <1>8, FS_Injection
<1>10. H = {j \in D : rank[j] < n} /\ n <= rank[k] /\ rank[k] < N
  <2>1. \A j \in D : j \in H <=> rank[j] < n
    BY <1>0, <1>5 DEF Before
  <2>2. rank[k] \in 0 .. N - 1 /\ ~(rank[k] < n)
    BY <1>5, <2>1
  <2> QED
    BY <1>0, <1>1, <2>1, <2>2
<1>11. PICK f : f = [j \in H |-> rank[j]]
  OBVIOUS
<1>12. f \in Bijection(H, 0 .. n - 1)
  <2>1. f \in [H -> 0 .. n - 1]
    BY <1>1, <1>5, <1>10, <1>11
  <2>2. \A i, j \in H : f[i] = f[j] => i = j
    BY <1>6, <1>10, <1>11
  <2>3. ASSUME NEW y \in 0 .. n - 1 PROVE \E j \in H : f[j] = y
    <3>1. y \in 0 .. N - 1
      BY <1>1, <1>5, <1>10
    <3>2. PICK j \in D : rank[j] = y
      BY <1>9, <3>1 DEF Surjection
    <3> QED
      BY <1>10, <1>11, <3>2
  <2> QED
    BY <2>1, <2>2, <2>3 DEF Bijection, Injection, Surjection, IsInjective
<1>13. IsFiniteSet(0 .. n - 1) /\ Cardinality(0 .. n - 1) = n
  BY Places
<1>14. f \in Injection(H, 0 .. n - 1) /\ f \in Surjection(H, 0 .. n - 1)
  BY <1>12 DEF Bijection
<1> QED
  BY <1>13, <1>14, FS_Injection

\* A list without repetitions has as many members as it has places.
LEMMA ImageCardinality ==
  ASSUME NEW H, IsFiniteSet(H), NEW s,
         \A i, j \in H : s[i] = s[j] => i = j
  PROVE  Cardinality({s[i] : i \in H}) = Cardinality(H)
<1> DEFINE T == {s[i] : i \in H}
<1>1. PICK f : f = [i \in H |-> s[i]]
  OBVIOUS
<1>2. f \in [H -> T] /\ (\A i, j \in H : f[i] = f[j] => i = j)
      /\ \A y \in T : \E i \in H : f[i] = y
  BY <1>1
<1> HIDE DEF T
<1>3. f \in Bijection(H, T)
  BY <1>2 DEF Bijection, Injection, Surjection, IsInjective
<1>4. ExistsBijection(H, T)
  BY <1>3 DEF ExistsBijection
<1> QED
  BY <1>4, FS_Bijection DEF T

-----------------------------------------------------------------------------
(* The history of a welcome *)

\* What is saved and not in the history has been pushed out by newer messages.
LEMMA PushedOutOfHistory ==
  ASSUME ChatTypeOK, RowsAreKept, NEW k \in DOMAIN rows,
         NEW h, h = RecentChatMessages, rows[k] \notin h
  PROVE  /\ Cardinality(h) = HistoryLimit
         /\ \A n \in h : said[n].time >= said[rows[k]].time
<1>1. PICK D : D = DOMAIN rows
  OBVIOUS
<1>2. PICK R : R = {p \in D \X D : Newer(p[1], p[2])}
  OBVIOUS
<1>3. D = 1 .. Len(rows) /\ Len(rows) \in Nat /\ \A i \in D : rows[i] \in Messages
  BY <1>1 DEF ChatTypeOK
<1>4. IsFiniteSet(D) /\ D \subseteq Nat
  BY <1>3, FS_Interval
<1>5. \A i \in D : said[rows[i]].time \in Nat
  BY <1>3 DEF ChatTypeOK
<1>15. PICK t \in [D -> Nat] : \A i \in D : t[i] = said[rows[i]].time
  <2>1. [i \in D |-> said[rows[i]].time] \in [D -> Nat]
    BY <1>5
  <2> QED
    BY <2>1
<1>6. \A i, j \in D : <<i, j>> \in R <=> t[i] > t[j] \/ (t[i] = t[j] /\ i > j)
  BY <1>2, <1>15 DEF Newer
<1>7. /\ \A i \in D : <<i, i>> \notin R
      /\ \A i, j, l \in D : <<i, j>> \in R /\ <<j, l>> \in R => <<i, l>> \in R
      /\ \A i, j \in D : i # j => <<i, j>> \in R \/ <<j, i>> \in R
  <2>1. \A i \in D : i \in Nat /\ t[i] \in Nat
    BY <1>4
  <2>2. \A i \in D : <<i, i>> \notin R
    BY <1>6, <2>1
  <2>3. ASSUME NEW i \in D, NEW j \in D, NEW l \in D, <<i, j>> \in R, <<j, l>> \in R
        PROVE  <<i, l>> \in R
    BY <1>6, <2>1, <2>3
  <2>4. ASSUME NEW i \in D, NEW j \in D, i # j
        PROVE  <<i, j>> \in R \/ <<j, i>> \in R
    BY <1>6, <2>1, <2>4
  <2> QED
    BY <2>2, <2>3, <2>4
<1>16. PICK B : B = [j \in D |-> {i \in D : <<i, j>> \in R}]
  OBVIOUS
<1>17. /\ \A j \in D : B[j] = {i \in D : <<i, j>> \in R}
       /\ \A j \in D : B[j] \subseteq D
       /\ \A i, j \in D : i \in B[j] <=> <<i, j>> \in R
  BY <1>16
<1>8. PICK H \in SUBSET D : \A j \in D : j \in H <=> Cardinality(B[j]) < HistoryLimit
  <2>1. {j \in D : Cardinality(B[j]) < HistoryLimit} \in SUBSET D
    OBVIOUS
  <2> QED
    BY <2>1
<1>9. h = {rows[j] : j \in H}
  <2>1. ASSUME NEW j \in D
        PROVE  B[j] = {i \in D : Newer(i, j)}
    <3>1. \A i \in D : <<i, j>> \in R <=> Newer(i, j)
      BY <1>2, <2>1
    <3> QED
      BY <1>17, <2>1, <3>1
  <2>2. H = {j \in D : Cardinality({i \in D : Newer(i, j)}) < HistoryLimit}
    <3>1. \A j \in D : Cardinality(B[j]) = Cardinality({i \in D : Newer(i, j)})
      BY <2>1
    <3> QED
      BY <1>8, <3>1
  <2> QED
    BY <1>1, <2>2 DEF RecentChatMessages
<1>10. k \in D /\ k \notin H /\ HistoryLimit \in Nat
  BY <1>1, <1>9, ChatConstants
<1>11. IsFiniteSet(H) /\ Cardinality(H) = HistoryLimit
  <2>1. PICK n \in Nat : n = HistoryLimit
    BY <1>10
  <2>2. \A j \in D : j \in H <=> Cardinality(B[j]) < n
    BY <1>8, <2>1
  <2>3. IsFiniteSet(H) /\ Cardinality(H) = n
    <3>1. First(D, R, B, H, n)
      BY <1>7, <1>8, <1>17, <2>2 DEF First
    <3>2. IsFiniteSet(D) /\ n \in Nat /\ k \in D /\ k \notin H
      BY <1>4, <1>10
    <3> QED
      BY ONLY <3>1, <3>2, TheFirst
  <2> QED
    BY <2>1, <2>3
<1>12. \A i, j \in H : rows[i] = rows[j] => i = j
  BY <1>1, <1>8 DEF RowsAreKept
<1>13. Cardinality(h) = HistoryLimit
  BY <1>9, <1>11, <1>12, ImageCardinality
<1>14. ASSUME NEW j \in H
       PROVE  said[rows[j]].time >= said[rows[k]].time
  <2>1. j \in D
    BY <1>8
  <2>2. CASE <<k, j>> \in R
    <3>1. B[k] \subseteq B[j]
      BY <1>7, <1>10, <1>17, <2>1, <2>2
    <3>2. IsFiniteSet(B[k]) /\ IsFiniteSet(B[j])
      <4>1. B[k] \in SUBSET D /\ B[j] \in SUBSET D
        BY <1>10, <1>17, <2>1
      <4> QED
        BY <1>4, <4>1, FS_Subset
    <3>3. Cardinality(B[j]) < HistoryLimit /\ ~(Cardinality(B[k]) < HistoryLimit)
      BY <1>8, <1>10, <2>1
    <3>4. /\ Cardinality(B[k]) <= Cardinality(B[j])
          /\ Cardinality(B[k]) \in Nat /\ Cardinality(B[j]) \in Nat
      BY <3>1, <3>2, FS_Subset, FS_CardinalityType
    <3> QED
      BY <1>10, <3>3, <3>4
  <2>3. CASE <<k, j>> \notin R
    <3>1. t[j] \in Nat /\ t[k] \in Nat /\ ~(t[k] > t[j])
      BY <1>6, <1>10, <2>1, <2>3
    <3>2. t[j] = said[rows[j]].time /\ t[k] = said[rows[k]].time
      BY <1>10, <1>15, <2>1
    <3> QED
      BY <3>1, <3>2
  <2> QED
    BY <2>2, <2>3
<1> QED
  BY <1>9, <1>13, <1>14

LEMMA HistoryIsKnown ==
  ASSUME ChatTypeOK, RowsAreKept
  PROVE  /\ RecentChatMessages \subseteq Known
         /\ ToSet(rows) \subseteq Known
         /\ RecentChatMessages \in SUBSET Messages
<1>1. \A i \in DOMAIN rows : rows[i] \in Known
  <2>0. rows \in Seq(Messages)
    BY DEF ChatTypeOK
  <2>1. \A i \in DOMAIN rows : rows[i] \in Messages
    BY ONLY <2>0
  <2> QED
    BY <2>1 DEF RowsAreKept, Known
<1> QED
  BY <1>1 DEF RecentChatMessages, ToSet, Known

-----------------------------------------------------------------------------
(* Orders *)

LEMMA InOrderStays ==
  ASSUME NEW s, InOrder(s),
         \A i \in DOMAIN s : said'[s[i]].from = said[s[i]].from
  PROVE  InOrder(s)'
BY DEF InOrder

LEMMA InOrderAppend ==
  ASSUME NEW s \in Seq(Messages), InOrder(s), NEW n \in Messages,
         \A i \in DOMAIN s :
           said[n].from \in Connections /\ said[s[i]].from = said[n].from => s[i] < n
  PROVE  InOrder(Append(s, n))
<1> DEFINE t == Append(s, n)
<1>1. /\ DOMAIN s = 1 .. Len(s) /\ DOMAIN t = 1 .. Len(s) + 1 /\ Len(s) \in Nat
      /\ \A i \in DOMAIN s : t[i] = s[i]
      /\ t[Len(s) + 1] = n
  OBVIOUS
<1> HIDE DEF t
<1>2. ASSUME NEW i \in DOMAIN t, NEW j \in DOMAIN t, i < j,
             said[t[i]].from \in Connections, said[t[i]].from = said[t[j]].from
      PROVE  t[i] < t[j]
  <2>1. i \in DOMAIN s
    BY <1>1, <1>2
  <2>2. CASE j \in DOMAIN s
    BY <1>1, <1>2, <2>1, <2>2 DEF InOrder
  <2>3. CASE j = Len(s) + 1
    BY <1>1, <1>2, <2>1, <2>3
  <2> QED
    BY <1>1, <2>2, <2>3
<1>3. InOrder(t)
  BY <1>2 DEF InOrder
<1> QED
  BY <1>3 DEF t

LEMMA InOrderTail ==
  ASSUME NEW s \in Seq(Messages), s # <<>>, InOrder(s)
  PROVE  InOrder(Tail(s)) /\ ToSet(Tail(s)) \subseteq ToSet(s)
<1> DEFINE t == Tail(s)
<1>1. /\ DOMAIN s = 1 .. Len(s) /\ Len(s) \in Nat /\ Len(s) > 0
      /\ DOMAIN t = 1 .. Len(s) - 1
      /\ \A i \in DOMAIN t : t[i] = s[i + 1]
  OBVIOUS
<1> HIDE DEF t
<1>2. \A i \in DOMAIN t : i + 1 \in DOMAIN s
  BY <1>1
<1>3. InOrder(t)
  BY <1>1, <1>2 DEF InOrder
<1>4. ToSet(t) \subseteq ToSet(s)
  BY <1>1, <1>2 DEF ToSet
<1> QED
  BY <1>3, <1>4 DEF t

LEMMA ToSetAppend ==
  ASSUME NEW s \in Seq(Messages), NEW n \in Messages
  PROVE  /\ ToSet(Append(s, n)) = ToSet(s) \cup {n}
         /\ Append(s, n) \in Seq(Messages)
<1> DEFINE t == Append(s, n)
<1>1. /\ DOMAIN s = 1 .. Len(s) /\ DOMAIN t = 1 .. Len(s) + 1 /\ Len(s) \in Nat
      /\ \A i \in DOMAIN s : t[i] = s[i]
      /\ t[Len(s) + 1] = n /\ t \in Seq(Messages)
  OBVIOUS
<1> HIDE DEF t
<1>2. DOMAIN t = DOMAIN s \cup {Len(s) + 1}
  BY <1>1
<1>3. ToSet(t) = ToSet(s) \cup {n}
  BY <1>1, <1>2 DEF ToSet
<1> QED
  BY <1>1, <1>3 DEF t

LEMMA ToSetEmpty == ToSet(<<>>) = {}
BY DEF ToSet

-----------------------------------------------------------------------------
(* What most steps keep *)

\* The messages go on, each for itself.
SaidGoesOn ==
  \A m \in Messages :
    /\ said'[m].time = said[m].time /\ said'[m].from = said[m].from
    /\ said'[m].stage = "none" <=> said[m].stage = "none"
    /\ said'[m].to \subseteq said[m].to
    /\ said[m].stage \in {"done", "refused"} => said'[m].stage = said[m].stage

LEMMA GoesOn ==
  ASSUME ChatTypeOK, OneAtATime, SaidGoesOn
  PROVE  /\ Known' = Known /\ Ended \subseteq Ended'
         /\ OneAtATime'
         /\ \A s \in Seq(Messages) : InOrder(s) => InOrder(s)'
<1>1. Known' = Known /\ Ended \subseteq Ended'
  BY DEF SaidGoesOn, Known, Ended
<1>2. OneAtATime'
  <2>1. \A m \in Known : m \in Messages /\ said'[m].from = said[m].from
    BY DEF SaidGoesOn, Known
  <2> QED
    BY <1>1, <2>1 DEF OneAtATime
<1>3. ASSUME NEW s \in Seq(Messages), InOrder(s)
      PROVE  InOrder(s)'
  <2>1. \A i \in DOMAIN s : s[i] \in Messages
    OBVIOUS
  <2> QED
    BY <1>3, <2>1, InOrderStays DEF SaidGoesOn
<1> QED
  BY <1>1, <1>2, <1>3

LEMMA SaidIsUnchanged ==
  ASSUME ChatIInv, UNCHANGED <<inbox, said, rows, outbound>>
  PROVE  /\ OneAtATime' /\ RowsAreKept' /\ InboxesAreKnown' /\ OutboundIsEnded'
         /\ EndedAreSent' /\ SendersAreInOrder' /\ Known' = Known
<1>1. Known' = Known /\ Ended' = Ended
  BY DEF Known, Ended
<1>2. OneAtATime' /\ RowsAreKept'
  BY <1>1 DEF ChatIInv, OneAtATime, RowsAreKept
<1>3. InboxesAreKnown'
  BY <1>1 DEF ChatIInv, InboxesAreKnown
<1>4. OutboundIsEnded' /\ EndedAreSent'
  BY <1>1 DEF ChatIInv, OutboundIsEnded, EndedAreSent
<1>5. SendersAreInOrder'
  BY DEF ChatIInv, SendersAreInOrder, InOrder
<1> QED
  BY <1>1, <1>2, <1>3, <1>4, <1>5

LEMMA ReachesStays ==
  ASSUME NEW c, NEW m, Reaches(c, m),
         conn'[c] = conn[c], history'[c] = history[c], passed'[c] = passed[c],
         said'[m].time = said[m].time,
         history[c] # NoHistory =>
           \A n \in history[c] : said'[n].time = said[n].time,
         said[m].stage = "refused" => said'[m].stage = "refused",
         c \in said[m].to => \/ c \in said'[m].to
                             \/ m \in ToSet(inbox'[c])
                             \/ said'[m].stage = "refused",
         m \in ToSet(inbox[c]) => m \in ToSet(inbox'[c])
  PROVE  Reaches(c, m)'
BY DEF Reaches, PushedOut

\* Nothing is lost to a connection that a step of the messages leaves alone.
LEMMA LeftAlone ==
  ASSUME ChatTypeOK, NothingIsLost, SaidGoesOn, Known' = Known, NEW c \in Connections,
         conn'[c] = conn[c], history'[c] = history[c], passed'[c] = passed[c],
         c \notin full' => c \notin full,
         ToSet(inbox[c]) \subseteq ToSet(inbox'[c]),
         \A m \in Known :
           c \in said[m].to => \/ c \in said'[m].to
                               \/ m \in ToSet(inbox'[c])
                               \/ said'[m].stage = "refused"
  PROVE  /\ conn'[c] \in {"new", "registered"} => history'[c] = NoHistory
         /\ history'[c] # NoHistory => history'[c] \subseteq Known'
         /\ c \notin full' /\ conn'[c] \in {"registered", "connected"} =>
              \A m \in Known' : Reaches(c, m)'
<1>1. /\ conn[c] \in {"new", "registered"} => history[c] = NoHistory
      /\ history[c] # NoHistory => history[c] \subseteq Known
  BY DEF NothingIsLost
<1>2. ASSUME c \notin full', conn'[c] \in {"registered", "connected"},
             NEW m \in Known
      PROVE  Reaches(c, m)'
  <2>1. Reaches(c, m)
    BY <1>2 DEF NothingIsLost
  <2>2. \A n \in Known : n \in Messages
    BY DEF Known
  <2>3. /\ said'[m].time = said[m].time
        /\ history[c] # NoHistory => \A n \in history[c] : said'[n].time = said[n].time
        /\ said[m].stage = "refused" => said'[m].stage = "refused"
    BY <1>1, <2>2 DEF SaidGoesOn
  <2> QED
    BY <2>1, <2>3, ReachesStays
<1> QED
  BY <1>1, <1>2

-----------------------------------------------------------------------------
(* The initial state *)

LEMMA ChatInitIInv == ChatInit => ChatIInv
<1> SUFFICES ASSUME ChatInit PROVE ChatIInv
  OBVIOUS
<1> USE ChatConstants DEF ChatInit
<1>1. ChatTypeOK
  <2>1. 0 \in 0 .. Attempts
    OBVIOUS
  <2>2. inbox \in [Connections -> Seq(Messages)] /\ rows \in Seq(Messages)
        /\ outbound \in Seq(Messages)
    OBVIOUS
  <2>3. Unsaid \in [stage : Stages, from : Connections \cup {Discord},
                    time : Nat, to : SUBSET Connections]
    BY DEF Unsaid, Stages
  <2>4. said \in [Messages -> [stage : Stages, from : Connections \cup {Discord},
                              time : Nat, to : SUBSET Connections]]
    BY <2>3
  <2>5. history \in [Connections -> (SUBSET Messages) \cup {NoHistory}]
        /\ passed \in [Connections -> SUBSET Messages]
    OBVIOUS
  <2>6. /\ conn \in [Connections -> {"new", "registered", "connected", "gone"}]
        /\ full \subseteq Connections
        /\ running \in BOOLEAN /\ stop \in BOOLEAN
    OBVIOUS
  <2>7. trying \in 0 .. Attempts
    BY <2>1
  <2> QED
    BY ONLY <2>2, <2>4, <2>5, <2>6, <2>7 DEF ChatTypeOK
<1>2. Known = {} /\ Ended = {}
  BY DEF Known, Ended, Unsaid
<1>3. OneAtATime
  <2>1. 0 \in 0 .. MaxMessages /\ {} = 1 .. 0
    OBVIOUS
  <2> QED
    BY <1>2, <2>1 DEF OneAtATime
<1>4. RowsAreKept /\ OutboundIsEnded /\ InboxesAreKnown /\ EndedAreSent
  BY <1>2, ToSetEmpty DEF RowsAreKept, OutboundIsEnded, InboxesAreKnown, EndedAreSent
<1>5. SendersAreInOrder
  BY DEF SendersAreInOrder, InOrder
<1>6. NothingIsLost
  BY <1>2 DEF NothingIsLost
<1> QED
  BY <1>1, <1>3, <1>4, <1>5, <1>6 DEF ChatIInv

-----------------------------------------------------------------------------
(* The connections *)

LEMMA RegisterIInv ==
  ASSUME ChatIInv, NEW c \in Connections, Register(c)
  PROVE  ChatIInv'
<1> USE DEF Register
<1>1. /\ OneAtATime' /\ RowsAreKept' /\ InboxesAreKnown' /\ OutboundIsEnded'
      /\ EndedAreSent' /\ SendersAreInOrder' /\ Known' = Known
  BY SaidIsUnchanged DEF discord
<1>2. Known \subseteq Messages
  BY DEF Known
<1>3. ChatTypeOK'
  BY <1>2 DEF ChatIInv, ChatTypeOK, discord
<1>4. ASSUME NEW d \in Connections
      PROVE  /\ conn'[d] \in {"new", "registered"} => history'[d] = NoHistory
             /\ history'[d] # NoHistory => history'[d] \subseteq Known'
             /\ d \notin full' /\ conn'[d] \in {"registered", "connected"} =>
                  \A m \in Known' : Reaches(d, m)'
  <2>1. CASE d = c
    <3>1. history[c] = NoHistory
      BY DEF ChatIInv, NothingIsLost
    <3>2. passed'[c] = Known
      BY DEF ChatIInv, ChatTypeOK
    <3> QED
      BY <1>1, <2>1, <3>1, <3>2 DEF Reaches
  <2>2. CASE d # c
    <3>1. conn'[d] = conn[d] /\ history'[d] = history[d] /\ passed'[d] = passed[d]
      BY <2>2 DEF ChatIInv, ChatTypeOK
    <3>2. SaidGoesOn
      BY DEF SaidGoesOn
    <3> QED
      BY <1>1, <3>1, <3>2, LeftAlone DEF ChatIInv
  <2> QED
    BY <2>1, <2>2
<1>5. NothingIsLost'
  BY <1>4 DEF NothingIsLost
<1> QED
  BY <1>1, <1>3, <1>5 DEF ChatIInv

LEMMA WelcomeIInv ==
  ASSUME ChatIInv, NEW c \in Connections, Welcome(c)
  PROVE  ChatIInv'
<1> USE DEF Welcome
<1>1. /\ OneAtATime' /\ RowsAreKept' /\ InboxesAreKnown' /\ OutboundIsEnded'
      /\ EndedAreSent' /\ SendersAreInOrder' /\ Known' = Known
  BY SaidIsUnchanged DEF discord
<1>2. /\ RecentChatMessages \subseteq Known
      /\ RecentChatMessages \in SUBSET Messages
  BY HistoryIsKnown DEF ChatIInv
<1>3. ChatTypeOK'
  <2>1. conn' \in [Connections -> {"new", "registered", "connected", "gone"}]
    BY DEF ChatIInv, ChatTypeOK
  <2>2. history' \in [Connections -> (SUBSET Messages) \cup {NoHistory}]
        /\ passed' \in [Connections -> SUBSET Messages]
    BY <1>2 DEF ChatIInv, ChatTypeOK
  <2> QED
    BY <2>1, <2>2 DEF ChatIInv, ChatTypeOK, discord
<1>4. ASSUME NEW d \in Connections
      PROVE  /\ conn'[d] \in {"new", "registered"} => history'[d] = NoHistory
             /\ history'[d] # NoHistory => history'[d] \subseteq Known'
             /\ d \notin full' /\ conn'[d] \in {"registered", "connected"} =>
                  \A m \in Known' : Reaches(d, m)'
  <2>1. CASE d = c
    <3>0. history[c] = NoHistory /\ conn'[c] = "connected"
      BY DEF ChatIInv, NothingIsLost, ChatTypeOK
    <3>1. CASE history'[c] = NoHistory
      BY <2>1, <3>0, <3>1 DEF Reaches
    <3>2. CASE history'[c] # NoHistory
      <4>1. history'[c] = RecentChatMessages /\ passed'[c] = passed[c] \ ToSet(rows)
            /\ c \notin full
        BY <3>0, <3>2 DEF ChatIInv, ChatTypeOK
      <4>2. ASSUME NEW m \in Known
            PROVE  Reaches(c, m)'
        <5>1. Reaches(c, m)
          BY <4>1 DEF ChatIInv, NothingIsLost
        <5>2. CASE m \in ToSet(rows)
          <6>1. PICK k \in DOMAIN rows : rows[k] = m
            BY <5>2 DEF ToSet
          <6>2. m \in history'[c] \/ PushedOut(c, m)'
            BY <4>1, <6>1, PushedOutOfHistory DEF ChatIInv, PushedOut
          <6> QED
            BY <3>2, <6>2 DEF Reaches
        <5>3. CASE m \notin ToSet(rows)
          BY <3>0, <4>1, <5>1, <5>3 DEF Reaches
        <5> QED
          BY <5>2, <5>3
      <4> QED
        BY <1>1, <1>2, <2>1, <3>0, <4>1, <4>2
    <3> QED
      BY <3>1, <3>2
  <2>2. CASE d # c
    <3>1. conn'[d] = conn[d] /\ history'[d] = history[d] /\ passed'[d] = passed[d]
      BY <2>2 DEF ChatIInv, ChatTypeOK
    <3>2. SaidGoesOn
      BY DEF SaidGoesOn
    <3> QED
      BY <1>1, <3>1, <3>2, LeftAlone DEF ChatIInv
  <2> QED
    BY <2>1, <2>2
<1>5. NothingIsLost'
  BY <1>4 DEF NothingIsLost
<1> QED
  BY <1>1, <1>3, <1>5 DEF ChatIInv

LEMMA UnregisterIInv ==
  ASSUME ChatIInv, NEW c \in Connections, Unregister(c)
  PROVE  ChatIInv'
<1> USE DEF Unregister, Forget, discord
<1>1. said' \in [Messages -> [stage : Stages, from : Connections \cup {Discord},
                              time : Nat, to : SUBSET Connections]]
      /\ SaidGoesOn
      /\ \A m \in Messages : /\ said'[m].stage = said[m].stage
                             /\ said'[m].to = said[m].to \ {c}
  <2>1. ASSUME NEW m \in Messages
        PROVE  /\ said'[m] = [said[m] EXCEPT !.to = @ \ {c}]
               /\ said'[m] \in [stage : Stages, from : Connections \cup {Discord},
                                time : Nat, to : SUBSET Connections]
               /\ said'[m].time = said[m].time /\ said'[m].from = said[m].from
               /\ said'[m].stage = said[m].stage /\ said'[m].to = said[m].to \ {c}
    <3>1. said'[m] = [said[m] EXCEPT !.to = @ \ {c}]
      OBVIOUS
    <3>2. said[m] \in [stage : Stages, from : Connections \cup {Discord},
                       time : Nat, to : SUBSET Connections]
      BY DEF ChatIInv, ChatTypeOK
    <3> QED
      BY <3>1, <3>2
  <2>2. said' = [m \in Messages |-> said'[m]]
    OBVIOUS
  <2> QED
    BY <2>1, <2>2 DEF SaidGoesOn
<1>2. ChatTypeOK'
  <2>1. conn' \in [Connections -> {"new", "registered", "connected", "gone"}]
    BY DEF ChatIInv, ChatTypeOK
  <2>2. /\ history' \in [Connections -> (SUBSET Messages) \cup {NoHistory}]
        /\ passed' \in [Connections -> SUBSET Messages]
    BY DEF ChatIInv, ChatTypeOK
  <2>3. inbox' \in [Connections -> Seq(Messages)]
    BY DEF ChatIInv, ChatTypeOK
  <2> QED
    BY <1>1, <2>1, <2>2, <2>3 DEF ChatIInv, ChatTypeOK
<1>3. /\ Known' = Known /\ OneAtATime'
      /\ \A s \in Seq(Messages) : InOrder(s) => InOrder(s)'
  BY <1>1, GoesOn DEF ChatIInv
<1>4. Ended' = Ended
  BY <1>1 DEF Ended
<1>5. RowsAreKept'
  <2>1. \A i \in DOMAIN rows : rows[i] \in Messages
    BY DEF ChatIInv, ChatTypeOK
  <2> QED
    BY <1>1, <2>1 DEF ChatIInv, RowsAreKept
<1>6. \A d \in Connections : inbox'[d] = IF d = c THEN <<>> ELSE inbox[d]
  BY DEF ChatIInv, ChatTypeOK
<1>7. InboxesAreKnown'
  <2>1. ASSUME NEW d \in Connections, NEW m \in ToSet(inbox'[d])
        PROVE  m \in Known' /\ d \notin said'[m].to
    <3>1. m \in ToSet(inbox[d])
      BY <1>6, <2>1, ToSetEmpty
    <3>2. m \in Known /\ d \notin said[m].to
      BY <3>1 DEF ChatIInv, InboxesAreKnown
    <3>3. m \in Messages
      BY <3>2 DEF Known
    <3> QED
      BY <1>1, <1>3, <3>2, <3>3
  <2> QED
    BY <2>1 DEF InboxesAreKnown
<1>8. OutboundIsEnded' /\ EndedAreSent'
  <2>1. \A m \in Ended : m \in Messages
    BY DEF Ended
  <2> QED
    BY <1>1, <1>4, <2>1 DEF ChatIInv, OutboundIsEnded, EndedAreSent
<1>9. SendersAreInOrder'
  <2>1. \A d \in Connections : inbox[d] \in Seq(Messages) /\ InOrder(inbox[d])
    BY DEF ChatIInv, ChatTypeOK, SendersAreInOrder
  <2>2. outbound \in Seq(Messages) /\ InOrder(outbound)
    BY DEF ChatIInv, ChatTypeOK, SendersAreInOrder
  <2>3. InOrder(outbound)' /\ outbound' = outbound
    BY <1>3, <2>2 DEF InOrder
  <2>4. ASSUME NEW d \in Connections
        PROVE  InOrder(inbox[d])'
    <3>1. CASE d = c
      BY <1>6, <3>1 DEF InOrder
    <3>2. CASE d # c
      <4>1. PICK s \in Seq(Messages) : s = inbox[d] /\ s = inbox'[d]
        BY <1>6, <2>1, <3>2
      <4>2. InOrder(s)'
        BY <1>3, <2>1, <4>1
      <4>3. s = inbox'[d]
        BY <4>1
      <4> QED
        BY ONLY <4>2, <4>3, Zenon DEF InOrder
    <3> QED
      BY <3>1, <3>2
  <2> QED
    BY <2>3, <2>4 DEF SendersAreInOrder
<1>10. ASSUME NEW d \in Connections
       PROVE  /\ conn'[d] \in {"new", "registered"} => history'[d] = NoHistory
              /\ history'[d] # NoHistory => history'[d] \subseteq Known'
              /\ d \notin full' /\ conn'[d] \in {"registered", "connected"} =>
                   \A m \in Known' : Reaches(d, m)'
  <2>1. CASE d = c
    <3>1. conn'[c] = "gone" /\ history'[c] = NoHistory
      BY DEF ChatIInv, ChatTypeOK
    <3> QED
      BY <2>1, <3>1
  <2>2. CASE d # c
    <3>1. conn'[d] = conn[d] /\ history'[d] = history[d] /\ passed'[d] = passed[d]
      BY <2>2 DEF ChatIInv, ChatTypeOK
    <3>2. \A m \in Known : d \in said[m].to => d \in said'[m].to
      BY <1>1, <2>2 DEF Known
    <3>3. (d \notin full' => d \notin full) /\ ToSet(inbox[d]) \subseteq ToSet(inbox'[d])
      BY <1>6, <2>2
    <3> QED
      BY <1>1, <1>3, <3>1, <3>2, <3>3, LeftAlone DEF ChatIInv
  <2> QED
    BY <2>1, <2>2
<1>11. NothingIsLost'
  BY <1>10 DEF NothingIsLost
<1> QED
  BY <1>2, <1>3, <1>5, <1>7, <1>8, <1>9, <1>11 DEF ChatIInv

-----------------------------------------------------------------------------
(* The messages *)

LEMMA OrdersStay ==
  ASSUME ChatTypeOK, SendersAreInOrder, InboxesAreKnown, OutboundIsEnded,
         \A m \in Known : said'[m].from = said[m].from
  PROVE  /\ \A c \in Connections : inbox'[c] = inbox[c] => InOrder(inbox[c])'
         /\ outbound' = outbound => InOrder(outbound)'
<1>1. ASSUME NEW s \in Seq(Messages), InOrder(s), ToSet(s) \subseteq Known
      PROVE  InOrder(s)'
  <2>1. \A i \in DOMAIN s : s[i] \in ToSet(s)
    BY DEF ToSet
  <2> QED
    BY <1>1, <2>1, InOrderStays
<1>2. ASSUME NEW c \in Connections, inbox'[c] = inbox[c]
      PROVE  InOrder(inbox[c])'
  <2>1. PICK s \in Seq(Messages) : s = inbox[c]
    BY DEF ChatTypeOK
  <2>2. InOrder(s)'
    BY <1>1, <2>1 DEF SendersAreInOrder, InboxesAreKnown
  <2>3. s = inbox'[c]
    BY <1>2, <2>1
  <2> QED
    BY ONLY <2>2, <2>3, Zenon DEF InOrder
<1>3. ASSUME outbound' = outbound
      PROVE  InOrder(outbound)'
  <2>1. PICK s \in Seq(Messages) : s = outbound
    BY DEF ChatTypeOK
  <2>2. InOrder(s)'
    <3>1. ToSet(s) \subseteq Known
      BY <2>1 DEF OutboundIsEnded, Ended, Known
    <3> QED
      BY <1>1, <2>1, <3>1 DEF SendersAreInOrder
  <2>3. s = outbound'
    BY <1>3, <2>1
  <2> QED
    BY ONLY <2>2, <2>3, Zenon DEF InOrder
<1> QED
  BY <1>2, <1>3

LEMMA BeginIInv ==
  ASSUME ChatIInv, NEW from \in Connections \cup {Discord}, NEW t \in Nat, Begin(from, t),
         from \in Connections => \A m \in Known \ Ended : said[m].from # from
  PROVE  ChatIInv'
<1> USE DEF Begin, room, discord
<1>1. PICK n : n = Number
  OBVIOUS
<1>2. PICK k \in 0 .. MaxMessages : Known = 1 .. k
  BY DEF ChatIInv, OneAtATime
<1>3. n = k + 1 /\ k \in Nat
  <2>1. k \in Nat /\ 1 \in Int /\ k \in Int
    BY <1>2, ChatConstants
  <2>2. Cardinality(1 .. k) = IF 1 > k THEN 0 ELSE k - 1 + 1
    BY ONLY <2>1, FS_Interval
  <2> QED
    BY <1>1, <1>2, <2>1, <2>2 DEF Number
<1>4. n \in Messages /\ n \notin Known
  BY <1>1, <1>2, <1>3
<1>5. PICK new : new = [stage |-> "heard", from |-> from, time |-> t, to |-> Recipients]
  OBVIOUS
<1>6. said' = [said EXCEPT ![n] = new]
  BY <1>1, <1>5
<1>7. /\ new \in [stage : Stages, from : Connections \cup {Discord},
                  time : Nat, to : SUBSET Connections]
      /\ new.stage = "heard" /\ new.from = from /\ new.to = Recipients
  BY <1>5 DEF Stages, Recipients
<1>8. /\ said' \in [Messages -> [stage : Stages, from : Connections \cup {Discord},
                                 time : Nat, to : SUBSET Connections]]
      /\ said'[n] = new
      /\ \A m \in Messages \ {n} : said'[m] = said[m]
  BY <1>4, <1>6, <1>7 DEF ChatIInv, ChatTypeOK
<1>9. ChatTypeOK'
  BY <1>8 DEF ChatIInv, ChatTypeOK
<1>10. /\ \A m \in Known : m \in Messages \ {n} /\ said'[m] = said[m]
       /\ Known' = Known \cup {n} /\ Ended' = Ended
       /\ Ended \subseteq Known
  <2>1. \A m \in Known : m \in Messages \ {n} /\ said'[m] = said[m]
    BY <1>4, <1>8 DEF Known
  <2>2. Known' = Known \cup {n}
    BY <1>4, <1>7, <1>8 DEF Known
  <2>3. said[n].stage = "none"
    BY <1>4 DEF Known
  <2>4. Ended' = Ended
    BY <1>4, <1>7, <1>8, <2>3 DEF Ended
  <2>5. Ended \subseteq Known
    BY DEF Ended, Known
  <2> QED
    BY <2>1, <2>2, <2>4, <2>5
<1>11. OneAtATime'
  <2>1. Known' = 1 .. k + 1 /\ k + 1 \in 0 .. MaxMessages
    BY <1>2, <1>3, <1>4, <1>10, ChatConstants DEF Messages
  <2>2. ASSUME NEW m \in Known', NEW l \in Known', m < l,
               said'[m].from \in Connections, said'[m].from = said'[l].from
        PROVE  m \in Ended'
    <3>1. m \in Known /\ said'[m] = said[m]
      BY <1>2, <1>3, <1>10, <2>1, <2>2
    <3>2. CASE l \in Known
      BY <1>10, <2>2, <3>1, <3>2 DEF ChatIInv, OneAtATime
    <3>3. CASE l = n
      <4>1. said[m].from = from /\ from \in Connections
        BY <1>7, <1>8, <2>2, <3>1, <3>3
      <4> QED
        BY <1>10, <3>1, <4>1
    <3> QED
      BY <1>10, <3>2, <3>3
  <2> QED
    BY <2>1, <2>2 DEF OneAtATime
<1>12. RowsAreKept'
  <2>1. \A i \in DOMAIN rows : rows[i] \in Known
    BY HistoryIsKnown DEF ChatIInv, ToSet
  <2> QED
    BY <1>10, <2>1 DEF ChatIInv, RowsAreKept
<1>13. InboxesAreKnown' /\ OutboundIsEnded'
  BY <1>10 DEF ChatIInv, InboxesAreKnown, OutboundIsEnded
<1>14. EndedAreSent'
  BY <1>10 DEF ChatIInv, EndedAreSent
<1>15. SendersAreInOrder'
  <2>1. \A m \in Known : said'[m].from = said[m].from
    BY <1>10
  <2> QED
    BY <2>1, OrdersStay DEF ChatIInv, SendersAreInOrder
<1>16. ASSUME NEW c \in Connections
       PROVE  /\ conn'[c] \in {"new", "registered"} => history'[c] = NoHistory
              /\ history'[c] # NoHistory => history'[c] \subseteq Known'
              /\ c \notin full' /\ conn'[c] \in {"registered", "connected"} =>
                   \A m \in Known' : Reaches(c, m)'
  <2>1. /\ conn[c] \in {"new", "registered"} => history[c] = NoHistory
        /\ history[c] # NoHistory => history[c] \subseteq Known
    BY DEF ChatIInv, NothingIsLost
  <2>2. ASSUME c \notin full, conn[c] \in {"registered", "connected"}, NEW m \in Known
        PROVE  Reaches(c, m)'
    <3>1. Reaches(c, m)
      BY <2>2 DEF ChatIInv, NothingIsLost
    <3>2. said'[m] = said[m]
      BY <1>10, <2>2
    <3>3. history[c] # NoHistory => \A j \in history[c] : said'[j].time = said[j].time
      BY <1>10, <2>1
    <3> QED
      BY <3>1, <3>2, <3>3, ReachesStays
  <2>3. ASSUME conn[c] \in {"registered", "connected"}
        PROVE  Reaches(c, n)'
    <3>1. c \in said'[n].to
      BY <1>7, <1>8, <2>3 DEF Recipients
    <3> QED
      BY <3>1 DEF Reaches
  <2> QED
    BY <1>10, <2>1, <2>2, <2>3
<1>17. NothingIsLost'
  BY <1>16 DEF NothingIsLost
<1> QED
  BY <1>9, <1>11, <1>12, <1>13, <1>14, <1>15, <1>17 DEF ChatIInv

\* The handler of m goes on to a stage, and T are still to get m.
MovesOn(m, stage, T) ==
  /\ said' \in [Messages -> [stage : Stages, from : Connections \cup {Discord},
                             time : Nat, to : SUBSET Connections]]
  /\ said'[m].stage = stage /\ said'[m].to = T
  /\ said'[m].time = said[m].time /\ said'[m].from = said[m].from
  /\ \A k \in Messages \ {m} : said'[k] = said[k]

LEMMA OneMovesOn ==
  ASSUME ChatIInv, NEW m \in Messages, NEW stage, NEW T,
         said[m].stage \in {"heard", "kept"}, stage \in {"kept", "done", "refused"},
         stage = "refused" => said[m].stage = "heard",
         T \subseteq said[m].to, stage # "kept" => T = {}, MovesOn(m, stage, T)
  PROVE  /\ SaidGoesOn /\ Known' = Known /\ OneAtATime' /\ EndedAreSent'
         /\ m \in Known /\ m \notin Ended
         /\ Ended' = IF stage = "kept" THEN Ended ELSE Ended \cup {m}
         /\ rows' = rows => RowsAreKept'
         /\ inbox' = inbox => InboxesAreKnown'
         /\ \A c \in Connections : inbox'[c] = inbox[c] => InOrder(inbox[c])'
         /\ outbound' = outbound => OutboundIsEnded' /\ InOrder(outbound)'
<1>1. SaidGoesOn
  <2>1. ASSUME NEW k \in Messages
        PROVE  /\ said'[k].time = said[k].time /\ said'[k].from = said[k].from
               /\ said'[k].stage = "none" <=> said[k].stage = "none"
               /\ said'[k].to \subseteq said[k].to
               /\ said[k].stage \in {"done", "refused"} =>
                    said'[k].stage = said[k].stage
    <3>1. CASE k = m
      BY <3>1 DEF MovesOn
    <3>2. CASE k # m
      BY <3>2 DEF MovesOn
    <3> QED
      BY <3>1, <3>2
  <2> QED
    BY <2>1 DEF SaidGoesOn
<1>2. Known' = Known /\ OneAtATime'
  BY <1>1, GoesOn DEF ChatIInv
<1>3. m \in Known /\ m \notin Ended
  BY DEF Known, Ended
<1>4. Ended' = IF stage = "kept" THEN Ended ELSE Ended \cup {m}
  BY <1>3 DEF Ended, MovesOn
<1>5. EndedAreSent'
  BY <1>4 DEF ChatIInv, EndedAreSent, MovesOn, Ended
<1>6. ASSUME rows' = rows
      PROVE  RowsAreKept'
  <2>1. ASSUME NEW i \in DOMAIN rows
        PROVE  said'[rows[i]].stage \in {"kept", "done"}
    <3>1. rows[i] \in Messages /\ said[rows[i]].stage \in {"kept", "done"}
      BY DEF ChatIInv, ChatTypeOK, RowsAreKept
    <3>2. CASE rows[i] = m
      BY <3>1, <3>2 DEF MovesOn
    <3>3. CASE rows[i] # m
      BY <3>1, <3>3 DEF MovesOn
    <3> QED
      BY <3>2, <3>3
  <2> QED
    BY <1>6, <2>1 DEF ChatIInv, RowsAreKept
<1>7. ASSUME inbox' = inbox
      PROVE  InboxesAreKnown'
  <2>1. \A k \in Known : said'[k].to \subseteq said[k].to
    BY <1>1 DEF SaidGoesOn, Known
  <2> QED
    BY <1>2, <1>7, <2>1 DEF ChatIInv, InboxesAreKnown
<1>8. \A k \in Known : said'[k].from = said[k].from
  BY <1>1 DEF SaidGoesOn, Known
<1>9. /\ \A c \in Connections : inbox'[c] = inbox[c] => InOrder(inbox[c])'
      /\ outbound' = outbound => InOrder(outbound)'
  BY <1>8, OrdersStay DEF ChatIInv
<1>10. outbound' = outbound => OutboundIsEnded'
  BY <1>4 DEF ChatIInv, OutboundIsEnded
<1> QED
  BY <1>1, <1>2, <1>3, <1>4, <1>5, <1>6, <1>7, <1>9, <1>10

LEMMA Moves ==
  ASSUME ChatTypeOK, NEW m \in Messages, NEW stage \in Stages, NEW T \in SUBSET Connections
  PROVE  /\ Advance(m, stage) => MovesOn(m, stage, said[m].to)
         /\ said' = [said EXCEPT ![m].stage = stage, ![m].to = T] => MovesOn(m, stage, T)
         /\ said' = [said EXCEPT ![m].to = T] => MovesOn(m, said[m].stage, T)
<1>1. \A k \in Messages :
        said[k] \in [stage : Stages, from : Connections \cup {Discord},
                     time : Nat, to : SUBSET Connections]
  BY DEF ChatTypeOK
<1>2. ASSUME NEW new \in [stage : Stages, from : Connections \cup {Discord},
                          time : Nat, to : SUBSET Connections],
             new.from = said[m].from, new.time = said[m].time,
             said' = [said EXCEPT ![m] = new]
      PROVE  MovesOn(m, new.stage, new.to)
  <2>1. said'[m] = new /\ \A k \in Messages \ {m} : said'[k] = said[k]
    BY <1>2 DEF ChatTypeOK
  <2>2. said' \in [Messages -> [stage : Stages, from : Connections \cup {Discord},
                                time : Nat, to : SUBSET Connections]]
    BY <1>2 DEF ChatTypeOK
  <2> QED
    BY <1>2, <2>1, <2>2 DEF MovesOn
<1>3. ASSUME Advance(m, stage)
      PROVE  MovesOn(m, stage, said[m].to)
  <2>1. PICK new : new = [said[m] EXCEPT !.stage = stage]
    OBVIOUS
  <2>2. said' = [said EXCEPT ![m] = new]
    BY <1>3, <2>1 DEF Advance
  <2>3. /\ new \in [stage : Stages, from : Connections \cup {Discord},
                    time : Nat, to : SUBSET Connections]
        /\ new.from = said[m].from /\ new.time = said[m].time
        /\ new.stage = stage /\ new.to = said[m].to
    BY <1>1, <2>1
  <2> QED
    BY <1>2, <2>2, <2>3
<1>4. ASSUME said' = [said EXCEPT ![m].stage = stage, ![m].to = T]
      PROVE  MovesOn(m, stage, T)
  <2>1. PICK new : new = [said[m] EXCEPT !.stage = stage, !.to = T]
    OBVIOUS
  <2>2. said' = [said EXCEPT ![m] = new]
    BY <1>1, <1>4, <2>1 DEF ChatTypeOK
  <2>3. /\ new \in [stage : Stages, from : Connections \cup {Discord},
                    time : Nat, to : SUBSET Connections]
        /\ new.from = said[m].from /\ new.time = said[m].time
        /\ new.stage = stage /\ new.to = T
    BY <1>1, <2>1
  <2> QED
    BY <1>2, <2>2, <2>3
<1>5. ASSUME said' = [said EXCEPT ![m].to = T]
      PROVE  MovesOn(m, said[m].stage, T)
  <2>1. PICK new : new = [said[m] EXCEPT !.to = T]
    OBVIOUS
  <2>2. said' = [said EXCEPT ![m] = new]
    BY <1>5, <2>1
  <2>3. /\ new \in [stage : Stages, from : Connections \cup {Discord},
                    time : Nat, to : SUBSET Connections]
        /\ new.from = said[m].from /\ new.time = said[m].time
        /\ new.stage = said[m].stage /\ new.to = T
    BY <1>1, <2>1
  <2> QED
    BY <1>2, <2>2, <2>3
<1> QED
  BY <1>3, <1>4, <1>5

LEMMA SaveIInv ==
  ASSUME ChatIInv, NEW m \in Messages, Save(m)
  PROVE  ChatIInv'
<1> USE DEF Save, room, discord
<1>1. MovesOn(m, "kept", said[m].to)
  <2>1. said[m].to \in SUBSET Connections /\ "kept" \in Stages
    BY DEF ChatIInv, ChatTypeOK, Stages
  <2> QED
    BY <2>1, Moves DEF ChatIInv
<1>2. /\ SaidGoesOn /\ Known' = Known /\ OneAtATime' /\ EndedAreSent'
      /\ m \in Known /\ m \notin Ended
      /\ InboxesAreKnown' /\ OutboundIsEnded' /\ InOrder(outbound)'
      /\ \A c \in Connections : InOrder(inbox[c])'
  BY <1>1, OneMovesOn
<1>3. rows' \in Seq(Messages)
  BY ToSetAppend DEF ChatIInv, ChatTypeOK
<1>4. ChatTypeOK'
  BY <1>1, <1>3 DEF ChatIInv, ChatTypeOK, MovesOn
<1>5. RowsAreKept'
  <2>1. /\ DOMAIN rows = 1 .. Len(rows) /\ DOMAIN rows' = 1 .. Len(rows) + 1
        /\ Len(rows) \in Nat /\ rows'[Len(rows) + 1] = m
        /\ \A i \in DOMAIN rows : rows'[i] = rows[i] /\ rows[i] \in Messages
    BY DEF ChatIInv, ChatTypeOK
  <2>2. \A i \in DOMAIN rows : /\ said[rows[i]].stage \in {"kept", "done"}
                               /\ rows[i] # m
    BY DEF ChatIInv, RowsAreKept
  <2>3. \A i \in DOMAIN rows : said'[rows[i]] = said[rows[i]]
    BY <1>1, <2>1, <2>2 DEF MovesOn
  <2>4. said'[m].stage = "kept"
    BY <1>1 DEF MovesOn
  <2>5. \A i \in DOMAIN rows' : i \in DOMAIN rows \/ i = Len(rows) + 1
    BY <2>1
  <2>6. \A i \in DOMAIN rows' : said'[rows'[i]].stage \in {"kept", "done"}
    BY <2>1, <2>2, <2>3, <2>4, <2>5
  <2>7. \A i, j \in DOMAIN rows' : rows'[i] = rows'[j] => i = j
    BY <2>1, <2>2, <2>5 DEF ChatIInv, RowsAreKept
  <2> QED
    BY <2>6, <2>7 DEF RowsAreKept
<1>6. \A c \in Connections :
        \A k \in Known : c \in said[k].to => c \in said'[k].to
  BY <1>1 DEF MovesOn, Known
<1>7. NothingIsLost'
  BY <1>2, <1>6, LeftAlone DEF ChatIInv, NothingIsLost
<1> QED
  BY <1>2, <1>4, <1>5, <1>7 DEF ChatIInv, SendersAreInOrder

LEMMA SaveFailsIInv ==
  ASSUME ChatIInv, NEW m \in Messages, SaveFails(m)
  PROVE  ChatIInv'
<1> USE DEF SaveFails, room, discord
<1>1. PICK stage \in {"kept", "refused"} :
        /\ MovesOn(m, stage, IF stage = "kept" THEN said[m].to ELSE {})
  <2>1. /\ said[m].to \in SUBSET Connections /\ {} \in SUBSET Connections
        /\ "kept" \in Stages /\ "refused" \in Stages
    BY DEF ChatIInv, ChatTypeOK, Stages
  <2>2. CASE said[m].from = Discord
    <3>1. PICK T \in SUBSET Connections : T = {}
      BY <2>1
    <3>2. said' = [said EXCEPT ![m].stage = "refused", ![m].to = T]
      BY <2>2, <3>1
    <3>3. MovesOn(m, "refused", T)
      BY <2>1, <3>2, Moves DEF ChatIInv
    <3> QED
      BY <3>1, <3>3
  <2>3. CASE said[m].from # Discord
    <3>1. Advance(m, "kept")
      BY <2>3
    <3>2. MovesOn(m, "kept", said[m].to)
      BY <2>1, <3>1, Moves DEF ChatIInv
    <3> QED
      BY <3>2
  <2> QED
    BY <2>2, <2>3
<1>2. PICK T : T = IF stage = "kept" THEN said[m].to ELSE {}
  OBVIOUS
<1>3. /\ MovesOn(m, stage, T) /\ T \subseteq said[m].to
      /\ stage # "kept" => T = {}
  BY <1>1, <1>2
<1>4. /\ SaidGoesOn /\ Known' = Known /\ OneAtATime' /\ EndedAreSent' /\ RowsAreKept'
      /\ InboxesAreKnown' /\ OutboundIsEnded' /\ InOrder(outbound)'
      /\ \A c \in Connections : InOrder(inbox[c])'
  BY <1>3, OneMovesOn
<1>5. ChatTypeOK'
  BY <1>1 DEF ChatIInv, ChatTypeOK, MovesOn
<1>6. \A c \in Connections : \A k \in Known :
        c \in said[k].to => c \in said'[k].to \/ said'[k].stage = "refused"
  <2>1. stage = "kept" => T = said[m].to
    BY <1>2
  <2> QED
    BY <1>3, <2>1 DEF MovesOn, Known
<1>7. NothingIsLost'
  BY <1>4, <1>6, LeftAlone DEF ChatIInv, NothingIsLost
<1> QED
  BY <1>4, <1>5, <1>7 DEF ChatIInv, SendersAreInOrder

LEMMA EmitPublicChatIInv ==
  ASSUME ChatIInv, NEW m \in Messages, EmitPublicChat(m)
  PROVE  ChatIInv'
<1> USE DEF EmitPublicChat, room
<1>1. PICK T : T = said[m].to
  OBVIOUS
<1>2. T = {} /\ MovesOn(m, "done", T)
  <2>1. said[m].to \in SUBSET Connections /\ "done" \in Stages
    BY DEF ChatIInv, ChatTypeOK, Stages
  <2> QED
    BY <1>1, <2>1, Moves DEF ChatIInv
<1>3. /\ SaidGoesOn /\ Known' = Known /\ OneAtATime' /\ EndedAreSent' /\ RowsAreKept'
      /\ InboxesAreKnown' /\ \A c \in Connections : InOrder(inbox[c])'
      /\ m \in Known /\ m \notin Ended /\ Ended' = Ended \cup {m}
      /\ outbound' = outbound => OutboundIsEnded' /\ InOrder(outbound)'
  BY <1>1, <1>2, OneMovesOn
<1>4. ASSUME outbound' = Append(outbound, m)
      PROVE  InOrder(outbound)' /\ OutboundIsEnded' /\ outbound' \in Seq(Messages)
  <2>1. PICK s \in Seq(Messages) : s = outbound
    BY DEF ChatIInv, ChatTypeOK
  <2>2. ToSet(s) \subseteq Ended /\ InOrder(s)
    BY <2>1 DEF ChatIInv, OutboundIsEnded, SendersAreInOrder
  <2>3. ASSUME NEW i \in DOMAIN s,
               said[m].from \in Connections, said[s[i]].from = said[m].from
        PROVE  s[i] < m
    <3>1. s[i] \in Ended /\ s[i] \in Known /\ s[i] \in Nat /\ m \in Nat
      BY <2>2 DEF ToSet, Ended, Known, Messages
    <3>2. ~(m < s[i])
      BY <1>3, <2>3, <3>1 DEF ChatIInv, OneAtATime
    <3> QED
      BY <1>3, <3>1, <3>2
  <2>4. InOrder(Append(s, m))
    BY <2>2, <2>3, InOrderAppend
  <2>5. /\ ToSet(Append(s, m)) = ToSet(s) \cup {m}
        /\ Append(s, m) \in Seq(Messages)
    BY ToSetAppend
  <2>6. PICK u \in Seq(Messages) : u = Append(s, m)
    BY <2>5
  <2>7. InOrder(u)'
    BY <1>3, <2>4, <2>6, GoesOn DEF ChatIInv
  <2>8. u = outbound'
    BY <1>4, <2>1, <2>6
  <2>9. InOrder(outbound)'
    BY ONLY <2>7, <2>8, Zenon DEF InOrder
  <2>10. OutboundIsEnded' /\ outbound' \in Seq(Messages)
    BY <1>3, <2>2, <2>5, <2>6, <2>8 DEF OutboundIsEnded
  <2> QED
    BY <2>9, <2>10
<1>5. ASSUME outbound' = outbound
      PROVE  InOrder(outbound)' /\ OutboundIsEnded' /\ outbound' \in Seq(Messages)
  BY <1>3, <1>5 DEF ChatIInv, ChatTypeOK
<1>6. InOrder(outbound)' /\ OutboundIsEnded' /\ outbound' \in Seq(Messages)
  <2>1. outbound' = Append(outbound, m) \/ outbound' = outbound
    BY DEF Enqueue
  <2> QED
    BY <1>4, <1>5, <2>1
<1>7. ChatTypeOK'
  BY <1>2, <1>6 DEF ChatIInv, ChatTypeOK, MovesOn
<1>8. \A c \in Connections :
        \A k \in Known : c \in said[k].to => c \in said'[k].to
  BY <1>1, <1>2 DEF MovesOn, Known
<1>9. NothingIsLost'
  BY <1>3, <1>8, LeftAlone DEF ChatIInv, NothingIsLost
<1> QED
  BY <1>3, <1>6, <1>7, <1>9 DEF ChatIInv, SendersAreInOrder

LEMMA DeliverIInv ==
  ASSUME ChatIInv, NEW m \in Messages, NEW c \in Connections, Deliver(m, c)
  PROVE  ChatIInv'
<1> USE DEF Deliver, Forget, discord
<1>1. PICK T : T = said[m].to \ {c}
  OBVIOUS
<1>2. /\ MovesOn(m, "kept", T) /\ T \subseteq said[m].to
  <2>1. T \in SUBSET Connections /\ "kept" \in Stages
    BY <1>1 DEF ChatIInv, ChatTypeOK, Stages
  <2> QED
    BY <1>1, <2>1, Moves DEF ChatIInv
<1>3. /\ SaidGoesOn /\ Known' = Known /\ OneAtATime' /\ EndedAreSent' /\ RowsAreKept'
      /\ OutboundIsEnded' /\ InOrder(outbound)'
      /\ \A d \in Connections : inbox'[d] = inbox[d] => InOrder(inbox[d])'
      /\ m \in Known /\ m \notin Ended
  BY <1>2, OneMovesOn
<1>4. /\ \A d \in Connections \ {c} : /\ inbox'[d] = inbox[d] /\ passed'[d] = passed[d]
                                      /\ history'[d] = history[d]
      /\ conn' = conn /\ full' \subseteq full \cup {c}
      /\ full \subseteq full'
  BY DEF ChatIInv, ChatTypeOK
<1>5. \/ /\ c \notin full /\ inbox'[c] = Append(inbox[c], m)
         /\ history' = history /\ full' = full /\ passed' = passed
      \/ /\ c \in full' /\ inbox'[c] = <<>> /\ history'[c] = NoHistory
         /\ passed'[c] = {}
  BY DEF ChatIInv, ChatTypeOK
<1>6. PICK s \in Seq(Messages) : s = inbox[c]
  BY DEF ChatIInv, ChatTypeOK
<1>7. /\ inbox'[c] \in Seq(Messages)
      /\ ToSet(inbox'[c]) \subseteq ToSet(inbox[c]) \cup {m}
  <2>1. /\ ToSet(Append(s, m)) = ToSet(s) \cup {m}
        /\ Append(s, m) \in Seq(Messages)
    BY ToSetAppend
  <2>2. <<>> \in Seq(Messages) /\ ToSet(<<>>) = {}
    BY ToSetEmpty
  <2> QED
    BY <1>5, <1>6, <2>1, <2>2
<1>8. ChatTypeOK'
  <2>1. /\ history' \in [Connections -> (SUBSET Messages) \cup {NoHistory}]
        /\ passed' \in [Connections -> SUBSET Messages]
    BY DEF ChatIInv, ChatTypeOK
  <2>2. inbox' \in [Connections -> Seq(Messages)]
    <3>1. \/ inbox' = [inbox EXCEPT ![c] = Append(@, m)]
          \/ inbox' = [inbox EXCEPT ![c] = <<>>]
      OBVIOUS
    <3>2. /\ inbox \in [Connections -> Seq(Messages)]
          /\ Append(inbox[c], m) \in Seq(Messages)
      BY <1>6, ToSetAppend DEF ChatIInv, ChatTypeOK
    <3>3. <<>> \in Seq(Messages)
      OBVIOUS
    <3>4. PICK q \in Seq(Messages) : inbox' = [inbox EXCEPT ![c] = q]
      BY <3>1, <3>2, <3>3
    <3> QED
      BY <3>2, <3>4
  <2>3. full' \subseteq Connections
    BY DEF ChatIInv, ChatTypeOK
  <2> QED
    BY <1>2, <2>1, <2>2, <2>3 DEF ChatIInv, ChatTypeOK, MovesOn
<1>9. InboxesAreKnown'
  <2>1. ASSUME NEW d \in Connections, NEW k \in ToSet(inbox'[d])
        PROVE  k \in Known' /\ d \notin said'[k].to
    <3>1. CASE k \in ToSet(inbox[d])
      <4>1. k \in Known /\ d \notin said[k].to /\ k \in Messages
        BY <3>1 DEF ChatIInv, InboxesAreKnown, Known
      <4> QED
        BY <1>3, <4>1 DEF SaidGoesOn
    <3>2. CASE d = c /\ k = m
      BY <1>1, <1>2, <1>3, <3>2 DEF MovesOn
    <3> QED
      BY <1>4, <1>7, <2>1, <3>1, <3>2
  <2> QED
    BY <2>1 DEF InboxesAreKnown
<1>10. InOrder(inbox[c])'
  <2>1. CASE inbox'[c] = <<>>
    BY <2>1 DEF InOrder
  <2>2. CASE inbox'[c] = Append(s, m)
    <3>1. ToSet(s) \subseteq Known /\ InOrder(s) /\ \A k \in ToSet(s) : c \notin said[k].to
      BY <1>6 DEF ChatIInv, InboxesAreKnown, SendersAreInOrder
    <3>2. ASSUME NEW i \in DOMAIN s,
                 said[m].from \in Connections, said[s[i]].from = said[m].from
          PROVE  s[i] < m
      <4>0. s[i] \in ToSet(s)
        BY DEF ToSet
      <4>1. s[i] \in ToSet(s) /\ s[i] \in Known /\ s[i] \in Nat /\ m \in Nat
        BY <3>1, <4>0 DEF Known, Messages
      <4>2. s[i] # m
        BY <3>1, <4>1
      <4>3. ~(m < s[i])
        BY <1>3, <3>2, <4>1 DEF ChatIInv, OneAtATime
      <4> QED
        BY <4>1, <4>2, <4>3
    <3>3. InOrder(Append(s, m))
      BY <3>1, <3>2, InOrderAppend
    <3>4. PICK u \in Seq(Messages) : u = Append(s, m)
      BY ToSetAppend
    <3>5. InOrder(u)'
      BY <1>3, <3>3, <3>4, GoesOn DEF ChatIInv
    <3>6. u = inbox'[c]
      BY <2>2, <3>4
    <3> QED
      BY ONLY <3>5, <3>6, Zenon DEF InOrder
  <2> QED
    BY <1>5, <1>6, <2>1, <2>2
<1>11. SendersAreInOrder'
  BY <1>3, <1>4, <1>10 DEF SendersAreInOrder
<1>12. ASSUME NEW d \in Connections
       PROVE  /\ conn'[d] \in {"new", "registered"} => history'[d] = NoHistory
              /\ history'[d] # NoHistory => history'[d] \subseteq Known'
              /\ d \notin full' /\ conn'[d] \in {"registered", "connected"} =>
                   \A k \in Known' : Reaches(d, k)'
  <2>1. CASE d = c /\ c \in full' /\ history'[c] = NoHistory
    BY <2>1
  <2>2. CASE d # c
    <3>1. \A k \in Known : d \in said[k].to => d \in said'[k].to
      BY <1>1, <1>2, <2>2 DEF MovesOn, Known
    <3>2. /\ conn'[d] = conn[d] /\ history'[d] = history[d] /\ passed'[d] = passed[d]
          /\ d \notin full' => d \notin full
          /\ ToSet(inbox[d]) \subseteq ToSet(inbox'[d])
      BY <1>4, <2>2
    <3> QED
      BY <1>3, <3>1, <3>2, LeftAlone DEF ChatIInv
  <2>3. CASE /\ d = c /\ c \notin full /\ inbox'[c] = Append(inbox[c], m)
             /\ history' = history /\ full' = full /\ passed' = passed
    <3>1. ToSet(inbox'[c]) = ToSet(inbox[c]) \cup {m}
      BY <1>6, <2>3, ToSetAppend
    <3>2. \A k \in Known : c \in said[k].to => c \in said'[k].to \/ k \in ToSet(inbox'[c])
      BY <1>2, <3>1 DEF MovesOn, Known
    <3> QED
      BY <1>3, <1>4, <2>3, <3>1, <3>2, LeftAlone DEF ChatIInv
  <2> QED
    BY <1>5, <2>1, <2>2, <2>3
<1>13. NothingIsLost'
  BY <1>12 DEF NothingIsLost
<1> QED
  BY <1>3, <1>8, <1>9, <1>11, <1>13 DEF ChatIInv

-----------------------------------------------------------------------------
(* The bridge *)

LEMMA BridgeIInv ==
  ASSUME ChatIInv, UNCHANGED <<room, said, rows>>,
         \/ outbound' = outbound
         \/ outbound # <<>> /\ outbound' = Tail(outbound),
         trying' \in 0 .. Attempts, running' \in BOOLEAN, stop' \in BOOLEAN
  PROVE  ChatIInv'
<1> USE DEF room
<1>1. Known' = Known /\ Ended' = Ended
  BY DEF Known, Ended
<1>2. InOrder(outbound)' /\ OutboundIsEnded' /\ outbound' \in Seq(Messages)
  <2>1. outbound \in Seq(Messages) /\ InOrder(outbound) /\ ToSet(outbound) \subseteq Ended
    BY DEF ChatIInv, ChatTypeOK, SendersAreInOrder, OutboundIsEnded
  <2>2. PICK u : u = outbound'
    OBVIOUS
  <2>3. u \in Seq(Messages) /\ InOrder(u) /\ ToSet(u) \subseteq Ended
    <3>1. PICK s \in Seq(Messages) : s = outbound
      BY <2>1
    <3>2. CASE u = s
      BY <2>1, <3>1, <3>2
    <3>3. CASE s # <<>> /\ u = Tail(s)
      <4>1. u \in Seq(Messages)
        BY <3>3
      <4>2. InOrder(u) /\ ToSet(u) \subseteq ToSet(s)
        BY <2>1, <3>1, <3>3, InOrderTail
      <4> QED
        BY <2>1, <3>1, <4>1, <4>2
    <3> QED
      BY <2>2, <3>1, <3>2, <3>3
  <2>4. InOrder(u)'
    BY <2>3 DEF InOrder
  <2>5. InOrder(outbound)'
    BY ONLY <2>2, <2>4, Zenon DEF InOrder
  <2> QED
    BY <1>1, <2>2, <2>3, <2>5 DEF OutboundIsEnded
<1>3. ChatTypeOK'
  BY <1>2 DEF ChatIInv, ChatTypeOK
<1>4. OneAtATime' /\ RowsAreKept'
  BY <1>1 DEF ChatIInv, OneAtATime, RowsAreKept
<1>5. InboxesAreKnown' /\ EndedAreSent'
  BY <1>1 DEF ChatIInv, InboxesAreKnown, EndedAreSent
<1>6. SendersAreInOrder'
  BY <1>2 DEF ChatIInv, SendersAreInOrder, InOrder
<1>7. NothingIsLost'
  BY <1>1 DEF ChatIInv, NothingIsLost, Reaches, PushedOut
<1> QED
  BY <1>2, <1>3, <1>4, <1>5, <1>6, <1>7 DEF ChatIInv

LEMMA StepIInv == ChatIInv /\ [ChatNext]_chatVars => ChatIInv'
<1> SUFFICES ASSUME ChatIInv, [ChatNext]_chatVars PROVE ChatIInv'
  OBVIOUS
<1>1. /\ trying \in 0 .. Attempts /\ running \in BOOLEAN /\ stop \in BOOLEAN
      /\ Attempts \in Nat \ {0}
  BY ChatConstants DEF ChatIInv, ChatTypeOK
<1>2. ASSUME NEW c \in Connections, Register(c) \/ Welcome(c) \/ Unregister(c)
      PROVE  ChatIInv'
  BY <1>2, RegisterIInv, WelcomeIInv, UnregisterIInv
<1>3. ASSUME NEW c \in Connections, HandleChat(c)
      PROVE  ChatIInv'
  <2>1. PICK t \in Stamps(c) : Begin(c, t)
    BY <1>3 DEF HandleChat
  <2>2. t \in Nat
    BY DEF Stamps
  <2> QED
    BY <1>3, <2>1, <2>2, BeginIInv DEF HandleChat, MayChat
<1>4. ASSUME HandleDiscord
      PROVE  ChatIInv'
  <2>1. PICK t \in Stamps(Discord) : Begin(Discord, t)
    BY <1>4 DEF HandleDiscord, BroadcastExternalChat
  <2>2. t \in Nat /\ Discord \notin Connections
    BY ChatConstants DEF Stamps
  <2> QED
    BY <2>1, <2>2, BeginIInv
<1>5. ASSUME NEW m \in Messages, Handle(m)
      PROVE  ChatIInv'
  BY <1>5, SaveIInv, SaveFailsIInv, DeliverIInv, EmitPublicChatIInv DEF Handle
<1>6. ASSUME Take
      PROVE  ChatIInv'
  <2>1. 1 \in 0 .. Attempts
    BY <1>1
  <2> QED
    BY <1>1, <1>6, <2>1, BridgeIInv DEF Take
<1>7. ASSUME Answered \/ Unanswered
      PROVE  ChatIInv'
  <2>1. trying' \in 0 .. Attempts
    BY <1>1, <1>7 DEF Answered, Unanswered, NextAttempt
  <2> QED
    BY <1>1, <1>7, <2>1, BridgeIInv DEF Answered, Unanswered
<1>8. ASSUME Stop \/ Close
      PROVE  ChatIInv'
  BY <1>1, <1>8, BridgeIInv DEF Stop, Close
<1>9. ASSUME UNCHANGED chatVars
      PROVE  ChatIInv'
  BY <1>1, <1>9, BridgeIInv DEF chatVars, discord
<1> QED
  BY <1>2, <1>3, <1>4, <1>5, <1>6, <1>7, <1>8, <1>9 DEF ChatNext, RunBridge

-----------------------------------------------------------------------------
(* Theorems *)

\* The chat of every number of connections and messages keeps the inductive
\* invariant: what its handlers, the welcomes and the bridge rely on.
THEOREM ChatInvariance == ChatSpec => []ChatIInv
BY ChatInitIInv, StepIInv, PTL DEF ChatSpec

\* What a sender says arrives in its order at every connection and at the bridge:
\* it has one handler at a time, and this one ends with emitPublicChat.
THEOREM NobodyIsOvertaken == ChatSpec => []SendersAreInOrder
<1>1. ChatIInv => SendersAreInOrder
  BY DEF ChatIInv
<1> QED
  BY <1>1, ChatInvariance, PTL

\* Registering before the loading of the history leaves a gap only for messages
\* that were on their way all the while.
THEOREM NothingFallsBetween == ChatSpec => []HistoryMeetsLive
<1>1. ChatIInv => HistoryMeetsLive
  <2> SUFFICES ASSUME ChatIInv, NEW c \in Connections, c \notin full, conn[c] # "gone",
                      history[c] # NoHistory, NEW m \in Ended, m \in ToSet(rows)
               PROVE  \/ m \in history[c] \/ m \in ToSet(inbox[c])
                      \/ PushedOut(c, m) \/ m \in passed[c]
    BY DEF HistoryMeetsLive
  <2>1. conn[c] = "connected"
    BY DEF ChatIInv, ChatTypeOK, NothingIsLost
  <2>2. m \in Known /\ said[m].to = {}
    BY DEF ChatIInv, EndedAreSent, Ended, Known
  <2>3. said[m].stage # "refused"
    BY DEF ChatIInv, RowsAreKept, ToSet
  <2>4. Reaches(c, m)
    BY <2>1, <2>2 DEF ChatIInv, NothingIsLost
  <2> QED
    BY <2>2, <2>3, <2>4 DEF Reaches
<1> QED
  BY <1>1, ChatInvariance, PTL

=============================================================================
