---------------------------- MODULE TravelProofs ----------------------------
(***************************************************************************)
(* Proofs about Travel.tla, for any number of connections, worlds, doors   *)
(* and authorizations.  The central argument is a balance: an unused       *)
(* grant, a reserved arrival and the right to resume the saved place are   *)
(* each worth one entry, no step creates such a token without adding to    *)
(* permits, and an entry into a timed interior uses one up.                *)
(***************************************************************************)
EXTENDS Travel, TLAPS

\* What the maps hold for one client.
LEMMA ClientFields ==
  ASSUME TypeOK, NEW c \in Clients
  PROVE  /\ presences[c] \in Presence /\ presences[c].here \in BOOLEAN
         /\ grants[c] \in Grant /\ grants[c].here \in BOOLEAN
         /\ grants[c].expires \in Nat
         /\ arrivals[c] \in Arrival /\ arrivals[c].here \in BOOLEAN
         /\ announced[c] \in BOOLEAN
         /\ stamp[c] \in Nat /\ now \in Nat
         /\ \A w \in Worlds : entries[c][w] \in Nat /\ permits[c][w] \in Int
  BY DEF TypeOK, Presence, Grant, Arrival

LEMMA ZeroValues ==
  /\ NoPresence \in Presence /\ ~NoPresence.here /\ NoPresence.here \in BOOLEAN
  /\ NoGrant \in Grant /\ ~NoGrant.here /\ NoGrant.here \in BOOLEAN
  /\ NoArrival \in Arrival /\ ~NoArrival.here /\ NoArrival.here \in BOOLEAN
  BY DEF NoPresence, NoGrant, NoArrival, Presence, Grant, Arrival

\* Counting one more permit or entry of c for w.
LEMMA OneMoreEffect ==
  ASSUME NEW S \in {Nat, Int}, NEW count \in [Clients -> [Worlds -> S]],
         NEW c \in Clients, NEW w \in Worlds
  PROVE  /\ OneMore(count, c, w) \in [Clients -> [Worlds -> S]]
         /\ \A d \in Clients, u \in Worlds :
              OneMore(count, c, w)[d][u] =
                IF d = c /\ u = w THEN count[d][u] + 1 ELSE count[d][u]
<1> DEFINE row == [count[c] EXCEPT ![w] = count[c][w] + 1]
<1>1. row \in [Worlds -> S]
  OBVIOUS
<1>2. \A u \in Worlds : row[u] = IF u = w THEN count[c][u] + 1 ELSE count[c][u]
  OBVIOUS
<1>3. OneMore(count, c, w) = [count EXCEPT ![c] = row]
  BY DEF OneMore
<1> HIDE DEF row
<1> QED
  BY <1>1, <1>2, <1>3

\* A map without the key reads as the zero value.
FilledIn ==
  \A c \in Clients :
    /\ IF presences[c].here THEN presences[c].world \in Worlds
                            ELSE presences[c] = NoPresence
    /\ IF grants[c].here THEN grants[c].rule \in Rules ELSE grants[c] = NoGrant
    /\ IF arrivals[c].here THEN arrivals[c].destination \in Worlds
                           ELSE arrivals[c] = NoArrival

-----------------------------------------------------------------------------
(* Type correctness *)

LEMMA DepartType ==
  ASSUME TypeOK, NEW c \in Clients, Depart(c)
  PROVE  /\ presences' \in [Clients -> Presence]
         /\ departed' \in [Clients -> Worlds \cup {NoWorld}]
         /\ \A d \in Clients : IF presences'[d].here THEN presences'[d].world \in Worlds
                                                     ELSE presences'[d] = NoPresence
<1>1. CASE presences[c].here
  <2>1. /\ presences' = [presences EXCEPT ![c] = NoPresence]
        /\ departed' = [departed EXCEPT ![c] = presences[c].world]
    BY <1>1 DEF Depart
  <2>2. presences[c].world \in Worlds \cup {NoWorld}
    BY DEF TypeOK, Presence
  <2> QED
    BY <2>1, <2>2, ZeroValues DEF TypeOK
<1>2. CASE ~presences[c].here
  BY <1>2 DEF Depart, TypeOK
<1> QED
  BY <1>1, <1>2

LEMMA HandlePresenceType ==
  ASSUME TypeOK, NEW c \in Clients, NEW w \in Worlds, NEW p \in Positions,
         NEW f \in BOOLEAN, HandlePresence(c, w, p, f)
  PROVE  TypeOK'
<1> DEFINE report == [here |-> TRUE, world |-> w, at |-> p, onFoot |-> f]
<1>1. report \in Presence /\ report.here /\ report.world = w
  BY DEF Presence
<1> HIDE DEF report
<1>2. presences' = presences \/ presences' = [presences EXCEPT ![c] = report]
  BY DEF HandlePresence, report
<1>3. arrivals' = arrivals \/ arrivals' = [arrivals EXCEPT ![c] = NoArrival]
  BY DEF HandlePresence, ArrivalsAfter
<1>4. grants' = grants \/ grants' = [grants EXCEPT ![c] = NoGrant]
  BY DEF HandlePresence, GrantsAfter
<1>5. departed' \in [Clients -> Worlds \cup {NoWorld}]
  BY DEF HandlePresence, TypeOK
<1>6. announced' \in [Clients -> BOOLEAN]
  BY DEF HandlePresence, TypeOK
<1>7. entries' \in [Clients -> [Worlds -> Nat]]
  <2>1. entries' = entries \/ entries' = OneMore(entries, c, w)
    BY DEF HandlePresence
  <2>2. entries \in [Clients -> [Worlds -> Nat]]
    BY DEF TypeOK
  <2> QED
    <3>1. OneMore(entries, c, w) \in [Clients -> [Worlds -> Nat]]
      BY <2>2, OneMoreEffect
    <3> QED
      BY <2>1, <2>2, <3>1
<1>8. presences' \in [Clients -> Presence]
  BY <1>1, <1>2 DEF TypeOK
<1>9. arrivals' \in [Clients -> Arrival] /\ grants' \in [Clients -> Grant]
  <2>1. arrivals \in [Clients -> Arrival] /\ grants \in [Clients -> Grant]
    BY DEF TypeOK
  <2>2. arrivals' \in [Clients -> Arrival]
    BY <2>1, <1>3, ZeroValues
  <2>3. grants' \in [Clients -> Grant]
    BY <2>1, <1>4, ZeroValues
  <2> QED
    BY <2>2, <2>3
<1>10. FilledIn'
  <2> SUFFICES ASSUME NEW d \in Clients
               PROVE  /\ IF presences'[d].here THEN presences'[d].world \in Worlds
                                               ELSE presences'[d] = NoPresence
                      /\ IF grants'[d].here THEN grants'[d].rule \in Rules
                                            ELSE grants'[d] = NoGrant
                      /\ IF arrivals'[d].here THEN arrivals'[d].destination \in Worlds
                                              ELSE arrivals'[d] = NoArrival
    BY DEF FilledIn
  <2>1. presences'[d] = presences[d] \/ presences'[d] = report
    BY <1>2 DEF TypeOK
  <2>2. arrivals'[d] = arrivals[d] \/ arrivals'[d] = NoArrival
    BY <1>3 DEF TypeOK
  <2>3. grants'[d] = grants[d] \/ grants'[d] = NoGrant
    BY <1>4 DEF TypeOK
  <2> QED
    BY <2>1, <2>2, <2>3, <1>1, ZeroValues DEF TypeOK
<1> QED
  BY <1>5, <1>6, <1>7, <1>8, <1>9, <1>10 DEF HandlePresence, TypeOK, FilledIn

LEMMA AuthorizeType ==
  ASSUME TypeOK, NEW c \in Clients, NEW q \in RequestIDs, NEW r \in Rules,
         NEW a \in Authorizations, AuthorizeTransition(c, q, r, a)
  PROVE  TypeOK'
<1> DEFINE grant == [here |-> TRUE, request |-> q, authorization |-> a, rule |-> r,
                     expires |-> now + Lifetime[r]]
<1>1. grant \in Grant /\ grant.here /\ grant.rule = r
  BY ConstantsAssumption DEF Grant, TypeOK
<1> HIDE DEF grant
<1>2. grants' = [grants EXCEPT ![c] = grant]
  BY DEF AuthorizeTransition, grant
<1>3. grants' \in [Clients -> Grant]
  BY <1>1, <1>2 DEF TypeOK
<1>4. FilledIn'
  BY <1>1, <1>2 DEF AuthorizeTransition, TypeOK, FilledIn
<1>5. permits' \in [Clients -> [Worlds -> Int]]
  BY OneMoreEffect, ConstantsAssumption DEF AuthorizeTransition, TypeOK
<1> QED
  BY <1>3, <1>4, <1>5 DEF AuthorizeTransition, TypeOK, FilledIn

LEMMA CommitTransitionType ==
  ASSUME TypeOK, NEW c \in Clients, NEW q \in RequestIDs,
         NEW a \in Authorizations, CommitTransition(c, q, a)
  PROVE  TypeOK'
<1> DEFINE good == NamesGrant(c, q, a) /\ GrantIsGood(c)
           arrival == [here |-> TRUE, source |-> Source[grants[c].rule],
                       destination |-> Destination[grants[c].rule]]
<1>1. good => /\ arrival \in Arrival /\ arrival.here
              /\ arrival.destination \in Worlds
  BY ConstantsAssumption DEF TypeOK, NamesGrant, Arrival
<1> HIDE DEF good, arrival
<1>2. \/ arrivals' = arrivals
      \/ good /\ arrivals' = [arrivals EXCEPT ![c] = arrival]
  BY DEF CommitTransition, good, arrival
<1>3. grants' = grants \/ grants' = [grants EXCEPT ![c] = NoGrant]
  BY DEF CommitTransition, GrantsLeft
<1>4. arrivals' \in [Clients -> Arrival] /\ grants' \in [Clients -> Grant]
  BY <1>1, <1>2, <1>3, ZeroValues DEF TypeOK
<1>5. FilledIn'
  BY <1>1, <1>2, <1>3, ZeroValues DEF CommitTransition, TypeOK, FilledIn
<1>6. /\ pc' \in [Clients -> {"idle", "requesting", "committing", "leaving", "undoing"}]
      /\ stamp' \in [Clients -> Nat]
  BY DEF CommitTransition, TypeOK
<1> QED
  BY <1>4, <1>5, <1>6 DEF CommitTransition, TypeOK, FilledIn

LEMMA TickType ==
  ASSUME TypeOK, Tick
  PROVE  TypeOK'
<1>1. permits' \in [Clients -> [Worlds -> Int]]
  BY DEF Tick, TypeOK
<1> QED
  BY <1>1 DEF Tick, TypeOK

LEMMA InitType == Init => TypeOK
  BY ConstantsAssumption, ZeroValues DEF Init, TypeOK

LEMMA StepType ==
  ASSUME TypeOK, [Next]_vars
  PROVE  TypeOK'
<1>1. ASSUME NEW c \in Clients, NEW w \in Worlds \cup {NoWorld}, Register(c, w)
      PROVE  TypeOK'
  BY <1>1 DEF Register, TypeOK
<1>2. ASSUME NEW c \in Clients, Unregister(c)
      PROVE  TypeOK'
  <2>1. /\ presences' \in [Clients -> Presence]
        /\ grants' \in [Clients -> Grant]
        /\ arrivals' \in [Clients -> Arrival]
    BY <1>2, ZeroValues DEF Unregister, TypeOK
  <2>2. FilledIn'
    BY <1>2, ZeroValues DEF Unregister, TypeOK, FilledIn
  <2> QED
    BY <1>2, <2>1, <2>2 DEF Unregister, TypeOK, FilledIn
<1>3. ASSUME NEW c \in Clients, LeaveWorld(c)
      PROVE  TypeOK'
  <2>1. grants' \in [Clients -> Grant] /\ arrivals' \in [Clients -> Arrival]
    BY <1>3, ZeroValues DEF LeaveWorld, TypeOK
  <2>2. FilledIn'
    BY <1>3, ZeroValues, DepartType DEF LeaveWorld, TypeOK, FilledIn
  <2> QED
    BY <1>3, <2>1, <2>2, DepartType DEF LeaveWorld, TypeOK, FilledIn
<1>4. ASSUME NEW c \in Clients, BeginRequest(c)
      PROVE  TypeOK'
  BY <1>4 DEF BeginRequest, TypeOK
<1>5. ASSUME NEW c \in Clients, RefuseTransition(c)
      PROVE  TypeOK'
  <2>1. grants' \in [Clients -> Grant]
    BY <1>5, ZeroValues DEF RefuseTransition, TypeOK
  <2>2. FilledIn'
    BY <1>5, ZeroValues DEF RefuseTransition, TypeOK, FilledIn
  <2> QED
    BY <1>5, <2>1, <2>2 DEF RefuseTransition, TypeOK, FilledIn
<1>6. ASSUME NEW c \in Clients, BeginCommit(c)
      PROVE  TypeOK'
  BY <1>6 DEF BeginCommit, TypeOK
<1>7. ASSUME NEW c \in Clients, CommitLeaves(c)
      PROVE  TypeOK'
  BY <1>7, DepartType DEF CommitLeaves, TypeOK
<1>8. ASSUME NEW c \in Clients, CommitUndone(c)
      PROVE  TypeOK'
  <2>1. arrivals' \in [Clients -> Arrival]
    BY <1>8, ZeroValues DEF CommitUndone, TypeOK
  <2>2. FilledIn'
    BY <1>8, ZeroValues DEF CommitUndone, TypeOK, FilledIn
  <2> QED
    BY <1>8, <2>1, <2>2 DEF CommitUndone, TypeOK, FilledIn
<1>9. ASSUME NEW m \in 0 .. Day - 1, GameClock(m)
      PROVE  TypeOK'
  BY <1>9 DEF GameClock, TypeOK
<1>10. CASE UNCHANGED vars
  BY <1>10 DEF vars, TypeOK
<1> QED
  BY <1>1, <1>2, <1>3, <1>4, <1>5, <1>6, <1>7, <1>8, <1>9, <1>10,
     HandlePresenceType, AuthorizeType, CommitTransitionType, TickType DEF Next

-----------------------------------------------------------------------------
(* The inductive invariant, one client at a time *)

Balanced(c) ==
  \A w \in Worlds :
    entries[c][w]
      + (IF Usable(c, now) /\ Destination[grants[c].rule] = w THEN 1 ELSE 0)
      + (IF arrivals[c].here /\ arrivals[c].destination = w THEN 1 ELSE 0)
      + (IF ~announced[c] /\ initial[c] = w THEN 1 ELSE 0)
      <= permits[c][w] + Saved(c, w)

OnTheWay(c) ==
  arrivals[c].here /\ pc[c] # "leaving" =>
    ~presences[c].here /\ departed[c] = arrivals[c].source

AtSource(c) ==
  grants[c].here =>
    /\ conn[c] = "live" /\ presences[c].here
    /\ presences[c].world = Source[grants[c].rule]

LeftNothing(c) ==
  conn[c] = "closed" =>
    /\ ~presences[c].here /\ departed[c] = NoWorld
    /\ ~grants[c].here /\ ~arrivals[c].here

UnderWay(c) ==
  /\ pc[c] \in {"leaving", "undoing"} => ~grants[c].here
  /\ pc[c] = "leaving" /\ conn[c] # "closed" =>
       presences[c].here /\ arrivals[c].here
       /\ presences[c].world = arrivals[c].source
  /\ pc[c] = "undoing" => conn[c] = "closed"

Blank(c) ==
  /\ conn[c] = "new" => initial[c] = NoWorld /\ pc[c] = "idle"
  /\ presences[c].here => announced[c]

Places(c) == OnTheWay(c) /\ AtSource(c) /\ LeftNothing(c) /\ UnderWay(c) /\ Blank(c)

LEMMA ByClient ==
  IInv <=> TypeOK /\ \A c \in Clients : Balanced(c) /\ Places(c)
  BY DEF IInv, PermitsCoverEntries, ArrivalIsOnTheWay, GrantHolderIsAtSource,
         ClosedLeavesNothing, CommitUnderWay, NewIsBlank, Balanced, OnTheWay, AtSource,
         LeftNothing, UnderWay, Blank, Places

LEMMA ByClientNext ==
  ASSUME TypeOK', \A c \in Clients : Balanced(c)' /\ Places(c)'
  PROVE  IInv'
  BY DEF IInv, PermitsCoverEntries, ArrivalIsOnTheWay, GrantHolderIsAtSource,
         ClosedLeavesNothing, CommitUnderWay, NewIsBlank, Balanced, OnTheWay, AtSource,
         LeftNothing, UnderWay, Blank, Places

\* A handler does not disturb the clients it is not about.
Same(d) ==
  /\ conn'[d] = conn[d] /\ initial'[d] = initial[d] /\ announced'[d] = announced[d]
  /\ presences'[d] = presences[d] /\ departed'[d] = departed[d]
  /\ grants'[d] = grants[d] /\ arrivals'[d] = arrivals[d]
  /\ pc'[d] = pc[d] /\ stamp'[d] = stamp[d]
  /\ permits'[d] = permits[d] /\ entries'[d] = entries[d]

LEMMA OthersKept ==
  ASSUME NEW d \in Clients, Same(d), now' = now, Balanced(d), Places(d)
  PROVE  Balanced(d)' /\ Places(d)'
<1>1. Balanced(d)'
  BY DEF Same, Balanced, Usable, Saved
<1>2. Places(d)'
  BY DEF Same, Places, OnTheWay, AtSource, LeftNothing, UnderWay, Blank
<1> QED
  BY <1>1, <1>2

-----------------------------------------------------------------------------
(* One lemma per handler: its own client keeps the invariant *)

LEMMA RegisterStep ==
  ASSUME TypeOK, NEW c \in Clients, Balanced(c), Places(c),
         NEW w \in Worlds \cup {NoWorld}, Register(c, w)
  PROVE  /\ Balanced(c)' /\ Places(c)'
         /\ now' = now /\ \A d \in Clients \ {c} : Same(d)
<1>1. /\ conn[c] = "new" /\ conn'[c] = "live" /\ initial'[c] = w
      /\ UNCHANGED <<now, announced, presences, departed, grants, arrivals,
                     pc, stamp, permits, entries>>
  BY DEF Register, TypeOK
<1>2. initial[c] = NoWorld /\ pc[c] = "idle"
  BY <1>1 DEF Places, Blank
<1>3. Balanced(c)'
  <2> SUFFICES ASSUME NEW u \in Worlds
               PROVE  entries[c][u]
                        + (IF Usable(c, now) /\ Destination[grants[c].rule] = u THEN 1 ELSE 0)
                        + (IF arrivals[c].here /\ arrivals[c].destination = u THEN 1 ELSE 0)
                        + (IF ~announced[c] /\ w = u THEN 1 ELSE 0)
                        <= permits[c][u] + (IF w = u THEN 1 ELSE 0)
    BY <1>1 DEF Balanced, Usable, Saved
  <2>1. entries[c][u]
          + (IF Usable(c, now) /\ Destination[grants[c].rule] = u THEN 1 ELSE 0)
          + (IF arrivals[c].here /\ arrivals[c].destination = u THEN 1 ELSE 0)
          <= permits[c][u]
    BY <1>2, ConstantsAssumption, ClientFields DEF Balanced, Saved
  <2> QED
    BY <2>1, ClientFields
<1>4. Places(c)'
  BY <1>1, <1>2 DEF Places, OnTheWay, AtSource, LeftNothing, UnderWay, Blank
<1>5. \A d \in Clients \ {c} : Same(d)
  BY DEF Register, Same, TypeOK
<1> QED
  BY <1>1, <1>3, <1>4, <1>5

LEMMA UnregisterStep ==
  ASSUME TypeOK, NEW c \in Clients, Balanced(c), Places(c), Unregister(c)
  PROVE  /\ Balanced(c)' /\ Places(c)'
         /\ now' = now /\ \A d \in Clients \ {c} : Same(d)
<1>1. /\ conn[c] = "live" /\ conn'[c] = "closed"
      /\ ~presences'[c].here /\ departed'[c] = NoWorld
      /\ ~grants'[c].here /\ ~arrivals'[c].here
      /\ UNCHANGED <<now, initial, announced, pc, stamp, permits, entries>>
  BY ZeroValues DEF Unregister, TypeOK
<1>2. Balanced(c)'
  BY <1>1, ClientFields DEF Balanced, Usable, Saved
<1>3. Places(c)'
  BY <1>1 DEF Places, OnTheWay, AtSource, LeftNothing, UnderWay, Blank
<1>4. \A d \in Clients \ {c} : Same(d)
  BY DEF Unregister, Same, TypeOK
<1> QED
  BY <1>1, <1>2, <1>3, <1>4

\* What Depart does to its client, and to nobody else.
LEMMA DepartEffect ==
  ASSUME TypeOK, NEW c \in Clients, Depart(c)
  PROVE  /\ ~presences'[c].here
         /\ departed'[c] = IF presences[c].here THEN presences[c].world ELSE departed[c]
         /\ \A d \in Clients \ {c} :
              presences'[d] = presences[d] /\ departed'[d] = departed[d]
<1>1. CASE presences[c].here
  BY <1>1, ZeroValues DEF Depart, TypeOK
<1>2. CASE ~presences[c].here
  BY <1>2 DEF Depart, TypeOK
<1> QED
  BY <1>1, <1>2

LEMMA LeaveWorldStep ==
  ASSUME TypeOK, NEW c \in Clients, Balanced(c), Places(c), LeaveWorld(c)
  PROVE  /\ Balanced(c)' /\ Places(c)'
         /\ now' = now /\ \A d \in Clients \ {c} : Same(d)
<1>1. /\ conn[c] # "new" /\ pc[c] = "idle"
      /\ ~grants'[c].here /\ ~arrivals'[c].here
      /\ \A d \in Clients \ {c} : grants'[d] = grants[d] /\ arrivals'[d] = arrivals[d]
      /\ UNCHANGED <<now, conn, initial, announced, pc, stamp, permits, entries>>
  BY ZeroValues DEF LeaveWorld, TypeOK
<1>2. /\ ~presences'[c].here
      /\ departed'[c] = IF presences[c].here THEN presences[c].world ELSE departed[c]
      /\ \A d \in Clients \ {c} :
           presences'[d] = presences[d] /\ departed'[d] = departed[d]
  BY DepartEffect DEF LeaveWorld
<1>3. Balanced(c)'
  BY <1>1, ClientFields DEF Balanced, Usable, Saved
<1>4. Places(c)'
  BY <1>1, <1>2 DEF Places, OnTheWay, AtSource, LeftNothing, UnderWay, Blank
<1>5. \A d \in Clients \ {c} : Same(d)
  BY <1>1, <1>2 DEF Same
<1> QED
  BY <1>1, <1>3, <1>4, <1>5

\* A client that may report w and is not in flight: where it stands after.
LEMMA HandlePresenceStep ==
  ASSUME TypeOK, NEW c \in Clients, Balanced(c), Places(c), NEW w \in Worlds,
         NEW p \in Positions, NEW f \in BOOLEAN, HandlePresence(c, w, p, f)
  PROVE  /\ Balanced(c)' /\ Places(c)'
         /\ now' = now /\ \A d \in Clients \ {c} : Same(d)
<1> DEFINE comesIn == Allowed(c, w) /\ Controls(w) /\ ComesFrom(c) # w
           drops == /\ Allowed(c, w) /\ ~Arriving(c, w) /\ ~Controls(w)
                    /\ grants[c].here /\ w # Source[grants[c].rule]
<1>1. /\ conn[c] = "live" /\ pc[c] = "idle"
      /\ UNCHANGED <<now, conn, initial, pc, stamp, permits>>
  BY DEF HandlePresence
<1>2. /\ Allowed(c, w) =>
           /\ presences'[c].here /\ presences'[c].world = w
           /\ departed'[c] = NoWorld /\ announced'[c]
      /\ ~Allowed(c, w) => UNCHANGED <<presences, departed, announced, entries>>
      /\ \A d \in Clients \ {c} :
           /\ presences'[d] = presences[d] /\ departed'[d] = departed[d]
           /\ announced'[d] = announced[d]
  <2>1. CASE Allowed(c, w)
    BY <2>1 DEF HandlePresence, TypeOK
  <2>2. CASE ~Allowed(c, w)
    BY <2>2 DEF HandlePresence
  <2> QED
    BY <2>1, <2>2
<1>3. /\ InFlight(c, w) => arrivals'[c] = arrivals[c]
      /\ ~InFlight(c, w) => ~arrivals'[c].here
      /\ \A d \in Clients \ {c} : arrivals'[d] = arrivals[d]
  BY ZeroValues DEF HandlePresence, ArrivalsAfter, TypeOK
<1>4. /\ drops => ~grants'[c].here
      /\ ~drops => grants'[c] = grants[c]
      /\ \A d \in Clients \ {c} : grants'[d] = grants[d]
  BY ZeroValues DEF HandlePresence, GrantsAfter, TypeOK
<1>5. \A d \in Clients, u \in Worlds :
        entries'[d][u] = IF d = c /\ u = w /\ comesIn THEN entries[d][u] + 1
                                                      ELSE entries[d][u]
  <2>1. entries' = IF comesIn THEN OneMore(entries, c, w) ELSE entries
    BY DEF HandlePresence
  <2>2. entries \in [Clients -> [Worlds -> Nat]]
    BY DEF TypeOK
  <2>3. \A d \in Clients, u \in Worlds :
          OneMore(entries, c, w)[d][u] =
            IF d = c /\ u = w THEN entries[d][u] + 1 ELSE entries[d][u]
    BY <2>2, OneMoreEffect
  <2> QED
    BY <2>1, <2>3
<1>6. \A d \in Clients \ {c} : entries'[d] = entries[d]
  <2>1. entries' = entries \/ entries' = OneMore(entries, c, w)
    BY DEF HandlePresence
  <2> QED
    BY <2>1 DEF OneMore, TypeOK
<1> HIDE DEF comesIn, drops
\* An entry is paid for by the arrival it ends or by the saved place.
<1>7. comesIn =>
        \/ arrivals[c].here /\ arrivals[c].destination = w /\ ~arrivals'[c].here
        \/ ~announced[c] /\ initial[c] = w /\ announced'[c]
  <2> SUFFICES ASSUME comesIn, ~(~announced[c] /\ initial[c] = w)
               PROVE  arrivals[c].here /\ arrivals[c].destination = w
                      /\ ~arrivals'[c].here
    BY <1>2 DEF comesIn
  <2>1. Arriving(c, w)
    BY DEF comesIn, Allowed, Resumes
  <2> QED
    BY <2>1, <1>3 DEF Arriving, InFlight
<1>8. /\ announced[c] => announced'[c]
      /\ arrivals'[c].here => arrivals[c].here /\ arrivals'[c] = arrivals[c]
      /\ grants'[c].here => grants[c].here /\ grants'[c] = grants[c]
  BY <1>2, <1>3, <1>4 DEF InFlight
<1>9. Balanced(c)'
  <2> SUFFICES ASSUME NEW u \in Worlds
               PROVE  entries'[c][u]
                        + (IF Usable(c, now)' /\ Destination[grants'[c].rule] = u
                           THEN 1 ELSE 0)
                        + (IF arrivals'[c].here /\ arrivals'[c].destination = u
                           THEN 1 ELSE 0)
                        + (IF ~announced'[c] /\ initial[c] = u THEN 1 ELSE 0)
                        <= permits[c][u] + Saved(c, u)
    BY <1>1 DEF Balanced, Saved
  <2>1. Usable(c, now)' => Usable(c, now) /\ grants'[c] = grants[c]
    BY <1>1, <1>8 DEF Usable
  <2>2. /\ entries[c][u] \in Nat /\ permits[c][u] \in Int /\ Saved(c, u) \in {0, 1}
        /\ entries[c][u]
             + (IF Usable(c, now) /\ Destination[grants[c].rule] = u THEN 1 ELSE 0)
             + (IF arrivals[c].here /\ arrivals[c].destination = u THEN 1 ELSE 0)
             + (IF ~announced[c] /\ initial[c] = u THEN 1 ELSE 0)
             <= permits[c][u] + Saved(c, u)
    BY ClientFields DEF Balanced, Saved
  <2>3. CASE u = w /\ comesIn
    BY <2>1, <2>2, <2>3, <1>5, <1>7, <1>8
  <2>4. CASE ~(u = w /\ comesIn)
    BY <2>1, <2>2, <2>4, <1>5, <1>8
  <2> QED
    BY <2>3, <2>4
<1>10. OnTheWay(c)'
  BY <1>1, <1>2, <1>3 DEF Places, OnTheWay, Allowed, Arriving, InFlight
<1>11. AtSource(c)'
  <2> SUFFICES ASSUME grants'[c].here
               PROVE  presences'[c].here /\ presences'[c].world = Source[grants[c].rule]
    BY <1>1, <1>8 DEF AtSource
  <2>1. /\ presences[c].here /\ presences[c].world = Source[grants[c].rule]
        /\ announced[c] /\ ~arrivals[c].here
    BY <1>1, <1>8 DEF Places, AtSource, Blank, OnTheWay
  <2>2. CASE Allowed(c, w)
    <3>1. ~Arriving(c, w) /\ ~drops
      BY <2>1, <1>4 DEF Arriving
    <3>2. w = Source[grants[c].rule]
      BY <2>1, <2>2, <3>1, <1>8
      DEF drops, Allowed, Resumes, ComesFrom
    <3> QED
      BY <2>2, <3>2, <1>2
  <2>3. CASE ~Allowed(c, w)
    BY <2>1, <2>3, <1>2
  <2> QED
    BY <2>2, <2>3
<1>12. LeftNothing(c)' /\ UnderWay(c)' /\ Blank(c)'
  BY <1>1, <1>2 DEF Places, LeftNothing, UnderWay, Blank
<1>13. \A d \in Clients \ {c} : Same(d)
  BY <1>1, <1>2, <1>3, <1>4, <1>6 DEF Same
<1> QED
  BY <1>1, <1>9, <1>10, <1>11, <1>12, <1>13 DEF Places

LEMMA BeginRequestStep ==
  ASSUME TypeOK, NEW c \in Clients, Balanced(c), Places(c), BeginRequest(c)
  PROVE  /\ Balanced(c)' /\ Places(c)'
         /\ now' = now /\ \A d \in Clients \ {c} : Same(d)
<1>1. /\ conn[c] = "live" /\ pc[c] = "idle" /\ pc'[c] = "requesting"
      /\ UNCHANGED <<now, conn, initial, announced, presences, departed, grants,
                     arrivals, permits, entries>>
  BY DEF BeginRequest, TypeOK
<1>2. Balanced(c)'
  BY <1>1 DEF Balanced, Usable, Saved
<1>3. Places(c)'
  BY <1>1 DEF Places, OnTheWay, AtSource, LeftNothing, UnderWay, Blank
<1>4. \A d \in Clients \ {c} : Same(d)
  BY DEF BeginRequest, Same, TypeOK
<1> QED
  BY <1>1, <1>2, <1>3, <1>4

LEMMA RefuseTransitionStep ==
  ASSUME TypeOK, NEW c \in Clients, Balanced(c), Places(c), RefuseTransition(c)
  PROVE  /\ Balanced(c)' /\ Places(c)'
         /\ now' = now /\ \A d \in Clients \ {c} : Same(d)
<1>1. /\ pc[c] = "requesting" /\ pc'[c] = "idle" /\ ~grants'[c].here
      /\ UNCHANGED <<now, conn, initial, announced, presences, departed,
                     arrivals, permits, entries>>
  BY ZeroValues DEF RefuseTransition, TypeOK
<1>2. Balanced(c)'
  BY <1>1, ClientFields DEF Balanced, Usable, Saved
<1>3. Places(c)'
  BY <1>1 DEF Places, OnTheWay, AtSource, LeftNothing, UnderWay, Blank
<1>4. \A d \in Clients \ {c} : Same(d)
  BY DEF RefuseTransition, Same, TypeOK
<1> QED
  BY <1>1, <1>2, <1>3, <1>4

LEMMA AuthorizeTransitionStep ==
  ASSUME TypeOK, NEW c \in Clients, Balanced(c), Places(c), NEW q \in RequestIDs,
         NEW r \in Rules, NEW a \in Authorizations, AuthorizeTransition(c, q, r, a)
  PROVE  /\ Balanced(c)' /\ Places(c)'
         /\ now' = now /\ \A d \in Clients \ {c} : Same(d)
<1>1. /\ pc[c] = "requesting" /\ conn[c] = "live" /\ AtDoor(c, r)
      /\ pc'[c] = "idle" /\ grants'[c].here /\ grants'[c].rule = r
      /\ UNCHANGED <<now, conn, initial, announced, presences, departed,
                     arrivals, entries>>
  BY DEF AuthorizeTransition, TypeOK
<1>2. permits \in [Clients -> [Worlds -> Int]] /\ Destination[r] \in Worlds
      /\ permits' = OneMore(permits, c, Destination[r])
  BY ConstantsAssumption DEF AuthorizeTransition, TypeOK
<1>3. \A u \in Worlds : permits'[c][u] =
        IF u = Destination[r] THEN permits[c][u] + 1 ELSE permits[c][u]
  BY <1>2, OneMoreEffect
<1>4. Balanced(c)'
  <2> SUFFICES ASSUME NEW u \in Worlds
               PROVE  entries[c][u]
                        + (IF Usable(c, now)' /\ Destination[r] = u THEN 1 ELSE 0)
                        + (IF arrivals[c].here /\ arrivals[c].destination = u
                           THEN 1 ELSE 0)
                        + (IF ~announced[c] /\ initial[c] = u THEN 1 ELSE 0)
                        <= permits'[c][u] + Saved(c, u)
    BY <1>1 DEF Balanced, Saved
  <2>1. /\ entries[c][u] \in Nat /\ permits[c][u] \in Int /\ Saved(c, u) \in {0, 1}
        /\ entries[c][u]
             + (IF arrivals[c].here /\ arrivals[c].destination = u THEN 1 ELSE 0)
             + (IF ~announced[c] /\ initial[c] = u THEN 1 ELSE 0)
             <= permits[c][u] + Saved(c, u)
    BY ClientFields DEF Balanced, Saved
  <2> QED
    BY <2>1, <1>3
<1>5. Places(c)'
  BY <1>1 DEF Places, OnTheWay, AtSource, LeftNothing, UnderWay, Blank, AtDoor
<1>6. \A d \in Clients \ {c} : Same(d)
  <2>1. \A d \in Clients \ {c} : permits'[d] = permits[d]
    BY <1>2 DEF OneMore
  <2> QED
    BY <2>1, <1>1 DEF AuthorizeTransition, Same, TypeOK
<1> QED
  BY <1>1, <1>4, <1>5, <1>6

\* Reading the clock starts no second life for a grant that has run out.
LEMMA BeginCommitStep ==
  ASSUME TypeOK, NEW c \in Clients, Balanced(c), Places(c), BeginCommit(c)
  PROVE  /\ Balanced(c)' /\ Places(c)'
         /\ now' = now /\ \A d \in Clients \ {c} : Same(d)
<1>1. /\ conn[c] = "live" /\ pc[c] = "idle" /\ pc'[c] = "committing" /\ stamp'[c] = now
      /\ UNCHANGED <<now, conn, initial, announced, presences, departed, grants,
                     arrivals, permits, entries>>
  BY DEF BeginCommit, TypeOK
<1>2. Usable(c, now)' <=> Usable(c, now)
  BY <1>1 DEF Usable
<1>3. Balanced(c)'
  BY <1>1, <1>2 DEF Balanced, Saved
<1>4. Places(c)'
  BY <1>1 DEF Places, OnTheWay, AtSource, LeftNothing, UnderWay, Blank
<1>5. \A d \in Clients \ {c} : Same(d)
  BY DEF BeginCommit, Same, TypeOK
<1> QED
  BY <1>1, <1>3, <1>4, <1>5

\* A good commit turns a usable grant into an arrival.
LEMMA CommitTransitionStep ==
  ASSUME TypeOK, NEW c \in Clients, Balanced(c), Places(c), NEW q \in RequestIDs,
         NEW a \in Authorizations, CommitTransition(c, q, a)
  PROVE  /\ Balanced(c)' /\ Places(c)'
         /\ now' = now /\ \A d \in Clients \ {c} : Same(d)
<1> DEFINE named == NamesGrant(c, q, a)
           good == named /\ GrantIsGood(c)
<1>1. /\ pc[c] = "committing"
      /\ pc'[c] = IF good THEN "leaving" ELSE "idle"
      /\ UNCHANGED <<now, conn, initial, announced, presences, departed,
                     permits, entries>>
      /\ \A d \in Clients \ {c} : pc'[d] = pc[d] /\ stamp'[d] = stamp[d]
  BY DEF CommitTransition, TypeOK
<1>2. /\ named => ~grants'[c].here
      /\ ~named => grants'[c] = grants[c]
      /\ \A d \in Clients \ {c} : grants'[d] = grants[d]
  BY ZeroValues DEF CommitTransition, GrantsLeft, TypeOK
<1>3. /\ good => /\ arrivals'[c].here
                 /\ arrivals'[c].source = Source[grants[c].rule]
                 /\ arrivals'[c].destination = Destination[grants[c].rule]
      /\ ~good => arrivals'[c] = arrivals[c]
      /\ \A d \in Clients \ {c} : arrivals'[d] = arrivals[d]
  BY DEF CommitTransition, TypeOK
<1>4. good => /\ Usable(c, now) /\ conn[c] = "live" /\ presences[c].here
              /\ presences[c].world = Source[grants[c].rule] /\ ~arrivals[c].here
  BY <1>1 DEF NamesGrant, GrantIsGood, AtDoor, Usable, Places, OnTheWay
<1>5. Usable(c, now)' => ~named /\ Usable(c, now) /\ grants'[c] = grants[c]
  BY <1>1, <1>2 DEF Usable
<1> HIDE DEF named, good
<1>6. Balanced(c)'
  <2> SUFFICES ASSUME NEW u \in Worlds
               PROVE  entries[c][u]
                        + (IF Usable(c, now)' /\ Destination[grants'[c].rule] = u
                           THEN 1 ELSE 0)
                        + (IF arrivals'[c].here /\ arrivals'[c].destination = u
                           THEN 1 ELSE 0)
                        + (IF ~announced[c] /\ initial[c] = u THEN 1 ELSE 0)
                        <= permits[c][u] + Saved(c, u)
    BY <1>1 DEF Balanced, Saved
  <2>1. /\ entries[c][u] \in Nat /\ permits[c][u] \in Int /\ Saved(c, u) \in {0, 1}
        /\ entries[c][u]
             + (IF Usable(c, now) /\ Destination[grants[c].rule] = u THEN 1 ELSE 0)
             + (IF arrivals[c].here /\ arrivals[c].destination = u THEN 1 ELSE 0)
             + (IF ~announced[c] /\ initial[c] = u THEN 1 ELSE 0)
             <= permits[c][u] + Saved(c, u)
    BY ClientFields DEF Balanced, Saved
  <2>2. CASE good
    <3>1. ~Usable(c, now)'
      BY <2>2, <1>5 DEF good
    <3> QED
      BY <2>1, <2>2, <3>1, <1>3, <1>4
  <2>3. CASE ~good
    BY <2>1, <2>3, <1>3, <1>5
  <2> QED
    BY <2>2, <2>3
<1>7. Places(c)'
  <2>1. CASE good
    <3>1. named
      BY <2>1 DEF good
    <3> QED
      BY <2>1, <3>1, <1>1, <1>2, <1>3, <1>4
      DEF Places, OnTheWay, AtSource, LeftNothing, UnderWay, Blank
  <2>2. CASE ~good
    <3>1. grants'[c].here => grants'[c] = grants[c]
      BY <1>2
    <3> QED
      BY <2>2, <3>1, <1>1, <1>2, <1>3
      DEF Places, OnTheWay, AtSource, LeftNothing, UnderWay, Blank
  <2> QED
    BY <2>1, <2>2
<1>8. \A d \in Clients \ {c} : Same(d)
  BY <1>1, <1>2, <1>3 DEF Same
<1> QED
  BY <1>1, <1>6, <1>7, <1>8

LEMMA CommitLeavesStep ==
  ASSUME TypeOK, NEW c \in Clients, Balanced(c), Places(c), CommitLeaves(c)
  PROVE  /\ Balanced(c)' /\ Places(c)'
         /\ now' = now /\ \A d \in Clients \ {c} : Same(d)
<1>1. /\ pc[c] = "leaving"
      /\ pc'[c] = IF presences[c].here THEN "idle" ELSE "undoing"
      /\ \A d \in Clients \ {c} : pc'[d] = pc[d]
      /\ UNCHANGED <<now, conn, initial, announced, grants, arrivals, stamp,
                     permits, entries>>
  BY DEF CommitLeaves, TypeOK
<1>2. /\ ~presences'[c].here
      /\ departed'[c] = IF presences[c].here THEN presences[c].world ELSE departed[c]
      /\ \A d \in Clients \ {c} :
           presences'[d] = presences[d] /\ departed'[d] = departed[d]
  BY DepartEffect DEF CommitLeaves
<1>3. Balanced(c)'
  BY <1>1 DEF Balanced, Usable, Saved
<1>4. Places(c)'
  BY <1>1, <1>2 DEF Places, OnTheWay, AtSource, LeftNothing, UnderWay, Blank
<1>5. \A d \in Clients \ {c} : Same(d)
  BY <1>1, <1>2 DEF Same
<1> QED
  BY <1>1, <1>3, <1>4, <1>5

LEMMA CommitUndoneStep ==
  ASSUME TypeOK, NEW c \in Clients, Balanced(c), Places(c), CommitUndone(c)
  PROVE  /\ Balanced(c)' /\ Places(c)'
         /\ now' = now /\ \A d \in Clients \ {c} : Same(d)
<1>1. /\ pc[c] = "undoing" /\ pc'[c] = "idle" /\ ~arrivals'[c].here
      /\ UNCHANGED <<now, conn, initial, announced, presences, departed, grants,
                     stamp, permits, entries>>
  BY ZeroValues DEF CommitUndone, TypeOK
<1>2. Balanced(c)'
  BY <1>1, ClientFields DEF Balanced, Usable, Saved
<1>3. Places(c)'
  BY <1>1 DEF Places, OnTheWay, AtSource, LeftNothing, UnderWay, Blank
<1>4. \A d \in Clients \ {c} : Same(d)
  BY DEF CommitUndone, Same, TypeOK
<1> QED
  BY <1>1, <1>2, <1>3, <1>4

\* When time runs out for a grant, its permit goes with it.
LEMMA TickStep ==
  ASSUME TypeOK, NEW c \in Clients, Balanced(c), Places(c), Tick
  PROVE  Balanced(c)' /\ Places(c)'
<1>1. /\ now' = now + 1
      /\ UNCHANGED <<conn, initial, announced, presences, departed, grants,
                     arrivals, pc, stamp, entries>>
      /\ \A u \in Worlds : permits'[c][u] =
           IF Lapses(c, u) THEN permits[c][u] - 1 ELSE permits[c][u]
  BY DEF Tick
<1>2. Balanced(c)'
  <2> SUFFICES ASSUME NEW u \in Worlds
               PROVE  entries[c][u]
                        + (IF Usable(c, now + 1) /\ Destination[grants[c].rule] = u
                           THEN 1 ELSE 0)
                        + (IF arrivals[c].here /\ arrivals[c].destination = u
                           THEN 1 ELSE 0)
                        + (IF ~announced[c] /\ initial[c] = u THEN 1 ELSE 0)
                        <= permits'[c][u] + Saved(c, u)
    BY <1>1 DEF Balanced, Saved, Usable
  <2>1. /\ entries[c][u] \in Nat /\ permits[c][u] \in Int /\ Saved(c, u) \in {0, 1}
        /\ entries[c][u]
             + (IF Usable(c, now) /\ Destination[grants[c].rule] = u THEN 1 ELSE 0)
             + (IF arrivals[c].here /\ arrivals[c].destination = u THEN 1 ELSE 0)
             + (IF ~announced[c] /\ initial[c] = u THEN 1 ELSE 0)
             <= permits[c][u] + Saved(c, u)
    BY ClientFields DEF Balanced, Saved
  <2>2. Usable(c, now + 1) => Usable(c, now)
    BY ClientFields DEF Usable
  <2>3. Lapses(c, u) <=> /\ Usable(c, now) /\ ~Usable(c, now + 1)
                         /\ Destination[grants[c].rule] = u
    BY DEF Lapses
  <2> QED
    BY <2>1, <2>2, <2>3, <1>1
<1>3. Places(c)'
  BY <1>1 DEF Places, OnTheWay, AtSource, LeftNothing, UnderWay, Blank
<1> QED
  BY <1>2, <1>3

-----------------------------------------------------------------------------
(* The theorems *)

LEMMA InitInvariant == Init => IInv
<1> SUFFICES ASSUME Init PROVE IInv
  OBVIOUS
<1>1. TypeOK
  BY InitType
<1>2. ASSUME NEW c \in Clients
      PROVE  Balanced(c) /\ Places(c)
  <2>1. /\ conn[c] = "new" /\ initial[c] = NoWorld /\ pc[c] = "idle"
        /\ ~presences[c].here /\ ~grants[c].here /\ ~arrivals[c].here
        /\ \A w \in Worlds : entries[c][w] = 0 /\ permits[c][w] = 0
    BY ZeroValues DEF Init
  <2>2. Balanced(c)
    BY <2>1, ConstantsAssumption DEF Balanced, Usable, Saved
  <2>3. Places(c)
    BY <2>1 DEF Places, OnTheWay, AtSource, LeftNothing, UnderWay, Blank
  <2> QED
    BY <2>2, <2>3
<1> QED
  BY <1>1, <1>2, ByClient

LEMMA StepInvariant ==
  ASSUME IInv, [Next]_vars
  PROVE  IInv'
<1>1. TypeOK /\ TypeOK' /\ \A c \in Clients : Balanced(c) /\ Places(c)
  BY StepType, ByClient
\* A step about c alone.
<1>2. ASSUME NEW c \in Clients, Balanced(c)' /\ Places(c)', now' = now,
             \A d \in Clients \ {c} : Same(d)
      PROVE  IInv'
  <2>1. ASSUME NEW d \in Clients \ {c}
        PROVE  Balanced(d)' /\ Places(d)'
    BY <1>1, <1>2, <2>1, OthersKept
  <2> QED
    BY <1>1, <1>2, <2>1, ByClientNext
<1>3. ASSUME NEW c \in Clients, NEW w \in Worlds \cup {NoWorld}, Register(c, w)
      PROVE  IInv'
  BY <1>1, <1>2, <1>3, RegisterStep
<1>4. ASSUME NEW c \in Clients, Unregister(c)
      PROVE  IInv'
  BY <1>1, <1>2, <1>4, UnregisterStep
<1>5. ASSUME NEW c \in Clients, NEW w \in Worlds, NEW p \in Positions,
             NEW f \in BOOLEAN, HandlePresence(c, w, p, f)
      PROVE  IInv'
  BY <1>1, <1>2, <1>5, HandlePresenceStep
<1>6. ASSUME NEW c \in Clients, LeaveWorld(c)
      PROVE  IInv'
  BY <1>1, <1>2, <1>6, LeaveWorldStep
<1>7. ASSUME NEW c \in Clients, BeginRequest(c)
      PROVE  IInv'
  BY <1>1, <1>2, <1>7, BeginRequestStep
<1>8. ASSUME NEW c \in Clients, RefuseTransition(c)
      PROVE  IInv'
  BY <1>1, <1>2, <1>8, RefuseTransitionStep
<1>9. ASSUME NEW c \in Clients, NEW q \in RequestIDs, NEW r \in Rules,
             NEW a \in Authorizations, AuthorizeTransition(c, q, r, a)
      PROVE  IInv'
  BY <1>1, <1>2, <1>9, AuthorizeTransitionStep
<1>10. ASSUME NEW c \in Clients, BeginCommit(c)
       PROVE  IInv'
  BY <1>1, <1>2, <1>10, BeginCommitStep
<1>11. ASSUME NEW c \in Clients, NEW q \in RequestIDs, NEW a \in Authorizations,
              CommitTransition(c, q, a)
       PROVE  IInv'
  BY <1>1, <1>2, <1>11, CommitTransitionStep
<1>12. ASSUME NEW c \in Clients, CommitLeaves(c)
       PROVE  IInv'
  BY <1>1, <1>2, <1>12, CommitLeavesStep
<1>13. ASSUME NEW c \in Clients, CommitUndone(c)
       PROVE  IInv'
  BY <1>1, <1>2, <1>13, CommitUndoneStep
<1>14. CASE Tick
  BY <1>1, <1>14, TickStep, ByClientNext
<1>15. ASSUME NEW m \in 0 .. Day - 1, GameClock(m)
       PROVE  IInv'
  <2>1. now' = now /\ \A d \in Clients : Same(d)
    BY <1>15 DEF GameClock, Same
  <2> QED
    BY <1>1, <2>1, OthersKept, ByClientNext
<1>16. CASE UNCHANGED vars
  <2>1. now' = now /\ \A d \in Clients : Same(d)
    BY <1>16 DEF vars, Same
  <2> QED
    BY <1>1, <2>1, OthersKept, ByClientNext
<1> QED
  BY <1>3, <1>4, <1>5, <1>6, <1>7, <1>8, <1>9, <1>10, <1>11, <1>12, <1>13, <1>14,
     <1>15, <1>16 DEF Next

\* The maps of timed travel are well formed: what TypeOK says of transitions.go
\* and of the hub's bookkeeping holds in every reachable state.
THEOREM TypeCorrect == Spec => []TypeOK
<1>1. Init => TypeOK
  BY InitType
<1>2. TypeOK /\ [Next]_vars => TypeOK'
  BY StepType
<1> QED
  BY <1>1, <1>2, PTL DEF Spec

\* The inductive invariant holds in every reachable state.
THEOREM Invariance == Spec => []IInv
<1>1. IInv /\ [Next]_vars => IInv'
  BY StepInvariant
<1> QED
  BY InitInvariant, <1>1, PTL DEF Spec

\* No connection enters a timed interior more often than it was authorized to:
\* allowPresenceDestinationLocked is the authority its comment says it is.
THEOREM InteriorsAreAuthorized == Spec => []EntriesAreAuthorized
<1>1. IInv => EntriesAreAuthorized
  <2> SUFFICES ASSUME IInv, NEW c \in Clients, NEW w \in Worlds
               PROVE  entries[c][w] <= permits[c][w] + Saved(c, w)
    BY DEF EntriesAreAuthorized
  <2> QED
    BY ClientFields DEF IInv, PermitsCoverEntries, Saved
<1> QED
  BY <1>1, Invariance, PTL

\* A reserved arrival belongs to a player who has left the source room.
THEOREM ArrivalsAreOnTheWay == Spec => []ArrivalIsOnTheWay
<1>1. IInv => ArrivalIsOnTheWay
  BY DEF IInv
<1> QED
  BY <1>1, Invariance, PTL

\* An unused grant belongs to a connected player in its source world.
THEOREM GrantHoldersAreAtSource == Spec => []GrantHolderIsAtSource
<1>1. IInv => GrantHolderIsAtSource
  BY DEF IInv
<1> QED
  BY <1>1, Invariance, PTL

\* Unregister cleans up, whichever transition handler it interrupts.
THEOREM ClosedConnectionsLeaveNothing == Spec => []ClosedLeavesNothing
<1>1. IInv => ClosedLeavesNothing
  BY DEF IInv
<1> QED
  BY <1>1, Invariance, PTL

\* A presence report in flight does not put a traveller back into the source
\* room.
THEOREM TravellersAreNotPutBack == Spec => NotPutBack
<1> DEFINE Stays(c) ==
      arrivals[c].here /\ pc[c] # "leaving" /\ presences'[c].here =>
        presences'[c].world \notin {arrivals[c].source} \ {arrivals[c].destination}
<1>1. ASSUME IInv, [Next]_vars, NEW c \in Clients
      PROVE  Stays(c)
  <2> SUFFICES ASSUME arrivals[c].here, pc[c] # "leaving", presences'[c].here
               PROVE  \/ presences'[c].world # arrivals[c].source
                      \/ presences'[c].world = arrivals[c].destination
    OBVIOUS
  <2>1. TypeOK /\ ~presences[c].here
    BY <1>1 DEF IInv, ArrivalIsOnTheWay
  <2>2. PICK d \in Clients, w \in Worlds, p \in Positions, f \in BOOLEAN :
          HandlePresence(d, w, p, f) /\ presences' # presences
    <3>1. presences' # presences
      BY <2>1
    <3>2. ASSUME NEW d \in Clients, Depart(d)
          PROVE  FALSE
      BY <2>1, <3>2, DepartEffect
    <3>3. ASSUME NEW d \in Clients, Unregister(d)
          PROVE  FALSE
      BY <2>1, <3>3, ZeroValues DEF Unregister, TypeOK
    <3> QED
      BY <1>1, <3>1, <3>2, <3>3
      DEF Next, vars, Register, LeaveWorld, BeginRequest, RefuseTransition,
          AuthorizeTransition, BeginCommit, CommitTransition, CommitLeaves,
          CommitUndone, Tick, GameClock
  <2>3. Allowed(d, w)
    BY <2>2 DEF HandlePresence
  <2>4. d = c /\ presences'[c].world = w
    <3> DEFINE report == [here |-> TRUE, world |-> w, at |-> p, onFoot |-> f]
    <3>1. presences' = [presences EXCEPT ![d] = report]
      BY <2>2, <2>3 DEF HandlePresence
    <3>2. report.world = w /\ presences \in [Clients -> Presence]
      BY <2>1 DEF TypeOK
    <3> HIDE DEF report
    <3>3. CASE d = c
      BY <3>1, <3>2, <3>3
    <3>4. CASE d # c
      <4>1. presences'[c] = presences[c]
        BY <3>1, <3>2, <3>4
      <4> QED
        BY <4>1, <2>1
    <3> QED
      BY <3>3, <3>4
  <2>5. CASE Arriving(c, w)
    BY <2>4, <2>5 DEF Arriving
  <2>6. CASE ~Arriving(c, w)
    BY <2>3, <2>4, <2>6 DEF Allowed, InFlight, Arriving
  <2> QED
    BY <2>5, <2>6
<1>2. IInv /\ [Next]_vars => [\A c \in Clients : Stays(c)]_vars
  BY <1>1
<1> QED
  BY <1>2, Invariance, PTL DEF Spec, NotPutBack

=============================================================================
