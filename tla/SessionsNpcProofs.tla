------------------------- MODULE SessionsNpcProofs --------------------------
(***************************************************************************)
(* Proofs about Sessions.tla, for any number of connections and characters *)
(* and any limit, and about NpcSimulation.tla, for any number of actors,   *)
(* any length of the day and any delays in their order.  The two           *)
(* components share no state; each has a part of its own here.             *)
(*                                                                         *)
(* Sessions: the central argument follows the notice of a replacement:     *)
(* from Hub.activeCharacters to the call of Register that found the older  *)
(* connection there, to that connection's channel or to a pending          *)
(* Unregister, while the older connection's pumps may not run yet.         *)
(*                                                                         *)
(* The simulation: every second by which an actor is behind its schedule   *)
(* was a second of this day and one since the clock was last set.  A tick  *)
(* keeps that, a new day and the reset after a setting begin anew, and a   *)
(* restart takes over what a clock that was never set has left in the rows *)
(* (NeverSet); after a setting skewed marks that it took over more.  What  *)
(* a tick out of order adds (CountedInv) is at most what it went back.     *)
(***************************************************************************)
EXTENDS Sessions, NpcSimulation, FiniteSetTheorems, TLAPS

-----------------------------------------------------------------------------
(* Part one: Sessions *)

LEMMA InitIInv == Init => IInv
<1> SUFFICES ASSUME Init PROVE IInv
  OBVIOUS
<1>1. Current = {}
  BY DEF Init, Current
<1>2. CapacityIsKept
  BY <1>1, FS_EmptySet, ConstantsAssumption DEF CapacityIsKept
<1> QED
  BY <1>2, ConstantsAssumption
  DEF Init, IInv, TypeOK, NewAreUnknown, LatestIsOwn, ConnectedAreServed,
      LatestIsActive, SupersededIsTold, ClosedAreOut

-----------------------------------------------------------------------------
(* Register: the only step that changes which connection is the latest *)

\* What Register finds in the hub's maps is the character's latest connection.
LEMMA ReplacedIsLatest ==
  ASSUME IInv, NEW c \in Clients
  PROVE  /\ Replaced(c) \in Clients \cup {NoClient}
         /\ Replaced(c) # NoClient =>
              /\ Persistent(c) /\ Replaced(c) \in clients
              /\ latest[Character[c]] = Replaced(c)
         /\ Persistent(c) /\ latest[Character[c]] \in clients =>
              Replaced(c) = latest[Character[c]]
BY ConstantsAssumption
DEF Replaced, Persistent, IInv, TypeOK, LatestIsActive

\* The changes of a registration, without the distinction of guests.
LEMMA RegisterChanges ==
  ASSUME IInv, NEW c \in Clients, Register(c)
  PROVE  /\ c \notin clients
         /\ clients' = clients \cup {c}
         /\ entry' = [entry EXCEPT ![c] = "notifying"]
         /\ replaced' = [replaced EXCEPT ![c] = Replaced(c)]
         /\ \A h \in Characters :
              IF h = Character[c]
              THEN active'[h] = c /\ names'[h] = c /\ latest'[h] = c
              ELSE /\ active'[h] = active[h] /\ names'[h] = names[h]
                   /\ latest'[h] = latest[h]
         /\ active' \in [Characters -> Clients \cup {NoClient}]
         /\ names' \in [Characters -> Clients \cup {NoClient}]
         /\ latest' \in [Characters -> Clients \cup {NoClient}]
         /\ UNCHANGED <<replace, done, writing, leaving>>
<1>1. c \notin clients
  BY DEF Register, IInv, NewAreUnknown
<1>2. CASE Persistent(c)
  BY <1>1, <1>2 DEF Register, Persistent, IInv, TypeOK
<1>3. CASE ~Persistent(c)
  BY <1>1, <1>3 DEF Register, Persistent, IInv, TypeOK
<1> QED
  BY <1>2, <1>3

\* Only the connection found in the maps becomes superseded by c.
LEMMA RegisterSupersedes ==
  ASSUME IInv, NEW c \in Clients, Register(c)
  PROVE  /\ ~Superseded(c)'
         /\ \A d \in clients : Superseded(d)' <=> Superseded(d) \/ d = Replaced(c)
<1>1. ~Superseded(c)'
  BY RegisterChanges DEF Superseded, Persistent
<1>2. ASSUME NEW d \in clients
      PROVE  Superseded(d)' <=> Superseded(d) \/ d = Replaced(c)
  <2>1. d # c /\ d \in Clients /\ d # NoClient
    BY RegisterChanges, ConstantsAssumption DEF IInv, TypeOK
  <2>2. CASE Persistent(d) /\ Character[d] = Character[c]
    <3>1. Persistent(c) /\ Superseded(d)'
      BY <2>1, <2>2, RegisterChanges DEF Superseded, Persistent
    <3>2. Superseded(d) <=> latest[Character[c]] # d
      BY <2>2 DEF Superseded
    <3> QED
      BY <3>1, <3>2, ReplacedIsLatest
  <2>3. CASE ~(Persistent(d) /\ Character[d] = Character[c])
    <3>1. Superseded(d)' <=> Superseded(d)
      BY <2>3, RegisterChanges DEF Superseded, Persistent
    <3>2. d # Replaced(c)
      <4>1. SUFFICES ASSUME d = Replaced(c) PROVE FALSE
        OBVIOUS
      <4>2. latest[Character[c]] = d /\ Persistent(c)
        BY <4>1, <2>1, ReplacedIsLatest
      <4>3. Character[d] = Character[c]
        BY <4>2, <2>1 DEF IInv, LatestIsOwn, Persistent
      <4> QED
        BY <4>2, <4>3, <2>3 DEF Persistent
    <3> QED
      BY <3>1, <3>2
  <2> QED
    BY <2>2, <2>3
<1> QED
  BY <1>1, <1>2

\* A newcomer takes free room, or the room of the connection it replaces.
LEMMA RegisterCapacity ==
  ASSUME IInv, NEW c \in Clients, Register(c)
  PROVE  CapacityIsKept'
<1> DEFINE kept == Current \ {Replaced(c)}
<1>1. IsFiniteSet(clients) /\ Current \subseteq clients /\ IsFiniteSet(Current)
  BY FS_Subset, ConstantsAssumption DEF IInv, TypeOK, Current
<1>2. c \notin clients
  BY RegisterChanges
<1>3. Current' = kept \cup {c}
  BY RegisterChanges, RegisterSupersedes DEF Current
<1>4. IsFiniteSet(kept) /\ c \notin kept
  BY <1>1, <1>2, FS_RemoveElement DEF Current
<1>5. Cardinality(kept \cup {c}) = Cardinality(kept) + 1
  BY <1>4, FS_AddElement
<1>6. Cardinality(Current) \in Nat /\ Cardinality(kept) \in Nat
      /\ Cardinality(clients) \in Nat
  BY <1>1, <1>4, FS_CardinalityType
<1>7. Cardinality(kept) < MaxClients
  <2>1. CASE Cardinality(clients) < MaxClients
    <3>1. Cardinality(kept) <= Cardinality(clients)
      BY <1>1, FS_Subset
    <3> QED
      BY <2>1, <3>1, <1>6, ConstantsAssumption
  <2>2. CASE Replaced(c) # NoClient
    <3>1. Replaced(c) \in Current
      BY <2>2, ReplacedIsLatest, ConstantsAssumption
      DEF Current, Superseded, Persistent, IInv, LatestIsOwn
    <3>2. Cardinality(kept) = Cardinality(Current) - 1
      BY <3>1, <1>1, FS_RemoveElement
    <3>3. Cardinality(Current) <= MaxClients
      BY DEF IInv, CapacityIsKept
    <3> QED
      BY <3>2, <3>3, <1>6, ConstantsAssumption
  <2> QED
    BY <2>1, <2>2 DEF Register, HasRoom
<1> QED
  BY <1>3, <1>5, <1>6, <1>7, ConstantsAssumption DEF CapacityIsKept

LEMMA RegisterIInv ==
  ASSUME IInv, NEW c \in Clients, Register(c)
  PROVE  IInv'
<1>1. entry[c] = "new"
  BY DEF Register
<1>2. TypeOK'
  BY RegisterChanges, ReplacedIsLatest DEF IInv, TypeOK
<1>3. NewAreUnknown'
  <2> SUFFICES ASSUME NEW d \in Clients, entry'[d] = "new"
               PROVE  /\ d \notin clients \cup {c} \cup replace \cup done
                                  \cup writing \cup leaving
                      /\ \A e \in Clients : replaced'[e] # d
    BY RegisterChanges DEF NewAreUnknown
  <2>1. d # c /\ entry[d] = "new"
    BY RegisterChanges DEF IInv, TypeOK
  <2>2. d \notin clients /\ \A e \in Clients : replaced[e] # d
    BY <2>1 DEF IInv, NewAreUnknown
  <2>3. Replaced(c) # d
    BY <2>2, ReplacedIsLatest, ConstantsAssumption
  <2> QED
    BY <2>1, <2>2, <2>3, RegisterChanges DEF IInv, TypeOK, NewAreUnknown
<1>4. LatestIsOwn'
  BY RegisterChanges DEF IInv, LatestIsOwn
<1>5. ConnectedAreServed'
  BY RegisterChanges DEF IInv, TypeOK, ConnectedAreServed
<1>6. LatestIsActive'
  <2> SUFFICES ASSUME NEW h \in Characters
               PROVE  LET e == IF latest'[h] \in clients' THEN latest'[h]
                                                          ELSE NoClient
                      IN active'[h] = e /\ names'[h] = e
    BY DEF LatestIsActive
  <2>1. CASE h = Character[c]
    BY <2>1, RegisterChanges
  <2>2. CASE h # Character[c]
    <3>1. latest[h] # c
      BY <2>2, ConstantsAssumption DEF IInv, LatestIsOwn
    <3> QED
      BY <3>1, <2>2, RegisterChanges DEF IInv, LatestIsActive
  <2> QED
    BY <2>1, <2>2
<1>7. SupersededIsTold'
  <2> SUFFICES ASSUME NEW d \in clients', Superseded(d)'
               PROVE  \/ d \in leaving
                      \/ d \in replace /\ (d \in writing \/
                            entry'[d] \in {"notifying", "welcoming"})
                      \/ \E e \in Clients : replaced'[e] = d /\ entry'[e] = "notifying"
    BY RegisterChanges DEF SupersededIsTold
  <2>1. d # c /\ d \in clients /\ d \in Clients
    BY RegisterChanges, RegisterSupersedes DEF IInv, TypeOK
  <2>2. CASE d = Replaced(c)
    BY <2>2, RegisterChanges DEF IInv, TypeOK
  <2>3. CASE d # Replaced(c)
    <3>1. Superseded(d)
      BY <2>1, <2>3, RegisterSupersedes
    <3>2. entry'[d] = entry[d]
      BY <2>1, RegisterChanges DEF IInv, TypeOK
    <3>3. \A e \in Clients : entry[e] = "notifying" =>
            entry'[e] = "notifying" /\ replaced'[e] = replaced[e]
      BY <1>1, RegisterChanges DEF IInv, TypeOK
    <3> QED
      BY <2>1, <3>1, <3>2, <3>3 DEF IInv, SupersededIsTold
  <2> QED
    BY <2>2, <2>3
<1>8. ClosedAreOut'
  BY <1>1, RegisterChanges DEF IInv, ClosedAreOut, NewAreUnknown
<1> QED
  BY <1>2, <1>3, <1>4, <1>5, <1>6, <1>7, <1>8, RegisterCapacity DEF IInv

-----------------------------------------------------------------------------
(* The other steps keep the latest connections *)

\* Whoever leaves the hub makes room.
LEMMA CapacityWithoutNewcomers ==
  ASSUME IInv, clients' \subseteq clients, UNCHANGED latest
  PROVE  CapacityIsKept'
<1>1. IsFiniteSet(clients) /\ IsFiniteSet(Current)
  BY FS_Subset, ConstantsAssumption DEF IInv, TypeOK, Current
<1>2. Current' \subseteq Current
  BY DEF Current, Superseded, Persistent
<1>3. IsFiniteSet(Current') /\ Cardinality(Current') <= Cardinality(Current)
  BY <1>1, <1>2, FS_Subset
<1>4. Cardinality(Current') \in Nat /\ Cardinality(Current) \in Nat
  BY <1>1, <1>3, FS_CardinalityType
<1>5. Cardinality(Current) <= MaxClients
  BY DEF IInv, CapacityIsKept
<1> QED
  BY <1>3, <1>4, <1>5, ConstantsAssumption DEF CapacityIsKept

LEMMA RegisterRefusedIInv ==
  ASSUME IInv, NEW c \in Clients, RegisterRefused(c)
  PROVE  IInv'
<1> USE DEF RegisterRefused
<1>1. TypeOK' /\ NewAreUnknown' /\ LatestIsOwn' /\ LatestIsActive' /\ ClosedAreOut'
  BY DEF IInv, TypeOK, NewAreUnknown, LatestIsOwn, LatestIsActive, ClosedAreOut
<1>2. ConnectedAreServed'
  BY DEF IInv, TypeOK, NewAreUnknown, ConnectedAreServed
<1>3. SupersededIsTold'
  BY DEF IInv, TypeOK, NewAreUnknown, SupersededIsTold, Superseded, Persistent
<1> QED
  BY <1>1, <1>2, <1>3, CapacityWithoutNewcomers DEF IInv

\* The notice reaches the older connection's channel while that connection has
\* a pump to read it, or its pumps are still to start.
LEMMA NotifyIInv ==
  ASSUME IInv, NEW c \in Clients, NotifySessionReplaced(c)
  PROVE  IInv'
<1>1. /\ entry[c] = "notifying" /\ entry' = [entry EXCEPT ![c] = "welcoming"]
      /\ replaced' = [replaced EXCEPT ![c] = NoClient]
      /\ UNCHANGED <<clients, active, names, done, writing, latest>>
  BY DEF NotifySessionReplaced
<1>2. /\ replace \subseteq replace' /\ leaving \subseteq leaving'
      /\ replace' \subseteq replace \cup {replaced[c]}
      /\ leaving' \subseteq leaving \cup {replaced[c]}
      /\ replaced[c] = NoClient => replace' = replace /\ leaving' = leaving
      /\ replaced[c] # NoClient => replaced[c] \in replace' \cup leaving'
  BY DEF NotifySessionReplaced, OldIsTold
<1>3. TypeOK'
  BY <1>1, <1>2 DEF IInv, TypeOK
<1>4. NewAreUnknown'
  <2> SUFFICES ASSUME NEW d \in Clients, entry'[d] = "new"
               PROVE  /\ d \notin clients \cup replace' \cup done
                                  \cup writing \cup leaving'
                      /\ \A e \in Clients : replaced'[e] # d
    BY <1>1 DEF NewAreUnknown
  <2>1. entry[d] = "new"
    BY <1>1 DEF IInv, TypeOK
  <2> QED
    BY <2>1, <1>1, <1>2, ConstantsAssumption DEF IInv, TypeOK, NewAreUnknown
<1>5. LatestIsOwn' /\ LatestIsActive' /\ ClosedAreOut'
  BY <1>1 DEF IInv, LatestIsOwn, LatestIsActive, ClosedAreOut
<1>6. ConnectedAreServed'
  BY <1>1, <1>2 DEF IInv, TypeOK, ConnectedAreServed
<1>7. SupersededIsTold'
  <2> SUFFICES ASSUME NEW d \in clients, Superseded(d)
               PROVE  \/ d \in leaving'
                      \/ d \in replace' /\ (d \in writing \/
                            entry'[d] \in {"notifying", "welcoming"})
                      \/ \E e \in Clients : replaced'[e] = d /\ entry'[e] = "notifying"
    BY <1>1 DEF SupersededIsTold, Superseded, Persistent
  <2>1. entry'[d] = entry[d] \/ entry'[d] = "welcoming"
    BY <1>1 DEF IInv, TypeOK
  <2>2. CASE d = replaced[c]
    <3>1. d \in replace' \cup leaving'
      BY <2>2, <1>2, ConstantsAssumption DEF IInv, TypeOK
    <3>2. d \in leaving \cup writing \/ entry[d] \in {"notifying", "welcoming"}
      BY DEF IInv, ConnectedAreServed
    <3> QED
      BY <3>1, <3>2, <2>1, <1>2
  <2>3. CASE d # replaced[c]
    <3>1. ASSUME NEW e \in Clients, replaced[e] = d, entry[e] = "notifying"
          PROVE  replaced'[e] = d /\ entry'[e] = "notifying"
      BY <3>1, <2>3, <1>1 DEF IInv, TypeOK
    <3> QED
      BY <3>1, <2>1, <1>2 DEF IInv, SupersededIsTold
  <2> QED
    BY <2>2, <2>3
<1> QED
  BY <1>1, <1>3, <1>4, <1>5, <1>6, <1>7, CapacityWithoutNewcomers DEF IInv

\* The steps of a connection that leave the maps alone: its pumps start or
\* end, and somebody comes to unregister it.
LEMMA PumpsIInv ==
  ASSUME IInv, NEW c \in Clients,
         \/ Welcome(c) \/ WelcomeFails(c) \/ SendFails(c)
         \/ ReaderEnds(c) \/ WriterFails(c) \/ WriterStops(c)
  PROVE  IInv'
<1> USE DEF Welcome, WelcomeFails, SendFails, ReaderEnds, WriterFails, WriterStops
<1>1. /\ UNCHANGED <<clients, active, names, replaced, done, latest>>
      /\ leaving \subseteq leaving' /\ leaving' \subseteq leaving \cup {c}
      /\ replace' \subseteq replace /\ replace \subseteq replace' \cup {c}
      /\ writing' \subseteq writing \cup {c} /\ writing \subseteq writing' \cup {c}
      /\ c \in writing' \/ c \in leaving'
      /\ \A d \in Clients \ {c} : entry'[d] = entry[d]
      /\ entry' \in [Clients -> {"new", "notifying", "welcoming", "serving", "over"}]
      /\ entry[c] # "notifying" \/ entry'[c] = entry[c]
  BY DEF IInv, TypeOK
<1>2. entry[c] # "new" /\ entry'[c] # "new"
  BY DEF IInv, TypeOK, NewAreUnknown
<1>3. c \in leaving' \/ c \in replace \/ c \notin replace
  OBVIOUS
<1>4. c \notin leaving' => replace' = replace
  OBVIOUS
<1>5. TypeOK' /\ NewAreUnknown'
  BY <1>1, <1>2 DEF IInv, TypeOK, NewAreUnknown
<1>6. LatestIsOwn' /\ LatestIsActive' /\ ClosedAreOut'
  BY <1>1 DEF IInv, LatestIsOwn, LatestIsActive, ClosedAreOut
<1>7. ConnectedAreServed'
  BY <1>1 DEF IInv, TypeOK, ConnectedAreServed
<1>8. SupersededIsTold'
  <2> SUFFICES ASSUME NEW d \in clients, Superseded(d)
               PROVE  \/ d \in leaving'
                      \/ d \in replace' /\ (d \in writing' \/
                            entry'[d] \in {"notifying", "welcoming"})
                      \/ \E e \in Clients : replaced'[e] = d /\ entry'[e] = "notifying"
    BY <1>1 DEF SupersededIsTold, Superseded, Persistent
  <2>1. ASSUME NEW e \in Clients, replaced[e] = d, entry[e] = "notifying"
        PROVE  replaced'[e] = d /\ entry'[e] = "notifying"
    BY <2>1, <1>1
  <2>2. d \in Clients
    BY DEF IInv, TypeOK
  <2>3. CASE d = c
    BY <2>1, <2>2, <2>3, <1>1, <1>4 DEF IInv, SupersededIsTold
  <2>4. CASE d # c
    BY <2>1, <2>2, <2>4, <1>1 DEF IInv, SupersededIsTold
  <2> QED
    BY <2>3, <2>4
<1> QED
  BY <1>1, <1>5, <1>6, <1>7, <1>8, CapacityWithoutNewcomers DEF IInv

\* Unregister takes a connection's own entries out of the maps and leaves those
\* of the connection that replaced it.
LEMMA UnregisterIInv ==
  ASSUME IInv, NEW c \in Clients, Unregister(c)
  PROVE  IInv'
<1>1. /\ clients' = clients \ {c} /\ c \in clients
      /\ UNCHANGED <<entry, replaced, replace, done, writing, leaving, latest>>
  BY DEF Unregister
<1>2. /\ active' \in [Characters -> Clients \cup {NoClient}]
      /\ names' \in [Characters -> Clients \cup {NoClient}]
      /\ \A h \in Characters :
           /\ active'[h] = IF h = Character[c] /\ active[h] = c THEN NoClient ELSE active[h]
           /\ names'[h] = IF h = Character[c] /\ names[h] = c THEN NoClient ELSE names[h]
  BY DEF Unregister, ForgetCharacter, Persistent, IInv, TypeOK
<1>3. TypeOK' /\ NewAreUnknown' /\ LatestIsOwn' /\ ConnectedAreServed' /\ ClosedAreOut'
  BY <1>1, <1>2
  DEF IInv, TypeOK, NewAreUnknown, LatestIsOwn, ConnectedAreServed, ClosedAreOut
<1>4. LatestIsActive'
  <2> SUFFICES ASSUME NEW h \in Characters
               PROVE  LET e == IF latest[h] \in clients \ {c} THEN latest[h]
                                                             ELSE NoClient
                      IN active'[h] = e /\ names'[h] = e
    BY <1>1 DEF LatestIsActive
  <2>1. c \in Clients /\ c # NoClient
    BY ConstantsAssumption
  <2>2. latest[h] = c => h = Character[c]
    BY <2>1 DEF IInv, LatestIsOwn
  <2> QED
    BY <2>1, <2>2, <1>1, <1>2 DEF IInv, LatestIsActive
<1>5. SupersededIsTold'
  BY <1>1 DEF IInv, SupersededIsTold, Superseded, Persistent
<1> QED
  BY <1>1, <1>3, <1>4, <1>5, CapacityWithoutNewcomers DEF IInv

LEMMA CloseIInv ==
  ASSUME IInv, NEW c \in Clients, Close(c)
  PROVE  IInv'
<1> USE DEF Close
<1>1. TypeOK' /\ NewAreUnknown' /\ LatestIsOwn' /\ LatestIsActive'
      /\ ConnectedAreServed' /\ ClosedAreOut'
  BY DEF IInv, TypeOK, NewAreUnknown, LatestIsOwn, LatestIsActive,
         ConnectedAreServed, ClosedAreOut
<1>2. SupersededIsTold'
  BY DEF IInv, SupersededIsTold, Superseded, Persistent
<1> QED
  BY <1>1, <1>2, CapacityWithoutNewcomers DEF IInv

LEMMA NextIInv == IInv /\ [Next]_vars => IInv'
<1> SUFFICES ASSUME IInv, [Next]_vars PROVE IInv'
  OBVIOUS
<1>1. ASSUME NEW c \in Clients, Register(c) PROVE IInv'
  BY <1>1, RegisterIInv
<1>2. ASSUME NEW c \in Clients, RegisterRefused(c) PROVE IInv'
  BY <1>2, RegisterRefusedIInv
<1>3. ASSUME NEW c \in Clients, NotifySessionReplaced(c) PROVE IInv'
  BY <1>3, NotifyIInv
<1>4. ASSUME NEW c \in Clients,
             \/ Welcome(c) \/ WelcomeFails(c) \/ SendFails(c)
             \/ ReaderEnds(c) \/ WriterFails(c) \/ WriterStops(c)
      PROVE  IInv'
  BY <1>4, PumpsIInv
<1>5. ASSUME NEW c \in Clients, Unregister(c) PROVE IInv'
  BY <1>5, UnregisterIInv
<1>6. ASSUME NEW c \in Clients, Close(c) PROVE IInv'
  BY <1>6, CloseIInv
<1>7. CASE UNCHANGED vars
  <2>1. TypeOK' /\ NewAreUnknown' /\ LatestIsOwn' /\ LatestIsActive'
        /\ ConnectedAreServed' /\ ClosedAreOut'
    BY <1>7 DEF vars, IInv, TypeOK, NewAreUnknown, LatestIsOwn, LatestIsActive,
                ConnectedAreServed, ClosedAreOut
  <2>2. SupersededIsTold'
    BY <1>7 DEF vars, IInv, SupersededIsTold, Superseded, Persistent
  <2> QED
    BY <2>1, <2>2, <1>7, CapacityWithoutNewcomers DEF IInv, vars
<1> QED
  BY <1>1, <1>2, <1>3, <1>4, <1>5, <1>6, <1>7 DEF Next

-----------------------------------------------------------------------------
(* The theorems *)

\* The inductive invariant of registration, replacement and unregistration
\* holds in every reachable state.
THEOREM Invariance == Spec => []IInv
BY InitIInv, NextIInv, PTL DEF Spec

\* Every variable keeps its type.
THEOREM TypeCorrect == Spec => []TypeOK
BY Invariance, PTL DEF IInv

\* Hub.activeCharacters and Hub.names hold the latest connection of a character
\* while it is connected and nothing afterwards: an Unregister that comes late
\* takes nothing away from the connection that replaced it.
THEOREM LatestConnectionsAreActive == Spec => []LatestIsActive
BY Invariance, PTL DEF IInv

\* The notice of a replacement is never lost between Register, the channel of
\* the older connection, its pumps and its Unregister.
THEOREM SupersededAreTold == Spec => []SupersededIsTold
BY Invariance, PTL DEF IInv

\* Register lets a newcomer that replaces a connection into a full hub, yet the
\* connections that are not replaced never exceed maxClients.
THEOREM CapacityHolds == Spec => []CapacityIsKept
BY Invariance, PTL DEF IInv

\* A connection whose done channel is closed is not in Hub.clients.
THEOREM ClosedStayOut == Spec => []ClosedAreOut
BY Invariance, PTL DEF IInv

-----------------------------------------------------------------------------
(* Part two: NpcSimulation *)

-----------------------------------------------------------------------------
(* Min and Max *)

LEMMA MaxOfTwo ==
  ASSUME NEW a \in Int, NEW b \in Int
  PROVE  Max({a, b}) = IF a >= b THEN a ELSE b
<1>1. \A x : (x \in {a, b} /\ \A y \in {a, b} : x >= y)
               <=> x = IF a >= b THEN a ELSE b
  OBVIOUS
<1> QED
  BY <1>1 DEF Max

LEMMA MinOfTwo ==
  ASSUME NEW a \in Int, NEW b \in Int
  PROVE  Min({a, b}) = IF a <= b THEN a ELSE b
<1>1. \A x : (x \in {a, b} /\ \A y \in {a, b} : x <= y)
               <=> x = IF a <= b THEN a ELSE b
  OBVIOUS
<1> QED
  BY <1>1 DEF Min

LEMMA MinIsThere ==
  ASSUME NEW S \in SUBSET NPCs, S # {}
  PROVE  Min(S) \in S
<1> DEFINE Below(x) == {y \in S : y <= x}
           F == {Below(x) : x \in S}
<1>1. NPCs \subseteq Int /\ IsFiniteSet(NPCs)
  BY FS_Interval, DelaysAssumption DEF NPCs
<1>2. F \in SUBSET SUBSET NPCs /\ F # {}
  OBVIOUS
<1>3. IsWellFoundedOn(StrictSubsetOrdering(NPCs), FiniteSubsetsOf(NPCs))
  BY <1>1, FS_StrictSubsetOrderingWellFounded
<1>4. F \subseteq FiniteSubsetsOf(NPCs)
  BY <1>1, <1>2, FS_Subset DEF FiniteSubsetsOf
<1>5. PICK T \in F : \A U \in F : <<U, T>> \notin StrictSubsetOrdering(NPCs)
  <2> HIDE DEF F
  <2> QED
    BY <1>2, <1>3, <1>4, WFMin
<1>6. PICK x \in S : T = Below(x)
  BY <1>5
<1>7. ASSUME NEW y \in S PROVE x <= y
  <2>1. y \in Int /\ x \in Int
    BY <1>1
  <2>2. <<Below(y), T>> \notin StrictSubsetOrdering(NPCs)
    BY <1>5
  <2>3. ~(Below(y) \subseteq T /\ Below(y) # T)
    BY <2>2, <1>2, <1>5 DEF StrictSubsetOrdering
  <2>4. y <= x => \A z \in S : z <= y => z <= x
    BY <2>1, <1>1
  <2>5. y <= x => Below(y) \subseteq T
    BY <2>4, <1>6
  <2>6. y <= x => x \in Below(y)
    BY <2>1, <2>3, <2>5, <1>6
  <2> QED
    BY <2>1, <2>6
<1> QED
  BY <1>7 DEF Min

-----------------------------------------------------------------------------
(* The clock *)

LEMMA DayAndTime ==
  ASSUME NEW s \in Snapshots
  PROVE  /\ DayNumber(s) \in Int
         /\ GameTime(s) \in Nat /\ GameTime(s) < DayLength
         /\ s.real - s.epoch = DayLength * DayNumber(s) + GameTime(s)
<1>1. s.real - s.epoch \in Int /\ DayLength \in Nat \ {0}
  BY DelaysAssumption DEF Snapshots
<1>2. ASSUME NEW a \in Int, NEW d \in Nat \ {0}
      PROVE  /\ a \div d \in Int /\ a % d \in Nat /\ a % d < d
             /\ a = d * (a \div d) + (a % d)
  OBVIOUS
<1> QED
  BY <1>1, <1>2 DEF DayNumber, GameTime

\* Within a day of one clock game time passes as real time does.
LEMMA TimeOfOneDay ==
  ASSUME NEW s \in Snapshots, NEW u \in Snapshots, s.epoch = u.epoch,
         DayNumber(s) = DayNumber(u)
  PROVE  GameTime(u) - GameTime(s) = u.real - s.real
<1>1. PICK p \in Int : p = DayLength * DayNumber(s)
  BY DayAndTime, DelaysAssumption
<1>2. s.real - s.epoch = p + GameTime(s) /\ u.real - u.epoch = p + GameTime(u)
  BY <1>1, DayAndTime
<1> QED
  BY <1>2, DayAndTime DEF Snapshots

LEMMA DeltaTypes ==
  ASSUME NpcTypeOK, NEW s \in Snapshots
  PROVE  /\ GameDelta(s) \in Nat /\ RealDelta(s) \in Nat
         /\ ~SameDay(s) => GameDelta(s) = 0
<1>1. CASE ~SameDay(s)
  BY <1>1 DEF GameDelta, RealDelta
<1>2. CASE SameDay(s)
  <2>1. lastTick \in Snapshots
    BY <1>2 DEF SameDay, NpcTypeOK
  <2>2. /\ GameTime(s) - GameTime(lastTick) \in Int
        /\ s.real - lastTick.real \in Int
    BY <2>1, DayAndTime DEF Snapshots
  <2>3. /\ Max({GameTime(s) - GameTime(lastTick), 0}) \in Nat
        /\ Max({s.real - lastTick.real, 0}) \in Nat
    BY <2>2, MaxOfTwo
  <2> QED
    BY <1>2, <2>3 DEF GameDelta, RealDelta
<1> QED
  BY <1>1, <1>2

-----------------------------------------------------------------------------
(* The loops of a tick, for one runtime *)

Blockers == [Followed -> NPCs \cup {Player, Nobody}]

LEMMA DetectionTypes ==
  /\ Detections \subseteq Blockers
  /\ NpcDetections \subseteq Blockers
<1>1. ASSUME NEW sees PROVE DetectBlockers(sees) \in Blockers
  <2> DEFINE ahead(n) == {m \in NPCs \ {n} : /\ <<n, m>> \in sees
                                             /\ <<m, n>> \in sees => m < n}
             seen(n) == IF <<n, Player>> \in sees THEN Player
                        ELSE IF ahead(n) = {} THEN Nobody ELSE Min(ahead(n))
  <2>1. \A n \in Followed : ahead(n) # {} => Min(ahead(n)) \in NPCs
    BY MinIsThere
  <2>2. \A n \in Followed : seen(n) \in NPCs \cup {Player, Nobody}
    BY <2>1
  <2>3. DetectBlockers(sees) = [n \in Followed |-> seen(n)]
    BY DEF DetectBlockers
  <2> QED
    BY <2>2, <2>3 DEF Blockers
<1> QED
  BY <1>1 DEF Detections, NpcDetections, DetectionsOf

\* What may become of the phase of a runtime while it walks on.
Walked(p, q) ==
  \/ q = p
  \/ p = "sidestep" /\ q = "passing"
  \/ p = "returning" /\ q = "none"

LEMMA Advanced ==
  ASSUME NEW r \in Runtimes, NEW e \in Nat, NEW d, d = AdvanceAvoidance(r, e)
  PROVE  /\ d \in Runtimes
         /\ d.day = r.day /\ d.delay = r.delay /\ d.by = r.by
         /\ d.since = r.since /\ d.clear = r.clear
         /\ Walked(r.phase, d.phase)
<1> DEFINE out == Min({r.offset + e, OffsetDistance})
           back == Max({r.offset - e, 0})
<1>1. r.offset \in Nat /\ OffsetDistance \in Nat
  BY DelaysAssumption DEF Runtimes
<1>2. out \in Nat /\ back \in Nat
  BY <1>1, MinOfTwo, MaxOfTwo
<1>3. CASE e > 0 /\ r.phase = "sidestep"
  <2>1. d = [r EXCEPT !.offset = out,
                      !.phase = IF out = OffsetDistance THEN "passing" ELSE @]
    BY <1>3 DEF AdvanceAvoidance
  <2> HIDE DEF out
  <2> QED
    BY <2>1, <1>2, <1>3 DEF Runtimes, Phases, Walked
<1>4. CASE e > 0 /\ r.phase = "returning"
  <2>1. d = IF back = 0 THEN [r EXCEPT !.phase = "none", !.offset = 0]
            ELSE [r EXCEPT !.offset = back]
    BY <1>4 DEF AdvanceAvoidance, ResetAvoidance
  <2> HIDE DEF back
  <2> QED
    BY <2>1, <1>2, <1>4 DEF Runtimes, Phases, Walked
<1>5. CASE ~(e > 0 /\ r.phase = "sidestep") /\ ~(e > 0 /\ r.phase = "returning")
  <2>1. d = r
    BY <1>5 DEF AdvanceAvoidance
  <2> QED
    BY <2>1 DEF Walked
<1> QED
  BY <1>3, <1>4, <1>5

LEMMA FreshType ==
  ASSUME NEW day \in Int, NEW delay \in Nat
  PROVE  Fresh(day, delay) \in Runtimes
BY DEF Fresh, Runtimes, Phases, Times

\* On a new day all is forgotten,
LEMMA DelayedNewDay ==
  ASSUME NpcTypeOK, NEW s \in Snapshots, NEW r \in Runtimes, r.day # DayNumber(s)
  PROVE  Delayed(r, s) = Fresh(DayNumber(s), 0)
<1> DEFINE f == Fresh(DayNumber(s), 0)
<1>1. f.phase = "none"
  BY DEF Fresh
<1>2. Delayed(r, s) = AdvanceAvoidance(f, RealDelta(s))
  BY DEF Delayed
<1> HIDE DEF f
<1>3. AdvanceAvoidance(f, RealDelta(s)) = f
  BY <1>1 DEF AdvanceAvoidance
<1> QED
  BY <1>2, <1>3 DEF f

\* and within a day the delay grows by the game time that has passed at most.
LEMMA DelayedSameDay ==
  ASSUME NpcTypeOK, NEW s \in Snapshots, NEW r \in Runtimes, r.day = DayNumber(s),
         NEW d, d = Delayed(r, s)
  PROVE  /\ d \in Runtimes
         /\ d.day = r.day /\ d.by = r.by
         /\ d.since = r.since /\ d.clear = r.clear
         /\ d.delay <= r.delay + GameDelta(s)
         /\ Walked(r.phase, d.phase)
<1> DEFINE held == [r EXCEPT !.delay = @ + GameDelta(s)]
           q == IF Frozen(r) THEN held ELSE r
<1>1. GameDelta(s) \in Nat /\ RealDelta(s) \in Nat
  BY DeltaTypes
<1>2. /\ q \in Runtimes /\ q.delay <= r.delay + GameDelta(s)
      /\ q.day = r.day /\ q.by = r.by /\ q.phase = r.phase
      /\ q.since = r.since /\ q.clear = r.clear
  BY <1>1 DEF Runtimes
<1>3. Delayed(r, s) = AdvanceAvoidance(q, RealDelta(s))
  BY DEF Delayed
<1> HIDE DEF q
<1> QED
  BY <1>1, <1>2, <1>3, Advanced

-----------------------------------------------------------------------------
(* The second loop of a tick: the four situations of a runtime *)

LEMMA DelayFacts ==
  /\ NPCs \subseteq Nat \ {0} /\ NNpcs \in Nat
  /\ Player \notin NPCs /\ Nobody \notin NPCs /\ Player # Nobody
  /\ ClearHysteresis \in Nat /\ NpcPatience \in Nat /\ EncounterReset \in Nat
  /\ AvoidancePatience \in Nat
  /\ 0 < ClearHysteresis /\ ClearHysteresis < NpcPatience
  /\ NpcPatience < EncounterReset /\ EncounterReset < AvoidancePatience
BY DelaysAssumption DEF NPCs

LEMMA PatienceType ==
  ASSUME NEW b
  PROVE  /\ Patience(b) \in Nat /\ 0 < Patience(b)
         /\ b \in NPCs => Patience(b) = NpcPatience
         /\ b = Player => Patience(b) = AvoidancePatience
BY DelayFacts DEF Patience

Blocker == NPCs \cup {Player, Nobody}

LEMMA AvoidingFields ==
  ASSUME NEW r \in Runtimes, NEW base \in Blocker, NEW now \in Nat,
         r.phase # "none", NEW j, j = Avoiding(r, base, now)
  PROVE  /\ j \in Runtimes /\ j.day = r.day /\ j.delay = r.delay
         /\ j.by = Nobody /\ j.since = NoTime /\ j.phase # "none"
         /\ (r.phase \in {"sidestep", "returning"} => r.clear = NoTime) =>
              (j.phase \in {"sidestep", "returning"} => j.clear = NoTime)
<1> DEFINE clear == Since(r.clear, now)
<1>1. clear \in Times
  BY DEF Since, Runtimes, Times
<1> HIDE DEF clear
<1>2. CASE r.phase = "passing" /\ base # Nobody
  <2>1. j = [[r EXCEPT !.clear = NoTime] EXCEPT !.by = Nobody, !.since = NoTime]
    BY <1>2 DEF Avoiding
  <2> QED
    BY <2>1, <1>2 DEF Runtimes, Phases, Times
<1>3. CASE r.phase = "passing" /\ base = Nobody /\ now - clear >= ClearHysteresis
  <2>1. j = [[r EXCEPT !.phase = "returning", !.clear = NoTime]
               EXCEPT !.by = Nobody, !.since = NoTime]
    BY <1>3 DEF Avoiding, clear
  <2> QED
    BY <2>1, <1>3 DEF Runtimes, Phases, Times
<1>4. CASE r.phase = "passing" /\ base = Nobody /\ ~(now - clear >= ClearHysteresis)
  <2>1. j = [[r EXCEPT !.clear = clear] EXCEPT !.by = Nobody, !.since = NoTime]
    BY <1>4 DEF Avoiding, clear
  <2> QED
    BY <2>1, <1>1, <1>4 DEF Runtimes, Phases, Times
<1>5. CASE r.phase = "returning" /\ base # Nobody
  <2>1. j = [[r EXCEPT !.phase = "sidestep", !.clear = NoTime]
               EXCEPT !.by = Nobody, !.since = NoTime]
    BY <1>5 DEF Avoiding
  <2> QED
    BY <2>1, <1>5 DEF Runtimes, Phases, Times
<1>6. CASE r.phase # "passing" /\ ~(r.phase = "returning" /\ base # Nobody)
  <2>1. j = [r EXCEPT !.by = Nobody, !.since = NoTime]
    BY <1>6 DEF Avoiding
  <2> QED
    BY <2>1, <1>6 DEF Runtimes, Phases, Times
<1> QED
  BY <1>2, <1>3, <1>4, <1>5, <1>6

LEMMA StartAvoidanceFields ==
  ASSUME NEW r \in Runtimes, NEW j, j = StartAvoidance(r)
  PROVE  /\ j \in Runtimes /\ j.day = r.day /\ j.delay = r.delay
         /\ j.by = Nobody /\ j.since = NoTime /\ j.clear = NoTime
         /\ j.phase = "sidestep"
BY DEF StartAvoidance, Runtimes, Phases, Times

LEMMA BlockedFields ==
  ASSUME NEW r \in Runtimes, NEW b \in Blocker, NEW now \in Nat,
         NEW j, j = Blocked(r, b, now)
  PROVE  \/ j = StartAvoidance(r) /\ r.since # NoTime
         \/ /\ j \in Runtimes /\ j.day = r.day /\ j.delay = r.delay
            /\ j.by = b /\ j.clear = NoTime /\ j.phase = r.phase
            /\ j.since = IF r.since = NoTime THEN now ELSE r.since
            /\ now - j.since < Patience(b)
<1> DEFINE since == Since(r.since, now)
<1>1. since \in Times /\ since = IF r.since = NoTime THEN now ELSE r.since
  BY DEF Since, Runtimes, Times
<1>2. j = IF now - since >= Patience(b) THEN StartAvoidance(r)
          ELSE [r EXCEPT !.by = b, !.since = since, !.clear = NoTime]
  BY DEF Blocked
<1>3. since \in Int /\ Patience(b) \in Int
  BY <1>1, PatienceType DEF Times
<1> HIDE DEF since
<1>4. CASE now - since >= Patience(b)
  BY <1>1, <1>2, <1>3, <1>4, PatienceType
<1>5. CASE ~(now - since >= Patience(b))
  <2>1. j = [r EXCEPT !.by = b, !.since = since, !.clear = NoTime]
    BY <1>2, <1>5
  <2>2. /\ j \in Runtimes /\ j.day = r.day /\ j.delay = r.delay
        /\ j.by = b /\ j.clear = NoTime /\ j.phase = r.phase /\ j.since = since
    BY <2>1, <1>1 DEF Runtimes, Times, Blocker
  <2> QED
    BY <2>2, <1>1, <1>3, <1>5
<1> QED
  BY <1>4, <1>5

LEMMA ClearedFields ==
  ASSUME NEW r \in Runtimes, NEW now \in Nat, NEW j, j = Cleared(r, now),
         NEW c, c = (IF r.clear = NoTime THEN now ELSE r.clear),
         NEW delay, delay = (IF r.by \in NPCs THEN EncounterReset ELSE ClearHysteresis)
  PROVE  \/ j = StartAvoidance(r)
         \/ /\ j \in Runtimes /\ j.day = r.day /\ j.delay = r.delay
            /\ j.since = r.since /\ j.clear = c /\ j.phase = r.phase
            /\ r.by \in NPCs => now - r.since < NpcPatience
            /\ j.by = Nobody \/ (j.by = r.by /\ now - c < delay)
<1>1. c \in Times /\ delay \in Nat /\ r.since \in Int /\ c \in Int
  BY DelayFacts DEF Runtimes, Times, NoTime
<1> DEFINE kept == [r EXCEPT !.clear = c]
           let == [kept EXCEPT !.by = Nobody]
<1>2. j = IF r.by \in NPCs /\ now - r.since >= NpcPatience THEN StartAvoidance(r)
          ELSE IF now - c >= delay THEN let ELSE kept
  BY DEF Cleared, Since, Release
<1>3. /\ kept \in Runtimes /\ kept.day = r.day /\ kept.delay = r.delay
      /\ kept.since = r.since /\ kept.clear = c /\ kept.phase = r.phase
      /\ kept.by = r.by
  BY <1>1 DEF Runtimes
<1>4. /\ let \in Runtimes /\ let.day = r.day /\ let.delay = r.delay
      /\ let.since = r.since /\ let.clear = c /\ let.phase = r.phase
      /\ let.by = Nobody
  BY <1>1 DEF Runtimes
<1> HIDE DEF kept, let
<1> QED
  BY <1>1, <1>2, <1>3, <1>4, DelayFacts

LEMMA WalkingFields ==
  ASSUME NEW r \in Runtimes, NEW now \in Nat, NEW j, j = Walking(r, now)
  PROVE  \/ j = r
         \/ /\ j \in Runtimes /\ j.day = r.day /\ j.delay = r.delay
            /\ j.by = r.by /\ j.phase = r.phase
            /\ j.since = NoTime /\ j.clear = NoTime
            /\ r.clear # NoTime /\ now - r.clear >= EncounterReset
BY DEF Walking, Runtimes, Times

LEMMA JudgedType ==
  ASSUME NEW r \in Runtimes, NEW base \in Blocker, NEW b \in Blocker,
         NEW now \in Nat, NEW j, j = Judged(r, base, b, now)
  PROVE  j \in Runtimes /\ j.day = r.day /\ j.delay = r.delay
<1>1. CASE r.phase # "none"
  BY <1>1, AvoidingFields DEF Judged
<1>2. CASE r.phase = "none" /\ b # Nobody
  BY <1>2, BlockedFields, StartAvoidanceFields DEF Judged
<1>3. CASE r.phase = "none" /\ b = Nobody /\ r.by # Nobody
  BY <1>3, ClearedFields, StartAvoidanceFields DEF Judged
<1>4. CASE r.phase = "none" /\ b = Nobody /\ r.by = Nobody
  BY <1>4, WalkingFields DEF Judged
<1> QED
  BY <1>1, <1>2, <1>3, <1>4

-----------------------------------------------------------------------------
(* Encounters *)

LEMMA FreshWaits ==
  ASSUME NEW day, NEW delay, NEW t \in Times
  PROVE  Waits(Fresh(day, delay), NoTime, NoTime, t)
BY DelayFacts DEF Waits, Fresh, Times, NoTime

\* The first loop of a tick leaves an encounter as it is.
LEMMA WalkedWaits ==
  ASSUME NEW r \in Runtimes, NEW d \in Runtimes, NEW m, NEW a, NEW t,
         Waits(r, m, a, t),
         d.by = r.by, d.since = r.since, d.clear = r.clear,
         Walked(r.phase, d.phase)
  PROVE  Waits(d, m, a, t)
BY DEF Waits, Walked

\* What the tick at now makes of the beginning of an encounter.
EncounterAfter(r, j, b, m, a, now) ==
  IF r.phase # "none" \/ j.phase # "none" THEN NoTime
  ELSE IF b = Nobody THEN (IF now - a >= EncounterReset THEN NoTime ELSE m)
  ELSE IF now - a >= EncounterReset \/ m = NoTime THEN now ELSE m

\* Another tick, of a runtime that walked for the time from t to now.
LEMMA JudgedWaits ==
  ASSUME NEW r \in Runtimes, NEW base \in Blocker, NEW b \in Blocker,
         NEW m \in Times, NEW a \in Times, NEW t \in Times, NEW now \in Nat,
         t <= now, Waits(r, m, a, t),
         NEW j, j = Judged(r, base, b, now),
         NEW m2, m2 = EncounterAfter(r, j, b, m, a, now),
         NEW a2, a2 = (IF b # Nobody THEN now ELSE a)
  PROVE  Waits(j, m2, a2, now)
<1>0. j \in Runtimes
  BY JudgedType
<1>1. /\ a2 \in Times /\ a2 <= now /\ a <= a2 /\ m2 \in Times
      /\ m2 <= a2
  BY DEF Waits, Times, NoTime, EncounterAfter
<1>2. /\ r.since \in Times /\ r.clear \in Times
      /\ j.since \in Times /\ j.clear \in Times
      /\ r.by \in Blocker /\ j.by \in Blocker
  BY <1>0 DEF Runtimes, Blocker
<1>3. CASE j.phase # "none"
  <2>1. m2 = NoTime
    BY <1>3 DEF EncounterAfter
  <2>2. j.by = Nobody /\ j.since = NoTime
        /\ (j.phase \in {"sidestep", "returning"} => j.clear = NoTime)
    <3>1. CASE r.phase # "none"
      <4>1. r.phase \in {"sidestep", "returning"} => r.clear = NoTime
        BY DEF Waits
      <4> QED
        BY <3>1, <4>1, AvoidingFields DEF Judged
    <3>2. CASE r.phase = "none" /\ b # Nobody
      BY <1>3, <3>2, BlockedFields, StartAvoidanceFields DEF Judged
    <3>3. CASE r.phase = "none" /\ b = Nobody /\ r.by # Nobody
      BY <1>3, <3>3, ClearedFields, StartAvoidanceFields DEF Judged
    <3>4. CASE r.phase = "none" /\ b = Nobody /\ r.by = Nobody
      BY <1>3, <3>4, WalkingFields DEF Judged
    <3> QED
      BY <3>1, <3>2, <3>3, <3>4
  <2> QED
    BY <1>1, <1>2, <1>3, <2>1, <2>2 DEF Waits, Times, NoTime
<1>4. CASE j.phase = "none" /\ r.phase # "none"
  BY <1>4, AvoidingFields DEF Judged
<1>5. CASE j.phase = "none" /\ r.phase = "none" /\ b # Nobody
  <2>1. j = Blocked(r, b, now)
    BY <1>5 DEF Judged
  <2>2. /\ j.by = b /\ j.clear = NoTime
        /\ j.since = IF r.since = NoTime THEN now ELSE r.since
        /\ now - j.since < Patience(b)
    BY <1>5, <2>1, BlockedFields, StartAvoidanceFields
  <2>3. a2 = now /\ j.since # NoTime /\ j.since <= now
    BY <1>5, <1>2, <2>2 DEF Waits, Times, NoTime
  <2>4. m2 # NoTime /\ j.since <= m2
    BY <1>5, <1>2, <2>2, <2>3 DEF Waits, Times, NoTime, EncounterAfter
  <2> QED
    BY <1>1, <1>2, <1>5, <2>2, <2>3, <2>4 DEF Waits, Times, NoTime
<1>6. CASE j.phase = "none" /\ r.phase = "none" /\ b = Nobody /\ r.by # Nobody
  <2> DEFINE c == IF r.clear = NoTime THEN now ELSE r.clear
             delay == IF r.by \in NPCs THEN EncounterReset ELSE ClearHysteresis
  <2>1. j = Cleared(r, now)
    BY <1>6 DEF Judged
  <2>2. /\ j.since = r.since /\ j.clear = c
        /\ r.by \in NPCs => now - r.since < NpcPatience
        /\ j.by = Nobody \/ (j.by = r.by /\ now - c < delay)
    BY <1>6, <2>1, ClearedFields, StartAvoidanceFields
  <2>3. r.since # NoTime /\ a2 = a /\ r.since <= a
    BY <1>6 DEF Waits
  <2>4. j.clear # NoTime /\ a <= j.clear /\ j.clear <= now
    BY <1>2, <1>6, <2>2 DEF Waits, Times, NoTime
  <2>5. m2 # NoTime => m2 = m
    BY <1>6 DEF EncounterAfter
  <2>6. ASSUME r.by \in NPCs
        PROVE  m2 # NoTime
    <3>1. m # NoTime
      BY <1>6, <2>6, DelayFacts DEF Waits
    <3>2. ~(now - a >= EncounterReset)
      BY <2>2, <2>3, <2>6, <1>2, DelayFacts DEF Times, NoTime
    <3> QED
      BY <3>1, <3>2, <1>6 DEF EncounterAfter
  <2>7. ASSUME r.by = Player, j.by # Nobody
        PROVE  \/ m2 # NoTime /\ now - j.since < Patience(j.by)
               \/ a2 < now /\ now - j.clear < ClearHysteresis
    <3>1. j.by = Player /\ now - j.clear < ClearHysteresis
      BY <2>2, <2>7, DelayFacts
    <3>2. CASE a < now
      BY <2>3, <3>1, <3>2
    <3>3. CASE a = now
      <4>1. t = now
        BY <3>3 DEF Waits, Times, NoTime
      <4>2. m # NoTime /\ now - r.since < Patience(Player)
        BY <1>6, <2>7, <3>3, <4>1 DEF Waits
      <4>3. m2 = m
        BY <1>6, <3>3, DelayFacts DEF EncounterAfter
      <4> QED
        BY <2>2, <3>1, <4>2, <4>3
    <3> QED
      BY <3>2, <3>3, <1>1, <2>3 DEF Times, NoTime
  <2>8. j.by # Nobody =>
          \/ m2 # NoTime /\ now - j.since < Patience(j.by)
          \/ j.by = Player /\ j.clear # NoTime /\ a2 < now /\ now - j.clear < ClearHysteresis
    <3>1. CASE r.by \in NPCs
      BY <3>1, <2>2, <2>6, PatienceType
    <3>2. CASE r.by = Player
      BY <3>2, <2>2, <2>4, <2>7
    <3> QED
      BY <3>1, <3>2, <1>2, <1>6 DEF Blocker
  <2> HIDE DEF c, delay
  <2> QED
    BY <1>1, <1>2, <1>6, <2>2, <2>3, <2>4, <2>5, <2>8 DEF Waits
<1>7. CASE j.phase = "none" /\ r.phase = "none" /\ b = Nobody /\ r.by = Nobody
  <2>1. j = Walking(r, now)
    BY <1>7 DEF Judged
  <2>2. a2 = a /\ (m2 = NoTime \/ m2 = m)
    BY <1>7 DEF EncounterAfter
  <2>3. CASE j = r
    BY <1>1, <1>2, <1>7, <2>2, <2>3 DEF Waits, Times, NoTime
  <2>4. CASE j # r
    <3>1. /\ j.by = r.by /\ j.since = NoTime /\ j.clear = NoTime
          /\ r.clear # NoTime /\ now - r.clear >= EncounterReset
      BY <2>1, <2>4, WalkingFields
    <3>2. now - a >= EncounterReset
      BY <1>2, <1>7, <3>1, DelayFacts DEF Waits, Times, NoTime
    <3>3. m2 = NoTime
      BY <1>7, <3>2 DEF EncounterAfter
    <3> QED
      BY <1>1, <1>7, <2>2, <3>1, <3>3 DEF Waits, Times, NoTime
  <2> QED
    BY <2>3, <2>4
<1> QED
  BY <1>3, <1>4, <1>5, <1>6, <1>7

-----------------------------------------------------------------------------
(* A tick of the engine *)

Stale(s) == \/ s.epoch # epoch \/ s.real < setAt
            \/ lastTick # NoTick /\ s.real < lastTick.real
NewDay(s) == \E n \in Followed : rt[n].day # DayNumber(s)

\* A tick, runtime by runtime.
LEMMA TickFields ==
  ASSUME NpcIInv, NEW s \in Snapshots, Tick(s)
  PROVE  /\ lastTick' = s
         /\ skewed' = (Stale(s) \/ (skewed /\ ~NewDay(s)))
         /\ \E base \in Blockers, seen \in Blockers :
              /\ rt' = [n \in Followed |->
                          Judged(Delayed(rt[n], s), base[n], seen[n], s.real)]
              /\ seenAt' = [n \in Followed |->
                   IF seen[n] # Nobody THEN s.real
                   ELSE IF NewDay(s) THEN NoTime ELSE seenAt[n]]
              /\ met' = [n \in Followed |->
                   IF Delayed(rt[n], s).phase # "none" \/ rt'[n].phase # "none"
                   THEN NoTime
                   ELSE IF seen[n] = Nobody
                   THEN (IF NewDay(s) \/ s.real - seenAt[n] >= EncounterReset
                         THEN NoTime ELSE met[n])
                   ELSE IF (NewDay(s) \/ s.real - seenAt[n] >= EncounterReset)
                           \/ met[n] = NoTime
                   THEN s.real ELSE met[n]]
<1> DEFINE moved == [n \in Followed |-> Delayed(rt[n], s)]
<1>1. \A n \in Followed : moved[n] = Delayed(rt[n], s)
  OBVIOUS
<1>2. PICK base \in Detections, seen \in Detections :
        /\ rt' = [n \in Followed |-> Judged(moved[n], base[n], seen[n], s.real)]
        /\ seenAt' = [n \in Followed |->
             IF seen[n] # Nobody THEN s.real
             ELSE IF NewDay(s) THEN NoTime ELSE seenAt[n]]
        /\ met' = [n \in Followed |->
             LET over == NewDay(s) \/ s.real - seenAt[n] >= EncounterReset
             IN IF moved[n].phase # "none" \/ rt'[n].phase # "none" THEN NoTime
                ELSE IF seen[n] = Nobody THEN (IF over THEN NoTime ELSE met[n])
                ELSE IF over \/ met[n] = NoTime THEN s.real ELSE met[n]]
        /\ lastTick' = s
        /\ skewed' = (Stale(s) \/ (skewed /\ ~NewDay(s)))
  BY DEF Tick, NewDay, Stale
<1>3. base \in Blockers /\ seen \in Blockers
  BY DetectionTypes
<1> HIDE DEF moved
<1>4. rt' = [n \in Followed |-> Judged(Delayed(rt[n], s), base[n], seen[n], s.real)]
  BY <1>1, <1>2
<1>5. met' = [n \in Followed |->
        IF Delayed(rt[n], s).phase # "none" \/ rt'[n].phase # "none"
        THEN NoTime
        ELSE IF seen[n] = Nobody
        THEN (IF NewDay(s) \/ s.real - seenAt[n] >= EncounterReset
              THEN NoTime ELSE met[n])
        ELSE IF (NewDay(s) \/ s.real - seenAt[n] >= EncounterReset)
                \/ met[n] = NoTime
        THEN s.real ELSE met[n]]
  BY <1>1, <1>2
<1> QED
  BY <1>2, <1>3, <1>4, <1>5

\* The day ends for all runtimes at once.
LEMMA DaysAgree ==
  ASSUME NpcIInv, NEW s \in Snapshots, NewDay(s), NEW n \in Followed
  PROVE  rt[n].day # DayNumber(s)
<1>1. CASE lastTick = NoTick
  BY <1>1 DEF NewDay, NpcIInv, OneDay, Fresh
<1>2. CASE lastTick # NoTick
  BY <1>2 DEF NewDay, NpcIInv, OneDay
<1> QED
  BY <1>1, <1>2

LEMMA TickRuntimes ==
  ASSUME NpcIInv, NEW s \in Snapshots, Tick(s), NEW n \in Followed
  PROVE  /\ rt'[n] \in Runtimes /\ rt'[n].day = DayNumber(s)
         /\ met'[n] \in Times /\ seenAt'[n] \in Times
         /\ \/ rt'[n].delay = 0
            \/ rt[n].day = DayNumber(s) /\ rt'[n].delay <= rt[n].delay + GameDelta(s)
         /\ ~skewed' =>
              /\ ~Stale(s)
              /\ \/ rt'[n].delay = 0
                 \/ /\ ~skewed /\ rt[n].day = DayNumber(s)
                    /\ rt'[n].delay <= rt[n].delay + GameDelta(s)
              /\ Waits(rt'[n], met'[n], seenAt'[n], s.real)
<1>0. PICK base \in Blockers, seen \in Blockers :
        /\ rt'[n] = Judged(Delayed(rt[n], s), base[n], seen[n], s.real)
        /\ seenAt'[n] = IF seen[n] # Nobody THEN s.real
                        ELSE IF NewDay(s) THEN NoTime ELSE seenAt[n]
        /\ met'[n] =
             IF Delayed(rt[n], s).phase # "none" \/ rt'[n].phase # "none"
             THEN NoTime
             ELSE IF seen[n] = Nobody
             THEN (IF NewDay(s) \/ s.real - seenAt[n] >= EncounterReset
                   THEN NoTime ELSE met[n])
             ELSE IF (NewDay(s) \/ s.real - seenAt[n] >= EncounterReset)
                     \/ met[n] = NoTime
             THEN s.real ELSE met[n]
  <2>1. PICK base \in Blockers, seen \in Blockers :
              /\ rt' = [k \in Followed |->
                          Judged(Delayed(rt[k], s), base[k], seen[k], s.real)]
              /\ seenAt' = [k \in Followed |->
                   IF seen[k] # Nobody THEN s.real
                   ELSE IF NewDay(s) THEN NoTime ELSE seenAt[k]]
              /\ met' = [k \in Followed |->
                   IF Delayed(rt[k], s).phase # "none" \/ rt'[k].phase # "none"
                   THEN NoTime
                   ELSE IF seen[k] = Nobody
                   THEN (IF NewDay(s) \/ s.real - seenAt[k] >= EncounterReset
                         THEN NoTime ELSE met[k])
                   ELSE IF (NewDay(s) \/ s.real - seenAt[k] >= EncounterReset)
                           \/ met[k] = NoTime
                   THEN s.real ELSE met[k]]
    BY TickFields
  <2> QED
    BY <2>1
<1>1. /\ skewed' = (Stale(s) \/ (skewed /\ ~NewDay(s))) /\ NpcTypeOK
      /\ rt[n] \in Runtimes /\ s.real \in Nat /\ skewed \in BOOLEAN
      /\ met[n] \in Times /\ seenAt[n] \in Times /\ lastTick.real \in Times
      /\ base[n] \in Blocker /\ seen[n] \in Blocker /\ DayNumber(s) \in Int
  BY TickFields, DayAndTime DEF NpcIInv, NpcTypeOK, Snapshots, Blockers, Blocker, NoTick, Times
<1> DEFINE r == Delayed(rt[n], s)
           j == rt'[n]
<1>2. seenAt'[n] \in Times /\ met'[n] \in Times
  BY <1>0, <1>1 DEF Times, NoTime
<1>3. CASE NewDay(s)
  <2>1. r = Fresh(DayNumber(s), 0)
    BY <1>1, <1>3, DaysAgree, DelayedNewDay
  <2>2. r \in Runtimes /\ r.day = DayNumber(s) /\ r.delay = 0 /\ r.phase = "none"
    BY <1>1, <2>1, FreshType DEF Fresh
  <2>3. Waits(r, NoTime, NoTime, s.real)
    BY <1>1, <2>1, FreshWaits DEF Times
  <2>4. j = Judged(r, base[n], seen[n], s.real)
    BY <1>0
  <2> HIDE DEF r, j
  <2>5. j \in Runtimes /\ j.day = DayNumber(s) /\ j.delay = 0
    BY <1>1, <2>2, <2>4, JudgedType
  <2>6. seenAt'[n] = IF seen[n] # Nobody THEN s.real ELSE NoTime
    BY <1>0, <1>3
  <2>7. met'[n] = EncounterAfter(r, j, seen[n], NoTime, NoTime, s.real)
    BY <1>0, <1>3 DEF EncounterAfter, r, j
  <2>8. Waits(j, met'[n], seenAt'[n], s.real)
    <3>1. s.real \in Times /\ s.real <= s.real /\ NoTime \in Times
      BY <1>1 DEF Times
    <3> QED
      BY ONLY <1>1, <2>2, <2>3, <2>4, <2>6, <2>7, <3>1, JudgedWaits
  <2> QED
    BY <1>1, <1>2, <2>5, <2>8 DEF j
<1>4. CASE ~NewDay(s)
  <2>1. rt[n].day = DayNumber(s)
    BY <1>4 DEF NewDay
  <2>2. /\ r \in Runtimes /\ r.day = DayNumber(s)
        /\ r.by = rt[n].by /\ r.since = rt[n].since /\ r.clear = rt[n].clear
        /\ r.delay <= rt[n].delay + GameDelta(s)
        /\ Walked(rt[n].phase, r.phase)
    BY <1>1, <2>1, DelayedSameDay
  <2>4. j = Judged(r, base[n], seen[n], s.real)
    BY <1>0
  <2>6. seenAt'[n] = IF seen[n] # Nobody THEN s.real ELSE seenAt[n]
    BY <1>0, <1>4
  <2>7. met'[n] = EncounterAfter(r, j, seen[n], met[n], seenAt[n], s.real)
    BY <1>0, <1>4 DEF EncounterAfter
  <2> HIDE DEF r, j
  <2>5. j \in Runtimes /\ j.day = DayNumber(s) /\ j.delay <= rt[n].delay + GameDelta(s)
    BY <1>1, <2>2, <2>4, JudgedType
  <2>8. ASSUME ~skewed'
        PROVE  ~Stale(s) /\ ~skewed /\ Waits(j, met'[n], seenAt'[n], s.real)
    <3>1. ~Stale(s) /\ ~skewed
      BY <1>1, <1>4, <2>8
    <3>2. lastTick.real <= s.real
      BY <1>1, <3>1 DEF Stale, Times, NoTick, NoTime
    <3>3. Waits(rt[n], met[n], seenAt[n], lastTick.real)
      BY <3>1 DEF NpcIInv, EncountersAreTimed
    <3>4. Waits(r, met[n], seenAt[n], lastTick.real)
      BY <1>1, <2>2, <3>3, WalkedWaits
    <3> QED
      BY <1>1, <2>2, <2>4, <2>6, <2>7, <3>1, <3>2, <3>4, JudgedWaits
  <2> QED
    BY <1>2, <2>1, <2>5, <2>8 DEF j
<1> QED
  BY <1>3, <1>4

-----------------------------------------------------------------------------
(* The invariant *)

LEMMA TimeTypes ==
  /\ NoTime \in Times /\ NoTick.real = NoTime /\ NoTick \notin Snapshots
  /\ \A n \in Nat : n \in Times /\ NoTime <= n /\ n # NoTime
BY DEF NoTick, NoTime, Snapshots, Times

\* What a tick makes of the engine, whoever calls it.
LEMMA TickKeeps ==
  ASSUME NpcIInv, NEW s \in Snapshots, Tick(s), s.real <= real,
         UNCHANGED <<real, epoch, up, rows, setAt, sets>>,
         up, admin'.pc # "set" => admin.pc # "set"
  PROVE  /\ rt' \in [Followed -> Runtimes] /\ lastTick' \in Snapshots
         /\ skewed' \in BOOLEAN
         /\ met' \in [Followed -> Times] /\ seenAt' \in [Followed -> Times]
         /\ lastTick'.real <= real'
         /\ OneDay' /\ DelaysFollowClock' /\ EncountersAreTimed'
<1>0. NpcTypeOK
  BY DEF NpcIInv
<1>1. lastTick' = s /\ skewed' = (Stale(s) \/ (skewed /\ ~NewDay(s)))
  BY TickFields
<1>2. skewed' \in BOOLEAN
  BY <1>0, <1>1 DEF Stale, NewDay, NpcTypeOK
<1>3. /\ rt' \in [Followed -> Runtimes]
      /\ met' \in [Followed -> Times] /\ seenAt' \in [Followed -> Times]
  <2>1. /\ rt' = [n \in Followed |-> rt'[n]] /\ met' = [n \in Followed |-> met'[n]]
        /\ seenAt' = [n \in Followed |-> seenAt'[n]]
    BY TickFields
  <2>2. \A n \in Followed : /\ rt'[n] \in Runtimes
                            /\ met'[n] \in Times /\ seenAt'[n] \in Times
    BY TickRuntimes
  <2> QED
    BY <2>1, <2>2
<1>4. s # NoTick /\ s.real \in Nat /\ s.epoch \in Int
  BY TimeTypes DEF Snapshots
<1>5. OneDay'
  <2>1. \A n \in Followed : rt'[n].day = DayNumber(s)
    BY TickRuntimes
  <2> QED
    BY <1>1, <1>4, <2>1 DEF OneDay, DayNumber
<1>6. EncountersAreTimed'
  <2>1. ~skewed' => \A n \in Followed : Waits(rt'[n], met'[n], seenAt'[n], s.real)
    BY TickRuntimes
  <2> QED
    BY <1>1, <2>1 DEF EncountersAreTimed
<1>7. ASSUME ~skewed', admin'.pc # "set"
      PROVE  /\ s.epoch = epoch /\ setAt <= s.real
             /\ \A n \in Followed : /\ rt'[n].delay <= GameTime(s)
                                    /\ rt'[n].delay <= s.real - setAt
  <2>1. s.epoch = epoch /\ ~(s.real < setAt) /\ ~(lastTick # NoTick /\ s.real < lastTick.real)
    BY <1>1, <1>7 DEF Stale
  <2>2. setAt \in Nat /\ setAt <= s.real
    BY <1>0, <1>4, <2>1 DEF NpcTypeOK
  <2>3. ASSUME NEW n \in Followed
        PROVE  rt'[n].delay <= GameTime(s) /\ rt'[n].delay <= s.real - setAt
    <3>0. GameTime(s) \in Nat
      BY DayAndTime
    <3>1. CASE rt'[n].delay = 0
      BY <1>4, <2>2, <3>0, <3>1
    <3>2. CASE /\ ~skewed /\ rt[n].day = DayNumber(s)
               /\ rt'[n].delay <= rt[n].delay + GameDelta(s)
      <4>0. rt[n].delay \in Nat /\ rt'[n].delay \in Nat /\ GameDelta(s) \in Nat
        BY <1>0, <1>3, DeltaTypes DEF NpcTypeOK, Runtimes
      <4>1. CASE lastTick = NoTick
        <5>1. rt[n].delay = 0 /\ GameDelta(s) = 0
          BY <1>0, <4>1, DeltaTypes DEF NpcIInv, OneDay, Fresh, SameDay
        <5> QED
          BY <1>4, <2>2, <3>0, <3>2, <4>0, <5>1
      <4>2. CASE lastTick # NoTick
        <5>1. lastTick \in Snapshots /\ DayNumber(lastTick) = DayNumber(s)
          BY <1>0, <3>2, <4>2 DEF NpcIInv, OneDay, NpcTypeOK
        <5>2. /\ lastTick.epoch = s.epoch /\ rt[n].delay <= GameTime(lastTick)
              /\ rt[n].delay <= lastTick.real - setAt
          BY <1>7, <2>1, <3>2, <4>2 DEF NpcIInv, DelaysFollowClock
        <5>3. GameTime(s) - GameTime(lastTick) = s.real - lastTick.real
          BY <5>1, <5>2, TimeOfOneDay
        <5>4. lastTick.real \in Nat /\ lastTick.real <= s.real
              /\ GameTime(lastTick) \in Nat
          BY <1>4, <2>1, <4>2, <5>1, DayAndTime DEF Snapshots
        <5>5. GameDelta(s) = Max({GameTime(s) - GameTime(lastTick), 0})
          BY <4>2, <5>1 DEF GameDelta, SameDay
        <5>6. GameDelta(s) = s.real - lastTick.real
          BY <1>4, <3>0, <5>3, <5>4, <5>5, MaxOfTwo
        <5> QED
          BY <1>4, <2>2, <3>0, <3>2, <4>0, <5>2, <5>3, <5>4, <5>6
      <4> QED
        BY <4>1, <4>2
    <3> QED
      BY <1>7, <3>1, <3>2, TickRuntimes
  <2> QED
    BY <2>1, <2>2, <2>3
<1>8. DelaysFollowClock'
  BY <1>1, <1>7 DEF DelaysFollowClock, GameTime
<1> QED
  BY <1>1, <1>2, <1>3, <1>5, <1>6, <1>8

LEMMA NpcInitIInv == NpcInit => NpcIInv
<1> SUFFICES ASSUME NpcInit PROVE NpcIInv
  OBVIOUS
<1>1. NpcTypeOK
  <2>1. Fresh(-1, 0) \in Runtimes
    BY FreshType
  <2>2. {real, setAt, sets, stops} \subseteq Nat /\ epoch \in Int
    BY DEF NpcInit
  <2>7. up \in BOOLEAN /\ skewed \in BOOLEAN
    BY DEF NpcInit
  <2>6. lastTick \in Snapshots \cup {NoTick}
    BY DEF NpcInit
  <2>3. /\ rt \in [Followed -> Runtimes]
        /\ met \in [Followed -> Times] /\ seenAt \in [Followed -> Times]
    BY <2>1 DEF NpcInit, Times
  <2>4. /\ sim \in [pc : {"idle", "tick"}, snapshot : Snapshots \cup {NoTick}]
        /\ admin \in [pc : {"idle", "set", "reset", "tick"},
                      snapshot : Snapshots \cup {NoTick}]
    BY DEF NpcInit, Idle
  <2>5. rows \in [Followed -> [day : Int, delay : Nat]]
    BY DEF NpcInit, NoRows
  <2> QED
    BY <2>2, <2>3, <2>4, <2>5, <2>6, <2>7 DEF NpcTypeOK
<1>2. DownIsIdle /\ SnapshotsArePast
  BY DEF NpcInit, DownIsIdle, SnapshotsArePast, Idle, NoTick, NoTime
<1>3. OneDay /\ DelaysFollowClock
  BY DEF NpcInit, OneDay, DelaysFollowClock
<1>4. NeverSet
  BY DelaysAssumption DEF NpcInit, NeverSet, Idle, NoRows
<1>5. EncountersAreTimed
  <2>1. NoTick.real \in Times
    BY TimeTypes
  <2> QED
    BY <2>1, FreshWaits DEF NpcInit, EncountersAreTimed
<1> QED
  BY <1>1, <1>2, <1>3, <1>4, <1>5 DEF NpcIInv

-----------------------------------------------------------------------------
(* The simulation loop *)

LEMMA SnapshotType ==
  ASSUME NpcTypeOK
  PROVE  Snapshot \in Snapshots /\ Snapshot.real = real /\ Snapshot.epoch = epoch
BY DEF NpcTypeOK, Snapshot, Snapshots

LEMMA SimulationSnapshotIInv ==
  ASSUME NpcIInv, SimulationSnapshot
  PROVE  NpcIInv'
<1>0. Snapshot \in Snapshots /\ Snapshot.real = real /\ Snapshot.epoch = epoch
  BY SnapshotType DEF NpcIInv
<1>1. /\ up /\ sim' = [pc |-> "tick", snapshot |-> Snapshot]
      /\ UNCHANGED <<real, epoch, up, engine, admin, rows, setAt, sets, stops>>
  BY DEF SimulationSnapshot
<1>2. sim'.pc = "tick" /\ sim'.snapshot = Snapshot
  BY <1>1
<1>3. NpcTypeOK'
  BY <1>0, <1>1 DEF NpcIInv, NpcTypeOK, engine
<1>4. DownIsIdle' /\ SnapshotsArePast'
  BY <1>0, <1>1, <1>2 DEF NpcIInv, DownIsIdle, SnapshotsArePast, engine, NpcTypeOK
<1>5. OneDay' /\ DelaysFollowClock' /\ EncountersAreTimed'
  BY <1>1 DEF NpcIInv, OneDay, DelaysFollowClock, EncountersAreTimed, engine,
              DayNumber, GameTime
<1>6. NeverSet'
  BY <1>0, <1>1, <1>2 DEF NpcIInv, NeverSet, SnapshotsArePast, engine
<1> QED
  BY <1>3, <1>4, <1>5, <1>6 DEF NpcIInv

LEMMA SimulationTickIInv ==
  ASSUME NpcIInv, SimulationTick
  PROVE  NpcIInv'
<1> DEFINE s == sim.snapshot
<1>1. /\ up /\ sim.pc = "tick" /\ Tick(s) /\ sim' = [sim EXCEPT !.pc = "idle"]
      /\ UNCHANGED <<real, epoch, up, admin, rows, setAt, sets, stops>>
  BY DEF SimulationTick
<1>2. s \in Snapshots /\ s.real <= real
  BY <1>1 DEF NpcIInv, SnapshotsArePast
<1>3. /\ rt' \in [Followed -> Runtimes] /\ lastTick' \in Snapshots
      /\ skewed' \in BOOLEAN
      /\ met' \in [Followed -> Times] /\ seenAt' \in [Followed -> Times]
      /\ lastTick'.real <= real'
      /\ OneDay' /\ DelaysFollowClock' /\ EncountersAreTimed'
  BY <1>1, <1>2, TickKeeps
<1>4. sim' \in [pc : {"idle", "tick"}, snapshot : Snapshots \cup {NoTick}]
      /\ sim'.pc = "idle"
  BY <1>1 DEF NpcIInv, NpcTypeOK
<1>5. NpcTypeOK'
  BY <1>1, <1>3, <1>4 DEF NpcIInv, NpcTypeOK
<1>6. DownIsIdle' /\ SnapshotsArePast'
  BY <1>1, <1>3, <1>4 DEF NpcIInv, DownIsIdle, SnapshotsArePast
<1>7. NeverSet'
  <2>1. sets = 0 => ~Stale(s) /\ ~skewed
    BY <1>1, <1>2 DEF NpcIInv, NpcTypeOK, NeverSet, Stale, Snapshots, NoTick, NoTime
  <2>2. sets = 0 => ~skewed'
    BY <2>1, <1>1, <1>2, TickFields
  <2> QED
    BY <1>1, <1>4, <2>2 DEF NpcIInv, NeverSet
<1> QED
  BY <1>3, <1>5, <1>6, <1>7 DEF NpcIInv

-----------------------------------------------------------------------------
(* The setting of the clock *)

LEMMA SetGameSecondIInv ==
  ASSUME NpcIInv, NEW second \in Settings, SetGameSecond(second)
  PROVE  NpcIInv'
<1>0. NpcTypeOK /\ Snapshot \in Snapshots /\ second \in Nat
  BY SnapshotType, DelaysAssumption DEF NpcIInv
<1>1. /\ up /\ epoch' = EpochFor(second) /\ admin' = [admin EXCEPT !.pc = "set"]
      /\ setAt' = real /\ sets' = sets + 1
      /\ UNCHANGED <<real, up, engine, sim, rows, stops>>
  BY DEF SetGameSecond
<1>2. EpochFor(second) \in Int
  <2>1. DayNumber(Snapshot) * DayLength \in Int
    BY <1>0, DayAndTime, DelaysAssumption
  <2> QED
    BY <1>0, <2>1 DEF EpochFor, NpcTypeOK
<1>3. /\ admin' \in [pc : {"idle", "set", "reset", "tick"},
                     snapshot : Snapshots \cup {NoTick}]
      /\ admin'.pc = "set"
  BY <1>0, <1>1 DEF NpcTypeOK
<1>4. NpcTypeOK'
  BY <1>0, <1>1, <1>2, <1>3 DEF NpcTypeOK, engine
<1>5. DownIsIdle' /\ SnapshotsArePast'
  BY <1>0, <1>1, <1>3 DEF NpcIInv, DownIsIdle, SnapshotsArePast, engine, NpcTypeOK
<1>6. OneDay' /\ EncountersAreTimed'
  BY <1>1 DEF NpcIInv, OneDay, EncountersAreTimed, engine, DayNumber
<1>7. DelaysFollowClock' /\ NeverSet'
  BY <1>0, <1>1, <1>3 DEF DelaysFollowClock, NeverSet, NpcTypeOK
<1> QED
  BY <1>4, <1>5, <1>6, <1>7 DEF NpcIInv

\* An engine that has forgotten everything.
LEMMA Forgotten ==
  ASSUME rt' = [n \in Followed |-> Fresh(-1, 0)], lastTick' = NoTick,
         skewed' = FALSE,
         met' = [n \in Followed |-> NoTime], seenAt' = [n \in Followed |-> NoTime]
  PROVE  /\ rt' \in [Followed -> Runtimes] /\ lastTick' \in Snapshots \cup {NoTick}
         /\ skewed' \in BOOLEAN /\ lastTick'.real = NoTime
         /\ met' \in [Followed -> Times] /\ seenAt' \in [Followed -> Times]
         /\ OneDay' /\ DelaysFollowClock' /\ EncountersAreTimed'
<1>1. Fresh(-1, 0) \in Runtimes
  BY FreshType
<1>2. /\ rt' \in [Followed -> Runtimes] /\ lastTick' \in Snapshots \cup {NoTick}
      /\ skewed' \in BOOLEAN /\ lastTick'.real = NoTime
      /\ met' \in [Followed -> Times] /\ seenAt' \in [Followed -> Times]
  BY <1>1, TimeTypes
<1>3. OneDay' /\ DelaysFollowClock'
  BY DEF OneDay, DelaysFollowClock
<1>4. EncountersAreTimed'
  <2>1. \A n \in Followed : Waits(Fresh(-1, 0), NoTime, NoTime, NoTick.real)
    BY TimeTypes, FreshWaits
  <2> QED
    BY <2>1 DEF EncountersAreTimed
<1> QED
  BY <1>2, <1>3, <1>4

LEMMA ResetScheduleStateIInv ==
  ASSUME NpcIInv, ResetScheduleState
  PROVE  NpcIInv'
<1>1. /\ up /\ admin.pc = "set" /\ admin' = [admin EXCEPT !.pc = "reset"]
      /\ UNCHANGED <<real, epoch, up, sim, rows, setAt, sets, stops>>
  BY DEF ResetScheduleState
<1>2. /\ rt' \in [Followed -> Runtimes] /\ lastTick' \in Snapshots \cup {NoTick}
      /\ skewed' \in BOOLEAN /\ lastTick'.real = NoTime
      /\ met' \in [Followed -> Times] /\ seenAt' \in [Followed -> Times]
      /\ OneDay' /\ DelaysFollowClock' /\ EncountersAreTimed'
  BY Forgotten DEF ResetScheduleState
<1>3. /\ admin' \in [pc : {"idle", "set", "reset", "tick"},
                     snapshot : Snapshots \cup {NoTick}]
      /\ admin'.pc = "reset"
  BY <1>1 DEF NpcIInv, NpcTypeOK
<1>4. NpcTypeOK'
  BY <1>1, <1>2, <1>3 DEF NpcIInv, NpcTypeOK
<1>5. DownIsIdle' /\ SnapshotsArePast'
  BY <1>1, <1>2, <1>3 DEF NpcIInv, NpcTypeOK, DownIsIdle, SnapshotsArePast, NoTime
<1>6. NeverSet'
  BY <1>1 DEF NpcIInv, NeverSet
<1> QED
  BY <1>2, <1>4, <1>5, <1>6 DEF NpcIInv

LEMMA ResetSnapshotIInv ==
  ASSUME NpcIInv, ResetSnapshot
  PROVE  NpcIInv'
<1>0. Snapshot \in Snapshots /\ Snapshot.real = real
  BY SnapshotType DEF NpcIInv
<1>1. /\ up /\ admin.pc = "reset"
      /\ admin' = [pc |-> "tick", snapshot |-> Snapshot]
      /\ UNCHANGED <<real, epoch, up, engine, sim, rows, setAt, sets, stops>>
  BY DEF ResetSnapshot
<1>2. admin'.pc = "tick" /\ admin'.snapshot = Snapshot
  BY <1>1
<1>3. NpcTypeOK'
  BY <1>0, <1>1 DEF NpcIInv, NpcTypeOK, engine
<1>4. DownIsIdle' /\ SnapshotsArePast'
  BY <1>0, <1>1, <1>2 DEF NpcIInv, DownIsIdle, SnapshotsArePast, engine, NpcTypeOK
<1>5. OneDay' /\ EncountersAreTimed'
  BY <1>1 DEF NpcIInv, OneDay, EncountersAreTimed, engine, DayNumber
<1>6. DelaysFollowClock' /\ NeverSet'
  BY <1>1, <1>2 DEF NpcIInv, DelaysFollowClock, NeverSet, engine, GameTime
<1> QED
  BY <1>3, <1>4, <1>5, <1>6 DEF NpcIInv

LEMMA ResetTickIInv ==
  ASSUME NpcIInv, ResetTick
  PROVE  NpcIInv'
<1> DEFINE s == admin.snapshot
<1>1. /\ up /\ admin.pc = "tick" /\ Tick(s) /\ admin' = Idle
      /\ UNCHANGED <<real, epoch, up, sim, rows, setAt, sets, stops>>
  BY DEF ResetTick
<1>2. s \in Snapshots /\ s.real <= real
  BY <1>1 DEF NpcIInv, SnapshotsArePast
<1>3. /\ rt' \in [Followed -> Runtimes] /\ lastTick' \in Snapshots
      /\ skewed' \in BOOLEAN
      /\ met' \in [Followed -> Times] /\ seenAt' \in [Followed -> Times]
      /\ lastTick'.real <= real'
      /\ OneDay' /\ DelaysFollowClock' /\ EncountersAreTimed'
  BY <1>1, <1>2, TickKeeps
<1>4. admin' \in [pc : {"idle", "set", "reset", "tick"},
                  snapshot : Snapshots \cup {NoTick}]
      /\ admin'.pc = "idle"
  BY <1>1 DEF Idle
<1>5. NpcTypeOK'
  BY <1>1, <1>3, <1>4 DEF NpcIInv, NpcTypeOK
<1>6. DownIsIdle' /\ SnapshotsArePast'
  BY <1>1, <1>3, <1>4 DEF NpcIInv, DownIsIdle, SnapshotsArePast
<1>7. NeverSet'
  BY <1>1 DEF NpcIInv, NeverSet
<1> QED
  BY <1>3, <1>5, <1>6, <1>7 DEF NpcIInv

-----------------------------------------------------------------------------
(* Checkpoints and restarts *)

LEMMA SaveNPCCheckpointsIInv ==
  ASSUME NpcIInv, SaveNPCCheckpoints
  PROVE  NpcIInv'
<1>1. /\ up /\ rows' = [n \in Followed |-> [day |-> rt[n].day, delay |-> rt[n].delay]]
      /\ UNCHANGED <<real, epoch, up, engine, sim, admin, setAt, sets, stops>>
  BY DEF SaveNPCCheckpoints, Checkpoints
<1>2. rows' \in [Followed -> [day : Int, delay : Nat]]
  BY <1>1 DEF NpcIInv, NpcTypeOK, Runtimes
<1>3. NpcTypeOK'
  BY <1>1, <1>2 DEF NpcIInv, NpcTypeOK, engine
<1>4. DownIsIdle' /\ SnapshotsArePast'
  BY <1>1 DEF NpcIInv, DownIsIdle, SnapshotsArePast, engine
<1>5. OneDay' /\ DelaysFollowClock' /\ EncountersAreTimed'
  BY <1>1 DEF NpcIInv, OneDay, DelaysFollowClock, EncountersAreTimed, engine,
              DayNumber, GameTime
<1>6. NeverSet'
  <2>1. ASSUME sets = 0, NEW n \in Followed
        PROVE  /\ rows'[n].delay <= real
               /\ rows'[n].delay <= real - rows'[n].day * DayLength
    <3>1. rows'[n].day = rt[n].day /\ rows'[n].delay = rt[n].delay
      BY <1>1
    <3>2. CASE lastTick = NoTick
      <4>1. rt[n].day = -1 /\ rt[n].delay = 0
        BY <3>2 DEF NpcIInv, OneDay, Fresh
      <4> QED
        BY <3>1, <4>1, DelaysAssumption DEF NpcIInv, NpcTypeOK
    <3>3. CASE lastTick # NoTick
      <4>1. /\ lastTick \in Snapshots /\ lastTick.epoch = 0
            /\ rt[n].day = DayNumber(lastTick)
            /\ rt[n].delay <= GameTime(lastTick) /\ rt[n].delay <= lastTick.real
            /\ lastTick.real <= real /\ real \in Nat /\ rt[n].delay \in Nat
        BY <2>1, <3>3
        DEF NpcIInv, NpcTypeOK, Runtimes, NeverSet, OneDay, DelaysFollowClock,
            SnapshotsArePast, Snapshots
      <4>2. PICK p \in Int : p = DayLength * DayNumber(lastTick)
        BY <4>1, DayAndTime, DelaysAssumption
      <4>3. rows'[n].day * DayLength = p
        BY <3>1, <4>1, <4>2, DayAndTime, DelaysAssumption
      <4>4. lastTick.real = p + GameTime(lastTick) /\ GameTime(lastTick) \in Nat
        BY <4>1, <4>2, DayAndTime DEF Snapshots
      <4> QED
        BY <3>1, <4>1, <4>3, <4>4 DEF Snapshots
    <3> QED
      BY <3>2, <3>3
  <2> QED
    BY <1>1, <2>1 DEF NpcIInv, NeverSet, engine
<1> QED
  BY <1>3, <1>4, <1>5, <1>6 DEF NpcIInv

LEMMA StopIInv ==
  ASSUME NpcIInv, Stop
  PROVE  NpcIInv'
<1>1. /\ up' = FALSE /\ stops' = stops + 1 /\ sim' = Idle /\ admin' = Idle
      /\ lastTick' = NoTick
      /\ UNCHANGED <<real, epoch, rows, setAt, sets>>
  BY DEF Stop
<1>2. /\ rt' \in [Followed -> Runtimes] /\ lastTick' \in Snapshots \cup {NoTick}
      /\ skewed' \in BOOLEAN /\ lastTick'.real = NoTime
      /\ met' \in [Followed -> Times] /\ seenAt' \in [Followed -> Times]
      /\ OneDay' /\ DelaysFollowClock' /\ EncountersAreTimed'
  BY Forgotten DEF Stop
<1>3. /\ sim' \in [pc : {"idle", "tick"}, snapshot : Snapshots \cup {NoTick}]
      /\ admin' \in [pc : {"idle", "set", "reset", "tick"},
                     snapshot : Snapshots \cup {NoTick}]
      /\ sim'.pc = "idle" /\ admin'.pc = "idle"
  BY <1>1 DEF Idle
<1>4. {real', setAt', sets', stops'} \subseteq Nat /\ epoch' \in Int
  BY <1>1 DEF NpcIInv, NpcTypeOK
<1>5. up' \in BOOLEAN
  BY <1>1
<1>6. NpcTypeOK'
  BY <1>1, <1>2, <1>3, <1>4, <1>5 DEF NpcIInv, NpcTypeOK
<1>7. DownIsIdle' /\ SnapshotsArePast'
  BY <1>1, <1>2, <1>3, <1>4 DEF NpcIInv, DownIsIdle, SnapshotsArePast, NoTime
<1>8. NeverSet'
  BY <1>1, <1>3 DEF NpcIInv, NeverSet, Stop
<1> QED
  BY <1>2, <1>6, <1>7, <1>8 DEF NpcIInv

\* A runtime that is restored, after the first tick.
LEMMA RestoredRuntime ==
  ASSUME NpcIInv, ~up, NEW first \in Snapshots, first.real = real, first.epoch = 0,
         NEW n \in Followed, NEW b \in Blocker,
         NEW j, j = Judged(Delayed(Restored(n), first), b, b, real),
         NEW a, a = (IF b # Nobody THEN real ELSE NoTime)
  PROVE  /\ j \in Runtimes /\ j.day = DayNumber(first)
         /\ j.delay = 0 \/ (rows[n].day = DayNumber(first) /\ j.delay <= rows[n].delay)
         /\ sets = 0 \/ rows[n].day # DayNumber(first) =>
              j.delay <= GameTime(first) /\ j.delay <= real
         /\ Waits(j, a, a, real)
<1>0. NpcTypeOK /\ real \in Nat /\ real \in Times /\ NoTime \in Times
      /\ rows[n].day \in Int /\ rows[n].delay \in Nat
      /\ DayNumber(first) \in Int /\ GameTime(first) \in Nat
  BY DayAndTime DEF NpcIInv, NpcTypeOK, Times
<1>1. ~SameDay(first) /\ GameDelta(first) = 0
  BY <1>0, DeltaTypes DEF NpcIInv, DownIsIdle, SameDay
<1> DEFINE r == Restored(n)
           d == Delayed(r, first)
<1>2. /\ r \in Runtimes /\ r.day = rows[n].day /\ r.delay = rows[n].delay
      /\ r.phase = "none" /\ r.by = Nobody /\ r.since = NoTime /\ r.clear = NoTime
  BY <1>0, FreshType DEF Restored, Fresh
<1> HIDE DEF r
<1>3. /\ d \in Runtimes /\ d.day = DayNumber(first)
      /\ d.phase = "none" /\ d.by = Nobody /\ d.since = NoTime /\ d.clear = NoTime
      /\ d.delay = 0 \/ (rows[n].day = DayNumber(first) /\ d.delay <= rows[n].delay)
  <2>1. CASE r.day # DayNumber(first)
    <3>1. d = Fresh(DayNumber(first), 0)
      BY <1>0, <1>2, <2>1, DelayedNewDay
    <3> QED
      BY <1>0, <3>1, FreshType DEF Fresh
  <2>2. CASE r.day = DayNumber(first)
    <3>1. /\ d \in Runtimes /\ d.day = r.day /\ d.by = r.by
          /\ d.since = r.since /\ d.clear = r.clear
          /\ d.delay <= r.delay + GameDelta(first) /\ Walked(r.phase, d.phase)
      BY <1>0, <1>2, <2>2, DelayedSameDay
    <3> QED
      BY <1>0, <1>1, <1>2, <2>2, <3>1 DEF Walked
  <2> QED
    BY <2>1, <2>2
<1>4. j = Judged(d, b, b, real)
  BY DEF r
<1> HIDE DEF d
<1>5. j \in Runtimes /\ j.day = DayNumber(first) /\ j.delay = d.delay
  BY <1>0, <1>3, <1>4, JudgedType
<1>6. ASSUME sets = 0 \/ rows[n].day # DayNumber(first)
      PROVE  j.delay <= GameTime(first) /\ j.delay <= real
  <2>1. CASE d.delay = 0
    BY <1>0, <1>5, <2>1
  <2>2. CASE rows[n].day = DayNumber(first) /\ d.delay <= rows[n].delay
    <3>1. rows[n].delay <= real /\ rows[n].delay <= real - rows[n].day * DayLength
      BY <1>6, <2>2 DEF NpcIInv, NeverSet
    <3>2. PICK p \in Int : p = DayLength * DayNumber(first)
      BY <1>0, DelaysAssumption
    <3>3. rows[n].day * DayLength = p
      BY <1>0, <2>2, <3>2, DelaysAssumption
    <3>4. real = p + GameTime(first)
      BY <1>0, <3>2, DayAndTime
    <3> QED
      BY <1>0, <1>5, <2>2, <3>1, <3>3, <3>4 DEF Runtimes
  <2> QED
    BY <1>3, <2>1, <2>2
<1>7. Waits(j, a, a, real)
  <2>1. Waits(d, NoTime, NoTime, NoTime)
    BY <1>3, DelayFacts DEF Waits, NoTime
  <2>2. j.phase = "none"
    <3>1. CASE b # Nobody
      BY <1>0, <1>3, <1>4, <3>1, BlockedFields DEF Judged
    <3>2. CASE b = Nobody
      BY <1>0, <1>3, <1>4, <3>2, WalkingFields DEF Judged
    <3> QED
      BY <3>1, <3>2
  <2>3. a = EncounterAfter(d, j, b, NoTime, NoTime, real)
    BY <1>3, <2>2 DEF EncounterAfter
  <2>4. NoTime <= real
    BY <1>0 DEF NoTime
  <2>5. PICK none \in Times : none = NoTime
    BY <1>0
  <2>6. /\ Waits(d, none, none, none) /\ none <= real
        /\ a = EncounterAfter(d, j, b, none, none, real)
        /\ a = (IF b # Nobody THEN real ELSE none)
        /\ b \in Blocker /\ real \in Nat /\ d \in Runtimes
    BY <1>0, <1>3, <2>1, <2>3, <2>4, <2>5
  <2> QED
    BY ONLY <1>4, <2>5, <2>6, JudgedWaits
<1> QED
  BY <1>3, <1>5, <1>6, <1>7

LEMMA StartIInv ==
  ASSUME NpcIInv, Start
  PROVE  NpcIInv'
<1> DEFINE f == [real |-> real, epoch |-> 0]
<1>1. /\ ~up /\ up' = TRUE /\ epoch' = 0 /\ setAt' = 0 /\ lastTick' = f
      /\ skewed' = (sets > 0 /\ \E n \in Followed : rows[n].day = DayNumber(f))
      /\ met' = seenAt'
      /\ UNCHANGED <<real, sim, admin, rows, sets, stops>>
  BY DEF Start
<1>2. PICK seen \in NpcDetections :
        /\ rt' = [n \in Followed |->
             Judged(Delayed(Restored(n), f), seen[n], seen[n], real)]
        /\ seenAt' = [n \in Followed |-> IF seen[n] # Nobody THEN real ELSE NoTime]
  BY DEF Start
<1>3. PICK first \in Snapshots :
        first = f /\ first.real = real /\ first.epoch = 0 /\ first # NoTick
  <2>1. f \in Snapshots /\ f.real = real /\ f.epoch = 0
    BY DEF NpcIInv, NpcTypeOK, Snapshots
  <2> QED
    BY <2>1, TimeTypes
<1> HIDE DEF f
<1>4. \A n \in Followed : seen[n] \in Blocker
  BY DetectionTypes DEF Blockers, Blocker
<1>5. ASSUME NEW n \in Followed
      PROVE  /\ rt'[n] \in Runtimes /\ rt'[n].day = DayNumber(first)
             /\ sets = 0 \/ rows[n].day # DayNumber(first) =>
                  rt'[n].delay <= GameTime(first) /\ rt'[n].delay <= real
             /\ Waits(rt'[n], met'[n], seenAt'[n], real)
  <2>1. rt'[n] = Judged(Delayed(Restored(n), first), seen[n], seen[n], real)
    BY <1>2, <1>3
  <2>2. /\ seenAt'[n] = IF seen[n] # Nobody THEN real ELSE NoTime
        /\ met'[n] = seenAt'[n]
    BY <1>1, <1>2
  <2> QED
    BY <1>1, <1>3, <1>4, <2>1, <2>2, RestoredRuntime
<1>6. /\ rt' \in [Followed -> Runtimes]
      /\ met' \in [Followed -> Times] /\ seenAt' \in [Followed -> Times]
  <2>1. real \in Times /\ NoTime \in Times
    BY DEF NpcIInv, NpcTypeOK, Times
  <2>2. rt' \in [Followed -> Runtimes]
    BY <1>2, <1>5
  <2> QED
    BY <1>1, <1>2, <2>1, <2>2
<1>7. sim' = Idle /\ admin' = Idle
  BY <1>1 DEF NpcIInv, DownIsIdle
<1>8. skewed' \in BOOLEAN
  BY <1>1
<1>9. NpcTypeOK'
  BY <1>1, <1>3, <1>6, <1>8 DEF NpcIInv, NpcTypeOK
<1>10. DownIsIdle' /\ SnapshotsArePast'
  BY <1>1, <1>3, <1>7 DEF NpcIInv, NpcTypeOK, DownIsIdle, SnapshotsArePast, Idle
<1>11. OneDay'
  BY <1>1, <1>3, <1>5 DEF OneDay, DayNumber
<1>16. skewed' <=> (sets > 0 /\ \E n \in Followed : rows[n].day = DayNumber(first))
  BY <1>1, <1>3
<1>12. ASSUME ~skewed', NEW n \in Followed
       PROVE  rt'[n].delay <= GameTime(first) /\ rt'[n].delay <= real
  <2>1. ~(sets > 0) \/ rows[n].day # DayNumber(first)
    BY <1>12, <1>16, Zenon
  <2>2. sets > 0 \/ sets = 0
    BY DEF NpcIInv, NpcTypeOK
  <2> QED
    BY <1>5, <2>1, <2>2
<1>13. DelaysFollowClock'
  <2>1. GameTime(first)' = GameTime(first)
    BY DEF GameTime
  <2>2. 0 <= real /\ real - 0 = real
    BY DEF NpcIInv, NpcTypeOK
  <2> QED
    BY <1>1, <1>3, <1>12, <2>1, <2>2 DEF DelaysFollowClock
<1>14. NeverSet'
  <2>0. sets = 0 => ~(sets > 0)
    OBVIOUS
  <2>1. sets = 0 => ~skewed'
    BY <1>16, <2>0, Zenon
  <2> QED
    BY <1>1, <1>7, <2>1 DEF NpcIInv, NeverSet, Idle
<1>15. EncountersAreTimed'
  BY <1>1, <1>3, <1>5 DEF EncountersAreTimed
<1> QED
  BY <1>9, <1>10, <1>11, <1>13, <1>14, <1>15 DEF NpcIInv

LEMMA PassIInv ==
  ASSUME NpcIInv, Pass
  PROVE  NpcIInv'
<1>1. /\ real' = real + 1
      /\ UNCHANGED <<epoch, up, engine, sim, admin, rows, setAt, sets, stops>>
  BY DEF Pass
<1>2. NpcTypeOK' /\ DownIsIdle'
  BY <1>1 DEF NpcIInv, NpcTypeOK, DownIsIdle, engine
<1>3. SnapshotsArePast'
  BY <1>1 DEF NpcIInv, NpcTypeOK, SnapshotsArePast, engine, Snapshots, NoTick, NoTime
<1>4. OneDay' /\ DelaysFollowClock' /\ EncountersAreTimed'
  BY <1>1 DEF NpcIInv, OneDay, DelaysFollowClock, EncountersAreTimed, engine,
              DayNumber, GameTime
<1>5. NeverSet'
  <2>1. ASSUME sets = 0, NEW n \in Followed
        PROVE  /\ rows'[n].delay <= real'
               /\ rows'[n].delay <= real' - rows'[n].day * DayLength
    <3>1. /\ rows[n].delay <= real
          /\ rows[n].delay <= real - rows[n].day * DayLength
      BY <2>1 DEF NpcIInv, NeverSet
    <3>2. /\ rows[n].delay \in Nat /\ rows[n].day \in Int /\ real \in Nat
          /\ DayLength \in Nat
      BY DelaysAssumption DEF NpcIInv, NpcTypeOK
    <3>3. PICK p \in Int : p = rows[n].day * DayLength
      BY <3>2
    <3>4. rows[n].delay <= real + 1 /\ rows[n].delay <= real + 1 - p
      BY <3>1, <3>2, <3>3
    <3>5. rows'[n].delay = rows[n].delay /\ rows'[n].day * DayLength = p
      BY <1>1, <3>3
    <3>6. real' = real + 1
      BY <1>1
    <3>7. rows'[n].delay <= real' /\ rows'[n].delay <= real' - p
      BY <3>2, <3>4, <3>5, <3>6
    <3> QED
      BY <3>5, <3>7
  <2>2. sets' = 0 => \A n \in Followed :
          /\ rows'[n].delay <= real'
          /\ rows'[n].delay <= real' - rows'[n].day * DayLength
    BY <1>1, <2>1
  <2>3. sets' = 0 => /\ epoch' = 0 /\ setAt' = 0 /\ ~skewed' /\ admin'.pc = "idle"
                     /\ sim'.pc = "tick" => /\ sim'.snapshot.epoch = 0
                                            /\ lastTick'.real <= sim'.snapshot.real
    BY <1>1 DEF NpcIInv, NeverSet, engine
  <2> QED
    BY <2>2, <2>3 DEF NeverSet
<1> QED
  BY <1>2, <1>3, <1>4, <1>5 DEF NpcIInv

-----------------------------------------------------------------------------
(* The theorems *)

LEMMA StutterIInv ==
  ASSUME NpcIInv, UNCHANGED npcVars
  PROVE  NpcIInv'
<1>1. NpcTypeOK'
  BY DEF npcVars, engine, NpcIInv, NpcTypeOK
<1>2. DownIsIdle' /\ SnapshotsArePast' /\ OneDay' /\ DelaysFollowClock'
      /\ NeverSet' /\ EncountersAreTimed'
  BY DEF npcVars, engine, NpcIInv, DownIsIdle, SnapshotsArePast, OneDay,
         DelaysFollowClock, NeverSet, EncountersAreTimed, DayNumber, GameTime
<1> QED
  BY <1>1, <1>2 DEF NpcIInv

LEMMA StepIInv == NpcIInv /\ [NpcNext]_npcVars => NpcIInv'
<1> SUFFICES ASSUME NpcIInv, [NpcNext]_npcVars PROVE NpcIInv'
  OBVIOUS
<1>1. ASSUME NEW second \in Settings, SetGameSecond(second) PROVE NpcIInv'
  BY <1>1, SetGameSecondIInv
<1>2. CASE UNCHANGED npcVars
  BY <1>2, StutterIInv
<1> QED
  BY <1>1, <1>2, SimulationSnapshotIInv, SimulationTickIInv,
     ResetScheduleStateIInv, ResetSnapshotIInv, ResetTickIInv,
     SaveNPCCheckpointsIInv, StopIInv, StartIInv, PassIInv
  DEF NpcNext

\* What ticks out of order may have counted again bounds what they have.
CountedInv == recounted \in [Followed -> Nat] /\ DelaysAreCounted

LEMMA BackwardIs ==
  ASSUME NpcTypeOK, NEW s \in Snapshots, SameDay(s)
  PROVE  /\ Backward(s) \in Nat /\ GameTime(s) \in Nat /\ GameTime(lastTick) \in Nat
         /\ GameTime(lastTick) + GameDelta(s) = GameTime(s) + Backward(s)
<1>1. lastTick \in Snapshots
  BY DEF SameDay, NpcTypeOK
<1>2. GameTime(s) \in Nat /\ GameTime(lastTick) \in Nat
  BY <1>1, DayAndTime
<1>3. /\ GameDelta(s) = Max({GameTime(s) - GameTime(lastTick), 0})
      /\ Backward(s) = Max({GameTime(lastTick) - GameTime(s), 0})
  BY DEF GameDelta, Backward
<1> QED
  BY <1>2, <1>3, MaxOfTwo

LEMMA TickIsCounted ==
  ASSUME NpcIInv, CountedInv, NEW s \in Snapshots, Tick(s)
  PROVE  CountedInv'
<1>0. NpcTypeOK
  BY DEF NpcIInv
<1>1. recounted' = [n \in Followed |->
        IF SameDay(s) THEN recounted[n] + Backward(s) ELSE 0]
  BY DEF Tick
<1>2. lastTick' = s
  BY TickFields
<1>3. recounted' \in [Followed -> Nat]
  <2>1. CASE SameDay(s)
    <3>1. Backward(s) \in Nat
      BY <1>0, <2>1, BackwardIs
    <3>2. \A n \in Followed : recounted[n] + Backward(s) \in Nat
      BY <3>1 DEF CountedInv
    <3> QED
      BY <1>1, <2>1, <3>2
  <2>2. CASE ~SameDay(s)
    BY <1>1, <2>2
  <2> QED
    BY <2>1, <2>2
<1>4. ASSUME NEW n \in Followed
      PROVE  rt'[n].delay <= GameTime(s) + recounted'[n]
  <2>0. /\ GameTime(s) \in Nat /\ recounted'[n] \in Nat /\ recounted[n] \in Nat
        /\ rt[n].delay \in Nat /\ rt'[n].delay \in Nat /\ GameDelta(s) \in Nat
    BY <1>0, <1>3, DayAndTime, DeltaTypes, TickRuntimes
    DEF CountedInv, NpcTypeOK, Runtimes
  <2>1. CASE rt'[n].delay = 0
    BY <2>0, <2>1
  <2>2. CASE rt[n].day = DayNumber(s) /\ rt'[n].delay <= rt[n].delay + GameDelta(s)
    <3>1. CASE lastTick = NoTick
      <4>1. rt[n].delay = 0 /\ GameDelta(s) = 0
        BY <1>0, <3>1, DeltaTypes DEF NpcIInv, OneDay, Fresh, SameDay
      <4> QED
        BY <2>0, <2>2, <4>1
    <3>2. CASE lastTick # NoTick
      <4>1. SameDay(s)
        BY <2>2, <3>2 DEF NpcIInv, OneDay, SameDay
      <4>2. recounted'[n] = recounted[n] + Backward(s)
        BY <1>1, <4>1
      <4>3. rt[n].delay <= GameTime(lastTick) + recounted[n]
        BY <3>2 DEF CountedInv, DelaysAreCounted
      <4>4. /\ Backward(s) \in Nat /\ GameTime(lastTick) \in Nat
            /\ GameTime(lastTick) + GameDelta(s) = GameTime(s) + Backward(s)
        BY <1>0, <4>1, BackwardIs
      <4> QED
        BY <2>0, <2>2, <4>2, <4>3, <4>4
    <3> QED
      BY <3>1, <3>2
  <2> QED
    BY <2>1, <2>2, TickRuntimes
<1> QED
  BY <1>2, <1>3, <1>4 DEF CountedInv, DelaysAreCounted, GameTime

\* A restored delay that exceeds the game time of the first tick is counted.
LEMMA StartIsCounted ==
  ASSUME NpcIInv, Start
  PROVE  CountedInv'
<1> DEFINE f == [real |-> real, epoch |-> 0]
<1>1. /\ ~up /\ lastTick' = f
      /\ recounted' = [n \in Followed |->
           IF rows[n].day = DayNumber(f) THEN Max({rows[n].delay - GameTime(f), 0})
           ELSE 0]
  BY DEF Start
<1>2. PICK seen \in NpcDetections :
        rt' = [n \in Followed |->
                 Judged(Delayed(Restored(n), f), seen[n], seen[n], real)]
  BY DEF Start
<1>3. f \in Snapshots /\ f.real = real /\ f.epoch = 0
  BY DEF NpcIInv, NpcTypeOK, Snapshots
<1> HIDE DEF f
<1>4. \A n \in Followed : seen[n] \in Blocker
  BY DetectionTypes DEF Blockers, Blocker
<1>5. ASSUME NEW n \in Followed
      PROVE  recounted'[n] \in Nat /\ rt'[n].delay <= GameTime(f) + recounted'[n]
  <2>0. rows[n].delay \in Nat /\ GameTime(f) \in Nat
    BY <1>3, DayAndTime DEF NpcIInv, NpcTypeOK
  <2>1. rt'[n] = Judged(Delayed(Restored(n), f), seen[n], seen[n], real)
    BY <1>2
  <2>2. /\ rt'[n].delay = 0 \/ (rows[n].day = DayNumber(f) /\ rt'[n].delay <= rows[n].delay)
        /\ rt'[n].delay \in Nat
    BY <1>1, <1>3, <1>4, <2>1, RestoredRuntime DEF Runtimes
  <2>3. CASE rows[n].day = DayNumber(f)
    <3>1. recounted'[n] = Max({rows[n].delay - GameTime(f), 0})
      BY <1>1, <2>3
    <3> QED
      BY <2>0, <2>2, <3>1, MaxOfTwo
  <2>4. CASE rows[n].day # DayNumber(f)
    BY <1>1, <2>0, <2>2, <2>4
  <2> QED
    BY <2>3, <2>4
<1>6. recounted' \in [Followed -> Nat]
  BY <1>1, <1>5
<1> QED
  BY <1>1, <1>5, <1>6 DEF CountedInv, DelaysAreCounted, GameTime

LEMMA StepIsCounted == NpcIInv /\ CountedInv /\ [NpcNext]_npcVars => CountedInv'
<1> SUFFICES ASSUME NpcIInv, CountedInv, [NpcNext]_npcVars PROVE CountedInv'
  OBVIOUS
<1>1. ASSUME UNCHANGED engine PROVE CountedInv'
  BY <1>1 DEF engine, CountedInv, DelaysAreCounted, GameTime
<1>2. ASSUME lastTick' = NoTick, recounted' = [n \in Followed |-> 0] PROVE CountedInv'
  BY <1>2 DEF CountedInv, DelaysAreCounted
<1>3. CASE SimulationTick
  <2>1. Tick(sim.snapshot) /\ sim.pc = "tick"
    BY <1>3 DEF SimulationTick
  <2> QED
    BY <2>1, TickIsCounted DEF NpcIInv, SnapshotsArePast
<1>4. CASE ResetTick
  <2>1. Tick(admin.snapshot) /\ admin.pc = "tick"
    BY <1>4 DEF ResetTick
  <2> QED
    BY <2>1, TickIsCounted DEF NpcIInv, SnapshotsArePast
<1>5. CASE ResetScheduleState \/ Stop
  BY <1>2, <1>5 DEF ResetScheduleState, Stop
<1>6. CASE Start
  BY <1>6, StartIsCounted
<1>7. CASE \/ SimulationSnapshot \/ \E second \in Settings : SetGameSecond(second)
           \/ ResetSnapshot \/ SaveNPCCheckpoints \/ Pass \/ UNCHANGED npcVars
  BY <1>1, <1>7 DEF SimulationSnapshot, SetGameSecond, ResetSnapshot,
                    SaveNPCCheckpoints, Pass, npcVars
<1> QED
  BY <1>3, <1>4, <1>5, <1>6, <1>7 DEF NpcNext

LEMMA DelayIsLivedFollows == NpcIInv /\ CountedInv => DelayIsLived
<1> SUFFICES ASSUME NpcIInv, up, ~skewed, admin.pc = "idle",
                    NEW n \in Followed, lastTick # NoTick
             PROVE  rt[n].delay <= Lived
  BY DEF CountedInv, DelayIsLived, DelaysLived
<1>1. lastTick \in Snapshots /\ setAt \in Nat /\ lastTick.real \in Nat
  BY DEF NpcIInv, NpcTypeOK, Snapshots
<1>2. rt[n].delay <= GameTime(lastTick) /\ rt[n].delay <= lastTick.real - setAt
  BY DEF NpcIInv, DelaysFollowClock
<1>3. GameTime(lastTick) \in Int /\ lastTick.real - setAt \in Int
  BY <1>1, DayAndTime
<1> QED
  BY <1>2, <1>3, MinOfTwo DEF Lived

LEMMA NoLongWaitFollows == NpcIInv => NoLongWait
<1> SUFFICES ASSUME NpcIInv, NEW n \in Followed, Held(n), ~skewed
             PROVE  \/ lastTick.real - met[n] < Patience(rt[n].by)
                    \/ /\ rt[n].by = Player /\ seenAt[n] < lastTick.real
                       /\ lastTick.real - rt[n].clear < ClearHysteresis
  BY DEF NoLongWait
<1>1. Waits(rt[n], met[n], seenAt[n], lastTick.real)
  BY DEF NpcIInv, EncountersAreTimed
<1>2. /\ rt[n].since \in Int /\ met[n] \in Int /\ lastTick.real \in Int
      /\ Patience(rt[n].by) \in Nat
  BY PatienceType DEF NpcIInv, NpcTypeOK, Runtimes, Times, Snapshots, NoTick, NoTime
<1>3. CASE met[n] # NoTime /\ lastTick.real - rt[n].since < Patience(rt[n].by)
  BY <1>1, <1>2, <1>3 DEF Waits
<1>4. CASE ~(met[n] # NoTime /\ lastTick.real - rt[n].since < Patience(rt[n].by))
  BY <1>1, <1>4 DEF Waits, Held
<1> QED
  BY <1>3, <1>4

\* The invariant of the engine, the clock and the rows, for any number of
\* characters, any length of the day and any delays in their order.
THEOREM NpcInvariance == NpcSpec => []NpcIInv
BY NpcInitIInv, StepIInv, PTL DEF NpcSpec

\* However ticks, settings of the clock, checkpoints and restarts interleave, no
\* schedule is held back by more than the time its actor can have been held,
\* unless a tick ran on a clock that had been set meanwhile; and one that did,
\* or a row of a clock since discarded, adds at most the game time it went back.
THEOREM NoDelayIsInherited == NpcSpec => []DelayIsLived
<1>1. NpcInit => CountedInv
  BY DEF NpcInit, CountedInv, DelaysAreCounted
<1>2. NpcSpec => []CountedInv
  BY <1>1, StepIsCounted, NpcInvariance, PTL DEF NpcSpec
<1> QED
  BY <1>2, NpcInvariance, DelayIsLivedFollows, PTL

\* While the ticks follow the clock, nobody is kept standing beyond its patience,
\* counted from the beginning of the encounter, however often the way is clear for
\* a moment; one whom a player holds that has left, only until clearHysteresis.
THEOREM PatienceRunsOut == NpcSpec => []NoLongWait
BY NpcInvariance, NoLongWaitFollows, PTL

=============================================================================
