------------------------------- MODULE Rooms --------------------------------
(***************************************************************************)
(* Rooms and what their members are told of each other (HandlePresence,    *)
(* leaveWorld and Unregister of internal/realtime/hub.go).                 *)
(*                                                                         *)
(* A handler changes the room under Hub.mu and takes the list of those who *)
(* are to hear of it; it sends player.left, snapshot and player.state      *)
(* after it has released the lock, to one connection after the other.  So  *)
(* the messages of two handlers may reach a queue in the other order than  *)
(* the changes happened.  The reader of a connection runs its handlers one *)
(* at a time, but Unregister runs in a goroutine of its own.               *)
(*                                                                         *)
(* A visit is a player's stay in a room, <<player, number>>.               *)
(***************************************************************************)
EXTENDS Naturals, Sequences, SequencesExt, FiniteSets

CONSTANTS
  Clients,     \* connections; each registers at most once
  Worlds,
  NoWorld,
  MaxReports   \* bound of the presence reports of a connection

ASSUME RoomsConstants ==
  /\ NoWorld \notin Worlds
  /\ MaxReports \in Nat

VARIABLES
  conn,      \* "new", "in" (in Hub.clients) or "gone"
  world,     \* the room of each connection: presences and rooms
  sends,     \* what each goroutine has still to send, in order
  full,      \* connections that are to be unregistered, for a full queue
  reports,   \* how many reports of each connection were taken
  visits,    \* ghost: the worlds of the visits of each player
  told,      \* ghost: visits a connection was told of during its own visit
  parted,    \* ghost: visits it was told the end of
  shown,     \* ghost: visits that its messages, read in order, leave it with
  crossed,   \* ghost: players that what a connection is shown may be wrong
             \* about, for its snapshot and a message of theirs overlapped
  cut        \* ghost: pairs <<d, p>>, p unregistered with a state for d unsent

ghosts == <<visits, told, parted, shown, crossed, cut>>
roomsVars == <<conn, world, sends, full, reports, ghosts>>

-----------------------------------------------------------------------------
(* State *)

Reader(c) == <<c, "reader">>
Leaver(c) == <<c, "unregister">>
Threads == Clients \X {"reader", "unregister"}

Room(w) == {c \in Clients : w # NoWorld /\ world[c] = w}

Visit(c) == <<c, Len(visits[c])>>
WorldOf(v) == visits[v[1]][v[2]]
Of(c, vs) == {v \in vs : v[1] = c}

\* One call of sendOne or sendMany.
Call(kind, about, to) == [kind |-> kind, about |-> about, to |-> to]

\* No handler of the connection is running.
Free(c) == sends[Reader(c)] = <<>>

RoomsInit ==
  /\ conn = [c \in Clients |-> "new"]
  /\ world = [c \in Clients |-> NoWorld]
  /\ sends = [t \in Threads |-> <<>>]
  /\ full = {}
  /\ reports = [c \in Clients |-> 0]
  /\ visits = [c \in Clients |-> <<>>]
  /\ told = [c \in Clients |-> {}]
  /\ parted = [c \in Clients |-> {}]
  /\ shown = [c \in Clients |-> {}]
  /\ crossed = [c \in Clients |-> {}]
  /\ cut = {}

\* What the goroutine t has still to send to d.
ToSend(t, d) ==
  {[kind |-> m.kind, about |-> m.about] : m \in {n \in ToSet(sends[t]) : d \in n.to}}

\* A change of room of c is heard of in both rooms, and either comes after the
\* snapshot of d, or overtakes it; a report in the same room, with from = to, does not
\* contradict the snapshot, but may not correct it either.
Overlap(c, from, to) ==
  [d \in Clients |->
     IF d = c \/ world[d] \notin {from, to} THEN crossed[d]
     ELSE IF ToSend(Reader(d), d) = {} THEN crossed[d] \ {c}
     ELSE IF from # to THEN crossed[d] \cup {c}
     ELSE crossed[d]]

\* Players that are in w, and have still to tell c that they left another room.
LateLeavers(c, w) ==
  {p \in Room(w) \ {c} : \E m \in ToSend(Reader(p), c) : m.kind = "left"}

\* A new visit begins, and what was told before is of no account.
Forget(c) ==
  /\ told' = [told EXCEPT ![c] = {}]
  /\ parted' = [parted EXCEPT ![c] = {}]
  /\ shown' = [shown EXCEPT ![c] = {}]

-----------------------------------------------------------------------------
(* Handlers *)

Register(c) ==
  /\ conn[c] = "new"
  /\ conn' = [conn EXCEPT ![c] = "in"]
  /\ UNCHANGED <<world, sends, full, reports, ghosts>>

\* removeFromRoomLocked and the PlayerLeft to those who are left in the room.
NewRoomMutant(c, w) == Call("left", {Visit(c)}, Room(w) \ {c})
Left(c, w) == Call("left", {Visit(c)}, Room(world[c]) \ {c})

\* What is sent to a player who enters, and what to the others.
EmptySnapshotMutant(c, w) == Call("snapshot", {}, {c})
Snapshot(c, w) == Call("snapshot", {Visit(d) : d \in Room(w) \ {c}}, {c})
State(c, v, w) == Call("state", {v}, Room(w) \ {c})

\* A report in the room the player is in,
Report(c) ==
  /\ sends' = [sends EXCEPT ![Reader(c)] = <<State(c, Visit(c), world[c])>>]
  /\ crossed' = Overlap(c, world[c], world[c])
  /\ UNCHANGED <<world, visits, told, parted, shown>>

\* or the first one, or one in another room.
Enter(c, w) ==
  /\ world' = [world EXCEPT ![c] = w]
  /\ visits' = [visits EXCEPT ![c] = Append(@, w)]
  /\ sends' = [sends EXCEPT ![Reader(c)] =
       (IF world[c] = NoWorld THEN <<>> ELSE <<Left(c, w)>>)
         \o <<Snapshot(c, w), State(c, <<c, Len(visits[c]) + 1>>, w)>>]
  /\ crossed' = [Overlap(c, world[c], w) EXCEPT ![c] = LateLeavers(c, w)]
  /\ Forget(c)

\* Which worlds may be entered is Travel's; a report that is refused, or is not
\* newer than the last one, changes nothing.
HandlePresence(c, w) ==
  /\ conn[c] = "in" /\ Free(c)
  /\ reports[c] < MaxReports
  /\ reports' = [reports EXCEPT ![c] = @ + 1]
  /\ IF world[c] = w THEN Report(c) ELSE Enter(c, w)
  /\ UNCHANGED <<conn, full, cut>>

\* leaveWorld, for the message leave and for a transition.
GoroutineMutant(c) == Leaver(c)
LeavesBy(c) == Reader(c)

LeaveWorld(c) ==
  /\ Free(c)
  /\ world[c] # NoWorld
  /\ world' = [world EXCEPT ![c] = NoWorld]
  /\ sends' = [sends EXCEPT ![LeavesBy(c)] = Append(@, Left(c, NoWorld))]
  /\ crossed' = [Overlap(c, world[c], NoWorld) EXCEPT ![c] = {}]
  /\ Forget(c)
  /\ UNCHANGED <<conn, full, reports, visits, cut>>

\* Those to whom a handler has still to send a state of c.
Untold(c) == {d \in Clients : \E m \in ToSend(Reader(c), d) : m.kind = "state"}

\* At any time: a pump has ended, or a queue was full.
Unregister(c) ==
  /\ conn[c] = "in"
  /\ conn' = [conn EXCEPT ![c] = "gone"]
  /\ full' = full \ {c}
  /\ world' = [world EXCEPT ![c] = NoWorld]
  /\ cut' = cut \cup {<<d, c>> : d \in Untold(c)}
  /\ IF world[c] = NoWorld
     THEN UNCHANGED <<sends, crossed>>
     ELSE /\ sends' = [sends EXCEPT ![Leaver(c)] = <<Left(c, NoWorld)>>]
          /\ crossed' = [Overlap(c, world[c], NoWorld) EXCEPT ![c] = {}]
  /\ Forget(c)
  /\ UNCHANGED <<reports, visits>>

-----------------------------------------------------------------------------
(* Fan-out *)

\* What a client knows after a message: a player.left names the player only.
After(m, known) ==
  CASE m.kind = "snapshot" -> m.about
    [] m.kind = "state"    -> {v \in known : Of(v[1], m.about) = {}} \cup m.about
    [] m.kind = "left"     -> {v \in known : Of(v[1], m.about) = {}}

Receive(d, m) ==
  /\ shown' = [shown EXCEPT ![d] = After(m, @)]
  /\ IF m.kind = "left"
     THEN parted' = [parted EXCEPT ![d] = @ \cup m.about] /\ UNCHANGED told
     ELSE told' = [told EXCEPT ![d] = @ \cup m.about] /\ UNCHANGED parted

Rest(t, d) ==
  LET m == Head(sends[t])
      to == m.to \ {d}
  IN IF to = {} THEN Tail(sends[t])
     ELSE <<[m EXCEPT !.to = to]>> \o Tail(sends[t])

\* trySend: into the queue, or not, and the connection is to be unregistered.
\* Between rooms nothing of this matters to a player.
Deliver(t, d) ==
  /\ sends[t] # <<>>
  /\ d \in Head(sends[t]).to
  /\ sends' = [sends EXCEPT ![t] = Rest(t, d)]
  /\ IF conn[d] = "gone" \/ d \in full \/ world[d] = NoWorld
     THEN UNCHANGED <<full, told, parted, shown>>
     ELSE \/ Receive(d, Head(sends[t])) /\ UNCHANGED full
          \/ full' = full \cup {d} /\ Forget(d)
  /\ UNCHANGED <<conn, world, reports, visits, crossed, cut>>

\* A room nobody else is in.
DeliverNone(t) ==
  /\ sends[t] # <<>>
  /\ Head(sends[t]).to = {}
  /\ sends' = [sends EXCEPT ![t] = Tail(@)]
  /\ UNCHANGED <<conn, world, full, reports, ghosts>>

RoomsNext ==
  \/ \E c \in Clients :
       \/ Register(c)
       \/ \E w \in Worlds : HandlePresence(c, w)
       \/ LeaveWorld(c)
       \/ Unregister(c)
  \/ \E t \in Threads :
       DeliverNone(t) \/ \E d \in Clients : Deliver(t, d)

RoomsSpec == RoomsInit /\ [][RoomsNext]_roomsVars

-----------------------------------------------------------------------------
(* Properties *)

Quiet(c) == Free(c) /\ sends[Leaver(c)] = <<>>
Watching(d) == world[d] # NoWorld /\ d \notin full /\ Quiet(d)

\* When their handlers are over, a player has been told of each visit of the
\* others to its room that has lasted into its own, and of the end of each that
\* it was told of, however entering, leaving and disconnecting overlapped:
\* between the snapshot and the list of recipients nobody is forgotten.
RoommatesAreTold ==
  \A d, p \in Clients : d # p /\ Watching(d) /\ Quiet(p) =>
    /\ world[p] = world[d] => Visit(p) \in told[d]
    /\ \A v \in Of(p, told[d]) :
         WorldOf(v) = world[d] /\ (v # Visit(p) \/ world[p] # world[d]) /\ <<d, p>> \notin cut
           => v \in parted[d]

\* No message about p has reached d in another order than the changes happened.
InOrder(d, p) == p \notin crossed[d] /\ <<d, p>> \notin cut

\* And what it is shown is who is there, unless a message of the other player and
\* its snapshot crossed on the way (one of a change of room that overtook the
\* snapshot, or an earlier departure that came after it), or Unregister overtook
\* a player.state.  Then one who has left is shown until the next snapshot, and
\* one who is there is missing until its next report; handlers that overlap
\* otherwise do no harm, and nothing else goes wrong for longer.
RoomIsShown ==
  \A d, p \in Clients :
    d # p /\ Watching(d) /\ Quiet(p) /\ InOrder(d, p) =>
      (world[p] = world[d] <=> \E v \in Of(p, shown[d]) : WorldOf(v) = world[d])

-----------------------------------------------------------------------------
(* The inductive invariant *)

Visits == Clients \X Nat
Calls == [kind : {"snapshot", "state", "left"}, about : SUBSET Visits,
          to : SUBSET Clients]

RoomsTypeOK ==
  /\ conn \in [Clients -> {"new", "in", "gone"}]
  /\ world \in [Clients -> Worlds \cup {NoWorld}]
  /\ sends \in [Threads -> Seq(Calls)]
  /\ full \subseteq Clients
  /\ reports \in [Clients -> Nat]
  /\ visits \in [Clients -> Seq(Worlds)]
  /\ told \in [Clients -> SUBSET Visits]
  /\ parted \in [Clients -> SUBSET Visits]
  /\ shown \in [Clients -> SUBSET Visits]
  /\ crossed \in [Clients -> SUBSET Clients]
  /\ cut \subseteq Clients \X Clients

Begun(v) == v[2] \in DOMAIN visits[v[1]]

\* A player in a room is on its last visit, and only one that is registered is in
\* a room; unregister sends for one that is gone.
PlayersAreOnVisits ==
  \A c \in Clients :
    /\ world[c] # NoWorld =>
         conn[c] = "in" /\ Begun(Visit(c)) /\ WorldOf(Visit(c)) = world[c]
    /\ sends[Leaver(c)] # <<>> => conn[c] = "gone"

PlayerSends(p, d) == ToSend(Reader(p), d) \cup ToSend(Leaver(p), d)

OnlyBegun(d) ==
  /\ \A v \in told[d] \cup shown[d] : Begun(v)
  /\ \A t \in Threads : \A m \in ToSend(t, d) : \A v \in m.about : Begun(v)

\* Of a player the others get states and ends, and it gets the snapshots.  A state
\* is of the visit it is on, as no handler begins before the last one has sent.
CallsAreOwn(p, d) ==
  /\ \A m \in ToSend(Reader(p), d) :
       /\ m.kind = "snapshot" => d = p
       /\ m.kind = "left" => d # p /\ m.about # {} /\ \A v \in m.about : v[1] = p
       /\ m.kind = "state" => /\ d # p /\ m.about = {Visit(p)}
                              /\ <<d, p>> \in cut \/ world[p] # NoWorld
  /\ \A m \in ToSend(Leaver(p), d) :
       m.kind = "left" /\ d # p /\ m.about # {} /\ \A v \in m.about : v[1] = p

Hears(d) == world[d] # NoWorld /\ d \notin full

\* d has been told of v, a visit of p, or will be.
Announced(d, p, v) ==
  \/ v \in told[d]
  \/ \E m \in ToSend(Reader(d), d) : m.kind = "snapshot" /\ v \in m.about
  \/ \E m \in ToSend(Reader(p), d) : m.kind = "state" /\ v \in m.about

EndIsSent(d, p, v) ==
  \/ v \in parted[d]
  \/ \E m \in PlayerSends(p, d) : m.kind = "left" /\ v \in m.about

VisitsAreAnnounced(d, p) ==
  world[p] = world[d] => Announced(d, p, Visit(p))

EndsAreSent(d, p) ==
  <<d, p>> \notin cut =>
    \A n \in DOMAIN visits[p] :
      (/\ Announced(d, p, <<p, n>>) /\ visits[p][n] = world[d]
       /\ n # Len(visits[p]) \/ world[p] # world[d])
      => EndIsSent(d, p, <<p, n>>)

\* What is shown agrees with where p is: the snapshot that is still to come does,
\* every player.left that is still to come, and else what is shown already.
Agrees(d, p, vs) ==
  world[p] = world[d] <=> \E v \in Of(p, vs) : WorldOf(v) = world[d]

ShownInTheEnd(d, p) ==
  InOrder(d, p) =>
    /\ \A m \in ToSend(Reader(d), d) : m.kind = "snapshot" => Agrees(d, p, m.about)
    /\ \A m \in PlayerSends(p, d) : m.kind = "left" => world[p] # world[d]
    /\ \/ \E m \in ToSend(Reader(d), d) : m.kind = "snapshot"
       \/ PlayerSends(p, d) # {}
       \/ Agrees(d, p, shown[d])

RoomsIInv ==
  /\ RoomsTypeOK /\ PlayersAreOnVisits
  /\ \A d \in Clients : OnlyBegun(d) /\ \A p \in Clients : CallsAreOwn(p, d)
  /\ \A d, p \in Clients : d # p /\ Hears(d) =>
       VisitsAreAnnounced(d, p) /\ EndsAreSent(d, p) /\ ShownInTheEnd(d, p)

=============================================================================
