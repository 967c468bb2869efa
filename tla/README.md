# A verification development of new-yokosuka-server

new-yokosuka-server is the authoritative Go server of a multiplayer browser
game: WebSocket connections, rooms, shared vehicles and cargo, doors with opening
hours, chat, vending machines, scripted events, scheduled NPCs, and a PostgreSQL
database behind them.  These TLA+ modules model the parts where the order of
things matters, TLC checks them on small instances, and TLAPS proves their safety
properties for instances of any size.

Contents: [parts of the system](#parts-of-the-system),
[modules](#modules), [runs](#runs), [theorems](#theorems),
[findings](#where-code-and-documents-disagree), [what is not
covered](#what-is-not-covered), [plan](#plan).

## Parts of the system

`internal/realtime.Hub` is the centre.  One mutex, `Hub.mu`, guards its maps.
Every connection has two goroutines: `readPump`, which handles the messages of the
connection one at a time, and `writePump`, which empties its send queue.  Handlers
change the maps under `Hub.mu`, release it, and only then send messages, arm timers,
mark locations, flush to PostgreSQL or notify other connections.  That gap after the
unlock is where most of the difficult behaviour is.  `Unregister` may be called by
either pump and, as `go h.Unregister`, by any handler that finds a send queue full.

| Component | State | Operations | What makes it correct |
| --- | --- | --- | --- |
| Hub sessions (`hub.go`, `client.go`, `websocket.go`) | `clients`, `activeCharacters`, `names`; per connection `done`, `replace`, `closeOnce` | `Register`, `notifySessionReplaced`, pumps, `Unregister`, `close` | a character's entries belong to its latest connection; a replaced one is told and leaves; capacity |
| Presence and rooms (`hub.go`) | `presences`, `rooms` | `HandlePresence`, `leaveWorld`, `removeFromRoomLocked` | everyone in a room is told of everyone else in it, and of their going |
| Forklifts (`forklift.go`) | `forklifts`, `forkliftOwners`, timers | presence reports, `forklift.update`, `forklift.spawn`, leaving, disconnecting, expiry, respawn | one driver per forklift; shown owners are real; nothing removed early or never |
| Cargo (`cargo.go`) | six maps per crate, timers | claim, update, release, righting, replenishment, cleanup | claims end; one replacement per crate taken away; righting only when untouched |
| Timed travel (`transitions.go`, `travelaccess`) | `transitionGrants`, `authorizedArrivals`, `departedWorlds` | request, commit, presence, leave, disconnect | nobody enters a timed interior without an authorization given at an open door |
| Location persistence (`persistence.go`, `client.go`) | `dirtyLocation`, `locationVersion`, `pendingLocations` | mark, flush by ticker, room change, disconnect, list request, shutdown | the newest place is saved; saves in order; list reads are fresh |
| Script events (`script_events.go`, `scriptevent`, `store/script_events.go`) | runs, leases, the engine's active sessions | start, advance, cancel, fail, finish | one run per character; effects once |
| Script repository (`store/scripts.go`, `script_rollbacks.go`, `official_scripts.go`) | scripts, versions, trigger indexes | draft, copy, submit, publish, roll back, import, archive | what is served compiles and was reviewed; indexes match sources; no edit is lost |
| Economy, vending (`store/economy.go`, `progression.go`, `vending.go`) | yen, items, experience, health, event tables, purchases | purchase, grant, spend, consume, heal, award | a request is charged once; the events account for every balance; limits |
| Dialogue state, arcade (`store/dialogue.go`, `arcade.go`) | snapshot and revision, scores per character | compare and swap, save | no lost update |
| NPCs (`internal/npc`, `npcs.go`) | delays, encounters, checkpoints | tick, avoidance, reset, checkpoint, restore | encounters end; a delay is time that was lived |
| Chat, Discord bridge (`chat.go`, `discordchat`) | saved messages, rate windows, bounded queue | send, relay, retry, close | nobody misses a message between history and queue; a sender's order is kept; nothing hangs |
| World clock (`worldstate`) | epoch, season, weather, revision | set, snapshot, boundary broadcast | the schedule of the NPCs and the doors follow it |
| Accounts, activity log, filters, data tables, tools | | | not modelled: see below |

## Modules

Every module's header says which code it models; `PROJECT.json` maps each
definition to source lines.  Operators whose name ends in `Mutant`, or begins with `Mut`, are wrong
variants of the definition after them.  No specification uses them; replacing the
definition by its variant makes the property it protects fail, which shows
that the property can.

* `Sessions`: connections and characters.  `entry[c]` is how far the call of
  `ServeHTTP` is; `leaving` holds the connections for which a call of `Unregister` is
  under way.  The critical section of `Unregister` and the `close` at its end are two
  actions, as are the maps' change and the notice in `Register`.
* `Forklifts`: one action per handler, because each does everything about
  forklifts under `Hub.mu`.  A timer is the pair of a forklift and the expiry it was
  armed for.  `EmptyID` is the key under which the code stores the zero value it reads
  for a forklift that is gone.  `VehicleClaims` is the abstract specification
  of exclusive driving.  Reports are not limited to the destinations `Travel` allows:
  the module allows more orders than the server does.
* `Travel`: the two transition handlers with their clock readings and
  up to three critical sections, and the destination check of presence reports.
  `permits` and `entries` are ghosts that count authorizations that did not run out
  and entries into each timed interior.
* `Locations`: the dirty location of a connection, and the five kinds of
  goroutine that save it.  `todo[x]` are the connections flusher `x` has collected and
  not yet handled, `flushing` the saves under way.  A location is the number of the
  report that brought it.
* `Cargo`: crates, the four kinds of timers, and the claims of drivers.  A timer is the
  tuple of what its closure holds; none is ever stopped, so stale ones stay in
  `timers` until they fire and do nothing.  `out` stands for `cargoOutsideSpawn`.  `holder`
  and `letGo` are ghosts for who touched a crate last and since when it is let go.
* `ScriptEvents`: the scripted events of one character, with overlapping connections
  of that character.  `work[t]` is where a goroutine's call of the engine is; a call is
  one action per transaction (`StartPublishedScriptEvent`, `Renew`, `PassTrigger`,
  `Complete`, `Cancelled`, `Fail`) or exchange with the Yarn process (`Launch`,
  `Stage`, `Yield`), and its context may end at any of them.  `rows` are the runs in
  PostgreSQL, `active` and `session` what the engine remembers.  The story is one
  progress value and the balance: `increment` can always be applied, `spend` only if there
  is enough.  What a script does is its own choice.
  `missed` is a ghost: connections that were still starting an event when `Unregister` looked for a run
  to cancel.
* `ScriptVersions`: the repository of scripts as transactions at READ COMMITTED.  The
  variables hold what is committed; `req[p]` is where a request's transaction is, what
  it has read, and what it has changed and therefore locked.  A statement that may wait
  for a row is an action; one that cannot is part of the action before it.  `reviewed`
  is a ghost for what moderators could look at.  `Abort` stands for deadlock victims,
  ended contexts and lost connections.  `ServeHTTP` and the definitions before it are the
  handlers of `httpapi/scripts.go`.
* `CharacterStore`: the transactions on one character.  A store method is the list of its
  SQL statements (`Program`), a statement is one step, and `WaitsFor` says which row locks of
  which other call it meets; `DeadlockVictim` is PostgreSQL's way out, `GiveUp` the end of a
  context or a connection, before or after the commit.
* `NpcSimulation`: the ticks of `npc.Engine`, from two goroutines, each of which reads the
  clock before it waits for the engine.  `rt[n]` is the delay and the encounter of an NPC; what
  blocks whom in a tick is an input.  `met`, `seenAt`, `setAt`, `skewed` and `recounted` are ghosts:
  since when an encounter lasts, whether a tick ran on a clock that had been set meanwhile, and how much
  game time an NPC may have been delayed by twice since the day began.
* `Chat`: messages of players and Discord from the rate window through `SaveChatMessage` and
  fan-out to the bridge's queue, its attempts and `Close`; newcomers read the history
  and are welcomed in between.  `Stamps` is the clock reading taken before the lock.
* `Rooms`: `HandlePresence`, `leaveWorld` and `Unregister` as to who is in which room, with
  what they still have to send after the unlock in `sends`.  A `Visit` is a stay in a room.  `told`,
  `parted` and `shown` are ghosts for what a client has received; `crossed` and `cut` say of whom a
  message and the client's own snapshot, or `Unregister` and a `player.state`, went out in another
  order than the changes were made.
* `ForkliftsProofs`, `TravelProofs`, `LocationsProofs`, `ScriptEventsProofs` and
  `CharacterStoreProofs`: theorems about the module of that name.  `SessionsNpcProofs` (`Sessions`
  and `NpcSimulation`), `CargoChatProofs` (`Cargo` and `Chat`) and `ScriptVersionsRoomsProofs`
  (`ScriptVersions` and `Rooms`) hold those of two components each, in two parts that do not use each
  other.  So that both can be extended, `NpcSimulation`, `Chat` and `Rooms` give the usual names a
  prefix: `NpcInit`, `ChatSpec`, `RoomsIInv`.
* `MC*`: constants for TLC.

## Runs

Bounds, and why they suffice, run by run.

* `forklifts` (`MCForklifts.cfg`): two clients, so that every contest has two sides;
  two worlds, one of which starts the abandonment clock; one base forklift and one
  dynamic one; a clock of two units and a lifetime of one, so that an expiry can be
  armed, made void, and armed again before the first timer fires.  Time stops at
  `MaxTime`; expiries past it are not in the liveness properties.
* `travel` (`MCTravel.cfg`): the maps of one connection are never read by another's
  handlers, so one client is enough; four worlds (the street, two interiors with
  opening hours that the same street leads to, an interior that is always open); two
  attempts and two authorizations, so that an old grant can be named after a new one was
  given; a clock long enough for a grant to run out between the clock reading of a
  commit and its critical section.
* `sessions` (`MCSessions.cfg`): three connections of one character, so that
  a connection that is itself being replaced replaces another; room for one, so that
  a connection is refused once its character's latest one has gone while a replaced one is
  still in the map.
* `locations` (`MCLocations.cfg`): one connection with two reports (one saved, one
  marked during that save), one failed save, every flusher, and the end of the process.
  A third report adds nothing a second does not: `locationVersion` only tells equal from
  different.
* `locations_disconnect` (`MCLocationsDisconnect.cfg`): the finding below.
* `cargo` (`MCCargo.cfg`): two drivers, one authored crate and two replacements, so that
  a replacement is itself taken away; every delay is one unit and there are two
  instants, so that a crate can be let go, touched and let go again before the first
  timer fires.
* `scripts` (`MCScriptEvents.cfg`): two connections of the character, so that a
  run of one is met by the other; a gate and a story of different priority, so that one
  can pass to the other; two runs; a lease of one unit in two instants, so that it
  expires under the process that holds it; one yen that the script and others want;
  one restart.  The two connections are interchangeable (`Symmetry`).  With one effect per run
  the run does not show that several effects are applied together; that they are in one
  transaction is in the model's grain.

* `script_versions` (`MCScriptVersions.cfg`): one script, since the rows of two
  scripts share no lock; two requests, so that each statement of one meets each
  of the other; sources that compile and one that does not; three versions,
  so that a rollback brings back the first after the second; two revisions of a draft, so
  that two authors save the same one.  Requests and sources that compile are
  interchangeable (`Symmetry`).  A request that is bound to be refused whatever happens
  meanwhile is not begun: a version never becomes a draft again, nor a community script
  official (`VersionsAreKept` proves the first).
* `characters` (`MCCharacterStore.cfg`): any two of seventeen calls at once, which is every
  pair of methods and their arguments that share a row, and a third that asks for a purchase
  again with another draw; numbers are just large enough that one purchase is
  affordable after another but not after spending, one winning can fits, and health fills up.
* `npcs` (`MCNpcSimulation.cfg`): two NPCs, of which the later in the order of the engine is
  followed, and a player; a day of five units and six units of time, so that a tick falls into
  the next day; one setting of the clock and one restart.
* `chat` (`MCChat.cfg`): two connections that come and go and two messages of either or of
  Discord; a history of one, so that it can be full; bursts of one; a queue of one and two attempts.
  Connections are numbered in the order they register, the first message is sent at time zero, and
  the clock is looked at where a handler reads it, since nothing else depends on it.
* `rooms` (`MCRooms.cfg`): two connections, since what one player is shown of another depends
  on no third; two worlds; four reports each (`MaxReports`), so that a player can go, come
  back and go again while the messages of the first change are still under way.

Deadlock is not checked for `Sessions`, `Locations`, `ScriptEvents`, `CharacterStore`,
`NpcSimulation`, `Chat` and `Rooms`: connections that have all come and gone, a process
that has ended, and calls that have all returned are meant to stop, and so do the bounds on
runs, calls, time and messages.  That calls and handlers do not wait for each other for ever
is checked as liveness instead (`EveryCallEnds`, `EverythingEnds`).

`TypeOK` and `IInv` of a module are written for the proofs and are in no run's list; both are
theorems.

### Fairness

`Forklifts`, `Cargo` and `Locations` assume that armed Go timers and started goroutines run
and that time passes.  `Sessions` assumes in addition that a `select` with several ready
channels takes each of them in the end (Go chooses at random) and that a blocked write
fails (every write has a deadline).  Nothing is assumed of clients: they need not
report, leave or connect.  In `CharacterStore` the database executes some statement, or breaks
some deadlock, as long as there is one; in `Chat` some handler or the bridge goes on as long as one
can: a single weak fairness each, which is less than that every one of them does.
`Travel`, `ScriptEvents`, `ScriptVersions`, `NpcSimulation` and `Rooms` have safety properties only.

## Theorems

TLAPS proves, for any constants that satisfy the modules' assumptions:

* `ForkliftsProofs`: `IInv` is an inductive invariant of `Forklifts`.  To the
  type invariant and the properties the runs check it adds `MissingIsZero` (a key not in
  the map reads as the zero value), `HomeWorld` (a base forklift is only in its home
  world, and so is its driver) and `DrawnFirst` (a dynamic id means nothing before it is
  drawn); without the first a departing driver could revive a forklift, without the
  second a respawn could move one.  From it follow the theorems on claims, shown
  owners, expiries and missing base forklifts, the action properties `WorldStays` and
  `NoEarlyRemoval` (no timer has an expiry of zero, and an old one does not match), and
  that every step implements a step, or none, of `VehicleClaims`.
* `TravelProofs`: `IInv` of `Travel`.  `PermitsCoverEntries` is the heart: an unused
  grant, a reserved arrival and the right to resume the saved place each stand for one
  entry still to come, and together with the entries made never exceed the
  authorizations given.  `CommitUnderWay` says what a commit between its critical
  sections may rely on, and what a disconnection there leaves.  From it follow the
  properties the run checks.

* `SessionsNpcProofs`, `Sessions`: the argument follows the notice of a replacement.  `SupersededIsTold` says
  where it is: in a call of `Register` that has changed the maps, in the older connection's
  channel, with its pumps, or with its `Unregister`; `ConnectedAreServed` adds that
  whoever is in `clients` has pumps or is still on the way to them, and `LatestIsOwn` that a
  character's latest connection is of that character.  From it also follow that the connections
  that were not replaced never exceed `maxClients`, and that a closed one is in no map.
* `LocationsProofs`: `flushMu` puts the saves of a connection in a row, each of a version at
  least as new as the one before (`FlushesAreInOrder`); a connection that has left
  `clients` is in the hands of its own flush or in `pendingLocations` until it is saved
  (`LeaversAreFlushed`); so when a round has handled all it collected, it owes nobody anything
  (`RoundsAreFresh`), which gives `SyncIsFresh`, `ExitLosesLeaversOnly`, and the action
  property `SavedInOrder`.
* `CargoChatProofs`, `Cargo`: crate by crate.  `ClaimsAreTimed` ties a crate's owner, its last
  contact and the time it was let go to the expiry of the claim; `TimersAreStamped` says that a
  timer that may act carries the stamp the crate has now, and contact leaves a crate
  without stamp, so no timer acts on a crate that was touched meanwhile; `OneCrateEach` says
  that each spawn has one crate that nothing has replaced, which makes `SpawnHasOneCrate`
  inductive.  It uses that each spawn is the authored place of one base crate
  (`ConstantsAssumption`), which is how `cargoSpawns` is filled.  `GraceIsKept` follows as an
  action property: no crate changes hands, or is given back, before its grace after the last
  contact of its owner is over.
* `ScriptEventsProofs`: one half of `IInv` is about the rows (`RowsAreInOrder`: numbered
  without a gap, at most one active), the other about whose run it is
  (`CallsAreInOrder`, `RunsAreOwn`, `SessionsAreKept`: a run is driven by one call, its
  session by one connection).  The second half is what makes `EffectsOnce` inductive:
  two calls that both found the run active would otherwise both finish it.
  `SessionIsKnown` and `OthersAreClean` give `SessionIsOwned` (`KnownIsOwned`): what a gone connection
  still refers to is a run about to be cancelled, or one it was starting when `cancelClientScript`
  looked (the ghost `missed`).
* `ScriptVersionsRoomsProofs`, `ScriptVersions`: the argument about row locks.  What a request has read is still so
  (`ReadIsStillSo`) because either its own lock protects the row (`LocksAreExclusive`) or the
  life of a version does (`Succeeds`: no way back to draft, no change of what was
  superseded).  `StaysTrue` says so once for every step of another request.  From it
  follow `ServedIsReviewed`, `IndexesMatch`, and the action properties `EditsAreSeen` and
  `VersionsAreKept`.
* `CharacterStoreProofs`: `CallOK` says of a running call which columns it has read and changed and
  to what, and which rows it will insert, as a function of the statements it has sent
  (`Past`), and that it holds the row locks of all of these, of its event key and of its request
  id.  Locks exclude each other (`Exclusive`), so a commit of another call leaves all this true
  (`CommitOthers`), and its own commit is as if it ran alone.  The ledger then follows method by method:
  what the statements of a method change adds up to what its events say (`EventsAccount`), and
  the sum over the committed rows grows by just that (`TotalOfInserted`).  `SumFunction` is a fold
  over a set; the lemmas on sums get by without an induction rule, from the fact that among the
  subsets of a finite set that fail there is a smallest (`Smallest`).  From it follow `LedgerAgrees`,
  `ChargedOnce` and `SavesAreKept`.  The callers are assumed to give what the methods' first lines ask
  for (`OpsAssumption`), and healing items to heal: the check of `effect_value` in
  `item_definitions` only asks for a number, and no healing item is defined yet; one with zero would
  be used up for nothing.
* `SessionsNpcProofs`, `NpcSimulation`: `DelaysFollowClock` says that the runtimes are of the clock as
  it is, from the moment the reset after a setting is over and until the next setting, except
  while `skewed` marks a tick that had read an older clock; what is added to a delay in a tick is no
  more than what passed since the last one, so a delay stays below the time since midnight and since
  the clock was set.  `CountedInv` says without exception that it stays below the time since midnight
  and what `recounted` has counted: the game time that a late tick went back, or by which a restored row
  was ahead of the clock.  `NeverSet` says the same of the rows, which is what a restart relies on.
  `EncountersAreTimed` follows an encounter through blocking, clearing, waiting and the sidestep:
  its patience counts from no later than its beginning, whichever of the phases it is in.  From it follow
  `DelayIsLived` and `NoLongWait`.
* `CargoChatProofs`, `Chat`: `NothingIsLost` says of every message that was begun and every connection
  where the message is on its way there (`Reaches`); the step that needs it is the loading of the
  history, which takes the newest rows: what it leaves out was pushed out by as many later ones
  (`PushedOutOfHistory`, about the first elements of a finite strict order), or is still to come.
  `OneAtATime` (a connection's next message begins when its last one has ended) makes
  `SendersAreInOrder` inductive.
* `ScriptVersionsRoomsProofs`, `Rooms`: between two players, `VisitsAreAnnounced`, `EndsAreSent` and
  `ShownInTheEnd` hold of what one has received together with what the reader and the `Unregister` of
  the other have still to send (`ToSend`).  A handler changes rooms and recipients in one step, a
  delivery moves a message from `sends` to `told`, `parted` and `shown` (`DeliverIInv`), and for a
  handler of `c` only the pairs that `c` is of are left to show (`Compose`).  `CallsAreOwn` says
  whose visit a message is about, which is what makes a late `player.state` harmless.  When
  nothing is left to be sent, `RoommatesAreTold` and `RoomIsShown` follow.  Neither needs the order of
  the messages of one handler; that a handler ends before the reader begins the next is enough.

Only model-checked:

* the liveness properties (`AbandonedIsCollected`, `BaseComesBack`, `OneConnectionPerCharacter`,
  `LocationIsSaved`, `OrphanIsFreed`, `TakenIsReplaced`, `EveryCallEnds`, `EverythingEnds`): TLAPS offers
  no rules for fairness and `ENABLED` here.

Every other property of a passing run is a theorem.

## Where code and documents disagree

One run expects a violation; `PROJECT.json` quotes the sentence it refutes.

* `locations_disconnect`: a location marked just after `Unregister`'s flush is
  never saved.

Others are only described here.

* A release leaves the vehicle in the stored presence, so the former driver's next report
  takes the owner off a forklift that someone else has claimed, until that driver's
  next report, although "the room snapshot contains its real owner" (`hub.go:736`).
  `ShownOwnerIsReal` says that a shown owner is the real one, not that it is always shown.
* "Publication rejects ambiguous triggers at the same priority"
  (`docs/scripted-events.md`), but does not look at the triggers of other scripts; two with
  the same trigger are both published, and the players' events then fail.
* "Changing `/api/world-state` resets schedule state" (`docs/scheduled-npcs.md`), but a tick of the
  simulation loop that read the clock before it was set can run after the reset, and then
  the jump becomes a delay of every NPC it finds blocked, until the next day.
  So does a delay restored from before the setting.  `DelayIsLived` bounds both: they add at most
  the game time that was gone back, and nothing beyond the day.
* "Room-scoped updates include player presence, chat, ..." (`docs/multiplayer-server.md`), but chat
  goes to every connection.
* "On `SIGINT` or `SIGTERM`, ... pending character locations are flushed"
  (`docs/multiplayer-server.md:44-45`), and "flushed again on disconnect and shutdown" (136-138), but
  the last flush covers the connected clients only: the process may end under the flush of an
  `Unregister` and lose that location.  `ExitLosesLeaversOnly` says that this is the only loss.
* Where a player's change of room overtakes another's snapshot, or comes after it although it was
  made before, or `Unregister` overtakes a `player.state`, a player who has left is shown until the next
  snapshot, or one who is there is missing until its next report.  `RoomIsShown` says that
  this cannot happen otherwise, however the handlers overlap.

Met while modelling, and claimed otherwise by no document: replacements are admitted above
`MAX_CONNECTIONS`; a script start that outlives its connection leaves its process and run
behind, and `SessionIsOwned` says that nothing else does; of two publications at once one may leave a version `published` that nothing
serves and no rollback can choose; a publication or an edit may commit just
after the archival of its script; `Bridge.Close` drops the messages that are still
queued, and an attempt that timed out may have been posted and is repeated; two tickers may
publish the NPCs out of the order of their revisions, and two concurrent changes of the
world state may be broadcast in the other order.

## What is not covered

Positions, orientations, velocities, animations and the wording of
messages; authentication, cookies, HTML and JSON; the content filter, player names,
generated tables, the compiler of scripts and the offline tools, which are functions of their
input without state; the interpretation of NPC schedules and routes, whose results are inputs of
`NpcSimulation`; the token buckets of connections and accounts; the broadcasts at the
boundaries of day phases; who may edit, review and moderate a script.  `PROJECT.json` gives the
reason for each component.

## Plan

1. `WorldClock`: the boundary broadcasts.  The token buckets of `Rate limits`.
2. The roles of script repository and review threads, with `ScriptVersions`.
