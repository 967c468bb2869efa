--------------------------- MODULE NpcSimulation ---------------------------
(* The scheduled characters of internal/npc: one engine, ticked by the     *)
(* simulation loop of realtime/npcs.go and by the handler of               *)
(* PATCH /api/world-state, over the clock of internal/worldstate, with the *)
(* five-second checkpoints and their restoration after a restart.          *)
(*                                                                         *)
(* A tick works on a snapshot of the clock taken before it waits for the   *)
(* engine's lock, so ticks of the two callers may run in another order     *)
(* than their snapshots.  Game time is scaled to the unit of real time.    *)
(* Where everybody stands is left open: each tick meets any set of         *)
(* obstructions.  What a schedule shows at a second, the revisions and     *)
(* the messages to clients are left out.                                   *)
EXTENDS Integers, FiniteSetsExt

CONSTANTS
    NNpcs,             \* the actors, numbered in the order of their IDs
    Followed,          \* those whose runtime is modelled; the others are
                       \* met as obstacles only
    Player, Nobody,    \* a blocker that is a player; no blocker
    DayLength,         \* the part of a day that is played
    ClearHysteresis, NpcPatience, EncounterReset, AvoidancePatience,
    OffsetDistance,    \* time it takes to step aside
    Settings,          \* the seconds an administrator may set
    MaxTime, MaxSets, MaxStops   \* bounds of the model

NPCs == 1..NNpcs
NoTime == -1
NoTick == [real |-> NoTime, epoch |-> 0]

ASSUME DelaysAssumption ==
    /\ NNpcs \in Nat /\ Followed \subseteq NPCs /\ DayLength \in Nat \ {0}
    /\ Player \notin NPCs /\ Nobody \notin NPCs \cup {Player}
    /\ {ClearHysteresis, NpcPatience, EncounterReset, AvoidancePatience,
        OffsetDistance} \subseteq Nat
    /\ 0 < ClearHysteresis /\ ClearHysteresis < NpcPatience
    /\ NpcPatience < EncounterReset /\ EncounterReset < AvoidancePatience
    /\ Settings \subseteq 0..(DayLength - 1)

VARIABLES
    real,       \* real time
    epoch,      \* Clock.epoch: the configured one until the clock is set
    up,         \* the process runs
    rt,         \* Engine.runtimes
    lastTick,   \* Engine.lastTick; NoTick when not started
    sim,        \* RunNPCSimulation: whether a tick is due, the last snapshot
    admin,      \* the PATCH handler: where it is and its snapshot
    rows,       \* npc_runtime_state
    setAt,      \* history: when the clock was last set
    skewed,     \* history: the delays stem from ticks that ran out of the
                \* order of the clock, or from a clock since discarded
    recounted,  \* history: the game time of the day that ticks out of order,
                \* or rows of another clock, may have counted again
    met,        \* history: when the encounter of each NPC began
    seenAt,     \* history: when each NPC last had a blocker ahead
    sets, stops

engine == <<rt, lastTick, skewed, recounted, met, seenAt>>
npcVars == <<real, epoch, up, engine, sim, admin, rows, setAt, sets, stops>>

-----------------------------------------------------------------------------
(* The clock.                                                              *)
Snapshot == [real |-> real, epoch |-> epoch]
DayNumber(s) == (s.real - s.epoch) \div DayLength
GameTime(s) == (s.real - s.epoch) % DayLength

(* The same day, at another second of it.                                  *)
EpochFor(second) == real - DayNumber(Snapshot) * DayLength - second

-----------------------------------------------------------------------------
(* One runtime.  offset is how far the sidestep has got.                   *)
Fresh(day, delay) ==
    [day |-> day, delay |-> delay, by |-> Nobody, since |-> NoTime,
     clear |-> NoTime, phase |-> "none", offset |-> 0]

ResetAvoidance(r) == [r EXCEPT !.phase = "none", !.offset = 0]

StartAvoidance(r) ==
    [r EXCEPT !.phase = "sidestep", !.offset = 0, !.clear = NoTime,
              !.by = Nobody, !.since = NoTime]

AdvanceAvoidance(r, elapsed) ==
    LET out  == Min({r.offset + elapsed, OffsetDistance})
        back == Max({r.offset - elapsed, 0})
    IN CASE elapsed > 0 /\ r.phase = "sidestep" ->
                [r EXCEPT !.offset = out,
                          !.phase = IF out = OffsetDistance THEN "passing" ELSE @]
         [] elapsed > 0 /\ r.phase = "returning" ->
                IF back = 0 THEN ResetAvoidance(r) ELSE [r EXCEPT !.offset = back]
         [] OTHER -> r

Frozen(r) == r.by # Nobody \/ r.phase = "sidestep"

(* Game and real time since the last tick of the same day; time that ran   *)
(* backwards counts as none.                                               *)
SameDay(s) == lastTick # NoTick /\ DayNumber(s) = DayNumber(lastTick)

(* Mutation of GameDelta: the clamp is a distance.                         *)
MutGameDelta(s) ==
    IF SameDay(s) THEN Max({GameTime(s) - GameTime(lastTick),
                            GameTime(lastTick) - GameTime(s)}) ELSE 0

GameDelta(s) == IF SameDay(s) THEN Max({GameTime(s) - GameTime(lastTick), 0}) ELSE 0
RealDelta(s) == IF SameDay(s) THEN Max({s.real - lastTick.real, 0}) ELSE 0

(* The game time by which a tick goes back within the day.                 *)
Backward(s) == IF SameDay(s) THEN Max({GameTime(lastTick) - GameTime(s), 0}) ELSE 0

(* Mutation of Delayed: the delay survives the day.                        *)
MutDelayed(r, s) ==
    AdvanceAvoidance(
        CASE r.day # DayNumber(s) -> Fresh(DayNumber(s), r.delay)
          [] r.day = DayNumber(s) /\ Frozen(r) ->
                 [r EXCEPT !.delay = @ + GameDelta(s)]
          [] OTHER -> r,
        RealDelta(s))

(* The first loop of Tick: the schedule second of the actor.               *)
Delayed(r, s) ==
    AdvanceAvoidance(
        CASE r.day # DayNumber(s) -> Fresh(DayNumber(s), 0)
          [] r.day = DayNumber(s) /\ Frozen(r) ->
                 [r EXCEPT !.delay = @ + GameDelta(s)]
          [] OTHER -> r,
        RealDelta(s))

(* Who stands in the way of whom: players first; of two NPCs that face     *)
(* each other the one with the larger ID waits.                            *)
DetectBlockers(sees) ==
    [n \in Followed |->
        LET ahead == {m \in NPCs \ {n} : /\ <<n, m>> \in sees
                                         /\ <<m, n>> \in sees => m < n}
        IN IF <<n, Player>> \in sees THEN Player
           ELSE IF ahead = {} THEN Nobody ELSE Min(ahead)]

Obstacles(n, others) == ({n} \X others) \cup (others \X {n})
DetectionsOf(others) ==
    {DetectBlockers(sees) :
        sees \in SUBSET UNION {Obstacles(n, others \ {n}) : n \in Followed}}
Detections == DetectionsOf(NPCs \cup {Player})
NpcDetections == DetectionsOf(NPCs)

(* The second loop of Tick, by the situation of the actor.                 *)
Since(time, now) == IF time = NoTime THEN now ELSE time

Avoiding(r, baseBlocker, now) ==
    LET clear == Since(r.clear, now)
        next ==
          CASE r.phase = "passing" /\ baseBlocker # Nobody ->
                 [r EXCEPT !.clear = NoTime]
            [] r.phase = "passing" /\ baseBlocker = Nobody ->
                 IF now - clear >= ClearHysteresis
                 THEN [r EXCEPT !.phase = "returning", !.clear = NoTime]
                 ELSE [r EXCEPT !.clear = clear]
            [] r.phase = "returning" /\ baseBlocker # Nobody ->
                 [r EXCEPT !.phase = "sidestep", !.clear = NoTime]
            [] OTHER -> r
    IN [next EXCEPT !.by = Nobody, !.since = NoTime]

Patience(blocker) == IF blocker \in NPCs THEN NpcPatience ELSE AvoidancePatience

Blocked(r, blocker, now) ==
    LET since == Since(r.since, now)
    IN IF now - since >= Patience(blocker) THEN StartAvoidance(r)
       ELSE [r EXCEPT !.by = blocker, !.since = since, !.clear = NoTime]

(* Mutation of Release: the encounter ends as soon as the way is clear.    *)
MutRelease(r) == [r EXCEPT !.by = Nobody, !.since = NoTime]

Release(r) == [r EXCEPT !.by = Nobody]

Cleared(r, now) ==
    LET clear == Since(r.clear, now)
        delay == IF r.by \in NPCs THEN EncounterReset ELSE ClearHysteresis
        kept  == [r EXCEPT !.clear = clear]
    IN IF r.by \in NPCs /\ now - r.since >= NpcPatience THEN StartAvoidance(r)
       ELSE IF now - clear >= delay THEN Release(kept) ELSE kept

Walking(r, now) ==
    IF r.since # NoTime /\ r.clear # NoTime /\ now - r.clear >= EncounterReset
    THEN [r EXCEPT !.since = NoTime, !.clear = NoTime] ELSE r

Judged(r, baseBlocker, blocker, now) ==
    IF r.phase # "none" THEN Avoiding(r, baseBlocker, now)
    ELSE IF blocker # Nobody THEN Blocked(r, blocker, now)
    ELSE IF r.by # Nobody THEN Cleared(r, now) ELSE Walking(r, now)

-----------------------------------------------------------------------------
(* Engine.Tick.  The actors of an avoidance are detected where their       *)
(* schedule has them (base) and where they walk (seen).                    *)
Tick(s) ==
    LET moved == [n \in Followed |-> Delayed(rt[n], s)]
        evades == \E n \in Followed : moved[n].phase # "none"
        newDay == \E n \in Followed : rt[n].day # DayNumber(s)
        stale == \/ s.epoch # epoch \/ s.real < setAt
                 \/ lastTick # NoTick /\ s.real < lastTick.real
    IN \E base \in Detections, seen \in Detections :
        /\ Followed = NPCs => evades \/ seen = base
        /\ rt' = [n \in Followed |-> Judged(moved[n], base[n], seen[n], s.real)]
        /\ lastTick' = s
        /\ skewed' = (stale \/ (skewed /\ ~newDay))
        /\ recounted' = [n \in Followed |->
                IF SameDay(s) THEN recounted[n] + Backward(s) ELSE 0]
        /\ seenAt' = [n \in Followed |->
                IF seen[n] # Nobody THEN s.real
                ELSE IF newDay THEN NoTime ELSE seenAt[n]]
        /\ met' = [n \in Followed |->
                LET over == newDay \/ s.real - seenAt[n] >= EncounterReset
                IN IF moved[n].phase # "none" \/ rt'[n].phase # "none" THEN NoTime
                   ELSE IF seen[n] = Nobody THEN (IF over THEN NoTime ELSE met[n])
                   ELSE IF over \/ met[n] = NoTime THEN s.real ELSE met[n]]

(* tickNPCs, from RunNPCSimulation: a snapshot, then the engine's lock.    *)
(* The loop takes its next snapshot at a later time.                       *)
Idle == [pc |-> "idle", snapshot |-> NoTick]

SimulationSnapshot ==
    /\ up /\ sim.pc = "idle" /\ real > sim.snapshot.real
    /\ sim' = [pc |-> "tick", snapshot |-> Snapshot]
    /\ UNCHANGED <<real, epoch, up, engine, admin, rows, setAt, sets, stops>>

SimulationTick ==
    /\ up /\ sim.pc = "tick"
    /\ Tick(sim.snapshot)
    /\ sim' = [sim EXCEPT !.pc = "idle"]
    /\ UNCHANGED <<real, epoch, up, admin, rows, setAt, sets, stops>>

-----------------------------------------------------------------------------
(* PATCH /api/world-state: set the clock, reset the schedules, and tick    *)
(* once on a snapshot of its own.                                          *)
SetGameSecond(second) ==
    /\ up /\ admin.pc = "idle" /\ sets < MaxSets
    /\ epoch' = EpochFor(second)
    /\ admin' = [admin EXCEPT !.pc = "set"]
    /\ setAt' = real
    /\ sets' = sets + 1
    /\ UNCHANGED <<real, up, engine, sim, rows, stops>>

ResetScheduleState ==
    /\ up /\ admin.pc = "set"
    /\ rt' = [n \in Followed |-> Fresh(-1, 0)]
    /\ lastTick' = NoTick
    /\ admin' = [admin EXCEPT !.pc = "reset"]
    /\ skewed' = FALSE /\ recounted' = [n \in Followed |-> 0]
    /\ met' = [n \in Followed |-> NoTime]
    /\ seenAt' = [n \in Followed |-> NoTime]
    /\ UNCHANGED <<real, epoch, up, sim, rows, setAt, sets, stops>>

ResetSnapshot ==
    /\ up /\ admin.pc = "reset"
    /\ admin' = [pc |-> "tick", snapshot |-> Snapshot]
    /\ UNCHANGED <<real, epoch, up, engine, sim, rows, setAt, sets, stops>>

ResetTick ==
    /\ up /\ admin.pc = "tick"
    /\ Tick(admin.snapshot)
    /\ admin' = Idle
    /\ UNCHANGED <<real, epoch, up, sim, rows, setAt, sets, stops>>

-----------------------------------------------------------------------------
(* RunCheckpointPersistence and FlushCheckpoints: the rows are copied      *)
(* under the engine's lock and written later; a save that fails, or one    *)
(* that lands late, leaves the rows as after an earlier save.              *)
NoRows == [n \in Followed |-> [day |-> -1, delay |-> 0]]

Checkpoints == [n \in Followed |-> [day |-> rt[n].day, delay |-> rt[n].delay]]

SaveNPCCheckpoints ==
    /\ up /\ stops < MaxStops
    /\ rows' = Checkpoints
    /\ UNCHANGED <<real, epoch, up, engine, sim, admin, setAt, sets, stops>>

(* The process ends, crashed or after its final save.                      *)
Stop ==
    /\ up /\ stops < MaxStops
    /\ up' = FALSE /\ stops' = stops + 1
    /\ rt' = [n \in Followed |-> Fresh(-1, 0)]
    /\ lastTick' = NoTick
    /\ sim' = Idle /\ admin' = Idle
    /\ skewed' = FALSE /\ recounted' = [n \in Followed |-> 0]
    /\ met' = [n \in Followed |-> NoTime]
    /\ seenAt' = [n \in Followed |-> NoTime]
    /\ UNCHANGED <<real, epoch, rows, setAt, sets>>

(* main: the clock is the configured one again, NewEngine and Restore give *)
(* the delays of the rows, and a first tick without players.  The delays   *)
(* may be those of another clock when it had been set.                     *)
Restored(n) == Fresh(rows[n].day, rows[n].delay)

Start ==
    LET first == [real |-> real, epoch |-> 0]
    IN /\ ~up
       /\ up' = TRUE /\ epoch' = 0 /\ setAt' = 0
       /\ lastTick' = first
       /\ skewed' = (sets > 0 /\ \E n \in Followed : rows[n].day = DayNumber(first))
       /\ recounted' = [n \in Followed |->
            IF rows[n].day = DayNumber(first)
            THEN Max({rows[n].delay - GameTime(first), 0}) ELSE 0]
       /\ \E seen \in NpcDetections :
            /\ rt' = [n \in Followed |->
                 Judged(Delayed(Restored(n), first), seen[n], seen[n], real)]
            /\ seenAt' = [n \in Followed |-> IF seen[n] # Nobody THEN real ELSE NoTime]
       /\ met' = seenAt'
       /\ UNCHANGED <<real, sim, admin, rows, sets, stops>>

(* The snapshots are of the moment they are taken; time passes between     *)
(* any two steps.                                                          *)
Pass ==
    /\ real < MaxTime
    /\ real' = real + 1
    /\ UNCHANGED <<epoch, up, engine, sim, admin, rows, setAt, sets, stops>>

NpcInit ==
    /\ real = 0 /\ epoch = 0 /\ up = FALSE
    /\ rt = [n \in Followed |-> Fresh(-1, 0)] /\ lastTick = NoTick
    /\ sim = Idle /\ admin = Idle
    /\ rows = NoRows
    /\ setAt = 0 /\ skewed = FALSE /\ recounted = [n \in Followed |-> 0]
    /\ met = [n \in Followed |-> NoTime] /\ seenAt = [n \in Followed |-> NoTime]
    /\ sets = 0 /\ stops = 0

NpcNext ==
    \/ SimulationSnapshot \/ SimulationTick
    \/ \E second \in Settings : SetGameSecond(second)
    \/ ResetScheduleState \/ ResetSnapshot \/ ResetTick
    \/ SaveNPCCheckpoints \/ Stop \/ Start \/ Pass

NpcSpec == NpcInit /\ [][NpcNext]_npcVars

-----------------------------------------------------------------------------
(* Properties.                                                             *)

Held(n) == rt[n].by # Nobody

(* A delay was lived: it is at most the game time since the day began, and *)
(* at most the time since the clock was last set.                          *)
Lived == Min({GameTime(lastTick), lastTick.real - setAt})
DelaysLived == \A n \in Followed : lastTick # NoTick => rt[n].delay <= Lived

(* While the ticks follow the clock and nobody is setting it, the schedule *)
(* of no NPC is held back by more than the time it can have been held:     *)
(* newDay of engine.go:180, ResetScheduleState and Restore all forget what *)
(* belongs to another day.  A tick that ran after a later one, or a row    *)
(* saved under a clock since discarded, adds no more than the game time    *)
(* that is counted again, and not beyond the day.                          *)
DelaysAreCounted ==
    \A n \in Followed :
        lastTick # NoTick => rt[n].delay <= GameTime(lastTick) + recounted[n]

DelayIsLived ==
    /\ up /\ ~skewed /\ admin.pc = "idle" => DelaysLived
    /\ DelaysAreCounted

(* Nobody is kept standing beyond the patience of engine.go:15-20, counted *)
(* from the beginning of the encounter, however often the way was clear    *)
(* for less than blockedEncounterReset in between ("threshold chatter      *)
(* cannot continually reset the patience timer", engine.go:309); a player  *)
(* who has left holds an NPC for clearHysteresis at most.                  *)
NoLongWait ==
    \A n \in Followed :
        Held(n) /\ ~skewed =>
            \/ lastTick.real - met[n] < Patience(rt[n].by)
            \/ /\ rt[n].by = Player /\ seenAt[n] < lastTick.real
               /\ lastTick.real - rt[n].clear < ClearHysteresis
-----------------------------------------------------------------------------
(* The inductive invariant.                                                *)
Times == Nat \cup {NoTime}
Snapshots == [real : Nat, epoch : Int]
Phases == {"none", "sidestep", "passing", "returning"}
Runtimes == [day : Int, delay : Nat, by : NPCs \cup {Player, Nobody},
             since : Times, clear : Times, phase : Phases, offset : Nat]

NpcTypeOK ==
    /\ {real, setAt, sets, stops} \subseteq Nat /\ epoch \in Int
    /\ up \in BOOLEAN /\ skewed \in BOOLEAN
    /\ rt \in [Followed -> Runtimes]
    /\ lastTick \in Snapshots \cup {NoTick}
    /\ sim \in [pc : {"idle", "tick"}, snapshot : Snapshots \cup {NoTick}]
    /\ admin \in [pc : {"idle", "set", "reset", "tick"},
                  snapshot : Snapshots \cup {NoTick}]
    /\ rows \in [Followed -> [day : Int, delay : Nat]]
    /\ met \in [Followed -> Times] /\ seenAt \in [Followed -> Times]

(* Without a process nothing is started and nothing is under way.          *)
DownIsIdle == ~up => lastTick = NoTick /\ sim = Idle /\ admin = Idle

(* What has been read off the clock lies in the past.                      *)
SnapshotsArePast ==
    /\ lastTick.real <= real /\ setAt <= real
    /\ sim.pc = "tick" => sim.snapshot \in Snapshots /\ sim.snapshot.real <= real
    /\ admin.pc = "tick" => admin.snapshot \in Snapshots /\ admin.snapshot.real <= real

(* All runtimes are of the day of the last tick.                           *)
OneDay ==
    /\ lastTick = NoTick =>
         ~skewed /\ \A n \in Followed : rt[n] = Fresh(-1, 0)
                                        /\ met[n] = NoTime /\ seenAt[n] = NoTime
    /\ lastTick # NoTick => \A n \in Followed : rt[n].day = DayNumber(lastTick)

(* Unless the handler is about to reset the engine, the last tick and the  *)
(* delays are of the clock as it is.                                       *)
DelaysFollowClock ==
    lastTick # NoTick /\ ~skewed /\ admin.pc # "set" =>
        /\ lastTick.epoch = epoch /\ setAt <= lastTick.real
        /\ \A n \in Followed : /\ rt[n].delay <= GameTime(lastTick)
                               /\ rt[n].delay <= lastTick.real - setAt

(* A clock that nobody sets is the configured one, its ticks come in order *)
(* and what they leave in the rows has been lived.                         *)
NeverSet ==
    sets = 0 =>
        /\ epoch = 0 /\ setAt = 0 /\ ~skewed /\ admin.pc = "idle"
        /\ sim.pc = "tick" => /\ sim.snapshot.epoch = 0
                              /\ lastTick.real <= sim.snapshot.real
        /\ \A n \in Followed :
             /\ rows[n].delay <= real
             /\ rows[n].delay <= real - rows[n].day * DayLength

(* How a runtime stands at a tick at now, when the encounter began at m    *)
(* and the last blocker was seen at a.  The patience counts from since, not *)
(* after m, and a clear way from clear, not before a.                      *)
Waits(r, m, a, now) ==
    /\ m <= a /\ a <= now
    /\ r.phase # "none" => m = NoTime /\ r.by = Nobody /\ r.since = NoTime
    /\ r.phase \in {"sidestep", "returning"} => r.clear = NoTime
    /\ m # NoTime => r.since # NoTime /\ r.since <= m
    /\ r.since <= a
    /\ r.phase = "none" /\ r.clear # NoTime => a <= r.clear /\ r.clear <= now
    /\ r.by # Nobody =>
         /\ r.since # NoTime
         /\ \/ m # NoTime /\ now - r.since < Patience(r.by)
            \/ /\ r.by = Player /\ r.clear # NoTime
               /\ a < now /\ now - r.clear < ClearHysteresis

EncountersAreTimed ==
    ~skewed => \A n \in Followed : Waits(rt[n], met[n], seenAt[n], lastTick.real)

NpcIInv ==
    /\ NpcTypeOK /\ DownIsIdle /\ SnapshotsArePast /\ OneDay
    /\ DelaysFollowClock /\ NeverSet /\ EncountersAreTimed
=============================================================================
