---------------------------- MODULE ScriptEvents ----------------------------
(***************************************************************************)
(* Scripted events of one character: the handlers of the hub               *)
(* (internal/realtime/script_events.go), the engine that drives a Yarn     *)
(* process (internal/scriptevent/engine.go), and the runs in PostgreSQL    *)
(* (internal/store/script_events.go).                                      *)
(*                                                                         *)
(* Two goroutines of a connection call the engine: the read pump, and the  *)
(* one that unregisters the connection and cancels its run.  The steps of  *)
(* a call are one action per transaction or exchange with the process,     *)
(* because connections of the same character may overlap and the context   *)
(* of a call may end (ten seconds) at any of them.  What a script does is  *)
(* its choice: it stages effects, yields, passes, completes or fails.      *)
(***************************************************************************)
EXTENDS Naturals, Sequences, FiniteSets

CONSTANTS
  Conns,        \* connections of the character
  Versions,     \* script versions with a trigger for the event
  Priority,     \* Priority[v]
  NoVersion,
  InitYen,
  Lease,        \* ScriptEventLeaseDuration
  MaxRuns,      \* bound of the rows of script_event_runs
  MaxEffects,   \* bound of a script's effects
  MaxTime,      \* bound of the clock
  MaxCrashes    \* bound of the server's restarts

Runs == 1 .. MaxRuns
NoRun == 0

ASSUME ConstantsAssumption ==
  /\ NoVersion \notin Versions
  /\ Priority \in [Versions -> Nat]
  /\ InitYen \in Nat
  /\ Lease \in Nat \ {0}
  /\ MaxRuns \in Nat
  /\ MaxEffects \in Nat
  /\ MaxTime \in Nat
  /\ MaxCrashes \in Nat

VARIABLES
  now,        \* the clock
  conn,       \* conn[c]: "new", "in" Hub.clients, or "out" of it
  scriptRun,  \* Client.activeScriptRun
  work,       \* what each goroutine is doing
  rows,       \* script_event_runs, with script_event_effects
  yen,        \* characters.yen
  progress,   \* a value in character_story_progress
  revision,   \* character_script_state.revision
  active,     \* keys of Engine.active
  session,    \* activeEvent of each run
  elsewhere,  \* ghost: yen spent by other parts of the server
  missed,     \* ghost: connections whose reader was still starting an event
              \* when cancelClientScript looked for their run
  crashes

db == <<rows, yen, progress, revision>>
vars == <<now, conn, scriptRun, work, rows, yen, progress, revision,
          active, session, elsewhere, missed, crashes>>

-----------------------------------------------------------------------------
(* State *)

Threads == Conns \X {"read", "leave"}

\* increment_progress and spend_yen stand for the durable commands: the first
\* can always be applied, the second only if there is enough.
Effects == {"increment", "spend"}

Statuses == {"none", "active", "completed", "passed", "cancelled", "failed", "expired"}
\* The lease of a run that has ended is not read again; here it is 0.
Row == [status : Statuses, version : Versions \cup {NoVersion},
        revision : Nat, expires : Nat, effects : Seq(Effects)]
NoRow == [status |-> "none", version |-> NoVersion, revision |-> 0, expires |-> 0,
          effects |-> <<>>]

\* "yen" is the balance of the snapshot, less what is staged.
Session ==
  [open : BOOLEAN, staged : Seq(Effects), yen : Nat, visible : BOOLEAN]
NoSession == [open |-> FALSE, staged |-> <<>>, yen |-> 0, visible |-> FALSE]

\* "at" is the next step of the call; "excluded" the versions that have
\* passed; "snapshot" is the balance read by the transaction that started the
\* run.
Work ==
  [at : {"idle", "resolve", "launch", "renew", "pump", "cancel", "done"},
   call : {"none", "start", "advance", "stop", "cancel"}, run : Runs \cup {NoRun},
   excluded : SUBSET Versions, snapshot : Nat]
Idle == [at |-> "idle", call |-> "none", run |-> NoRun, excluded |-> {},
         snapshot |-> 0]
Done == [Idle EXCEPT !.at = "done"]

Init ==
  /\ now = 0
  /\ conn = [c \in Conns |-> "new"]
  /\ scriptRun = [c \in Conns |-> NoRun]
  /\ work = [t \in Threads |-> Idle]
  /\ rows = [r \in Runs |-> NoRow]
  /\ yen = InitYen
  /\ progress = 0
  /\ revision = 0
  /\ active = {}
  /\ session = [r \in Runs |-> NoSession]
  /\ elsewhere = 0
  /\ missed = {}
  /\ crashes = 0

-----------------------------------------------------------------------------
(* The tables *)

Inserted == {r \in Runs : rows[r].status # "none"}
NumberOfRuns == Cardinality(Inserted)
Count(effects, e) == Cardinality({i \in DOMAIN effects : effects[i] = e})

\* resolvePublishedTrigger: the candidate of the highest priority, unless two
\* share it.
Best(candidates) ==
  {v \in candidates : \A u \in candidates : Priority[u] <= Priority[v]}

\* The first update of StartPublishedScriptEventExcluding.
Expired ==
  [r \in Runs |-> IF rows[r].status = "active" /\ rows[r].expires <= now
                  THEN [rows[r] EXCEPT !.status = "expired", !.expires = 0]
                  ELSE rows[r]]

WithStatus(r, s) ==
  [rows EXCEPT ![r] = [rows[r] EXCEPT !.status = s, !.expires = 0]]

\* CancelScriptEvent and FailScriptEvent do nothing if the run has ended.
Ended(r, s) == IF rows[r].status = "active" THEN WithStatus(r, s) ELSE rows

\* finishScriptEvent: its transaction changes nothing unless all of this holds.
LateMutant(r) ==
  /\ rows[r].status \in {"active", "expired"}
  /\ Count(session[r].staged, "spend") <= yen
MayFinish(r) ==
  /\ rows[r].status = "active"
  /\ rows[r].expires > now
  /\ rows[r].revision = revision
  /\ Count(session[r].staged, "spend") <= yen

RevisionAfter(r) == IF session[r].staged = <<>> THEN revision ELSE revision + 1

StillActiveMutant(r, s) ==
  /\ rows' = [rows EXCEPT ![r] = [rows[r] EXCEPT !.effects = session[r].staged]]
  /\ yen' = yen - Count(session[r].staged, "spend")
  /\ progress' = progress + Count(session[r].staged, "increment")
  /\ revision' = RevisionAfter(r)
FinishScriptEvent(r, s) ==
  /\ rows' = [rows EXCEPT ![r] =
       [rows[r] EXCEPT !.status = s, !.expires = 0, !.effects = session[r].staged]]
  /\ yen' = yen - Count(session[r].staged, "spend")
  /\ progress' = progress + Count(session[r].staged, "increment")
  /\ revision' = RevisionAfter(r)

-----------------------------------------------------------------------------
(* Connections *)

Register(c) ==
  /\ conn[c] = "new"
  /\ conn' = [conn EXCEPT ![c] = "in"]
  /\ UNCHANGED <<now, scriptRun, work, db, active, session,
                 elsewhere, missed, crashes>>

\* The critical section of Unregister; cancelClientScript follows.
SkipCancelMutant(c) ==
  /\ conn[c] = "in"
  /\ conn' = [conn EXCEPT ![c] = "out"]
  /\ work' = [work EXCEPT ![<<c, "leave">>] = Done]
  /\ UNCHANGED <<now, scriptRun, db, active, session, elsewhere, missed, crashes>>
Unregister(c) ==
  /\ conn[c] = "in"
  /\ conn' = [conn EXCEPT ![c] = "out"]
  /\ work' = [work EXCEPT ![<<c, "leave">>] =
                [Idle EXCEPT !.at = "cancel", !.call = "cancel"]]
  /\ UNCHANGED <<now, scriptRun, db, active, session, elsewhere, missed, crashes>>

\* HandleScriptEventStart; that the trigger is legal, and automatic events
\* once per room entry, is left out.
StartRequest(c) ==
  LET t == <<c, "read">>
  IN /\ conn[c] = "in"
     /\ work[t].at = "idle"
     /\ scriptRun[c] = NoRun
     /\ work' = [work EXCEPT ![t] = [Idle EXCEPT !.at = "resolve", !.call = "start"]]
     /\ UNCHANGED <<now, conn, scriptRun, db, active, session,
                    elsewhere, missed, crashes>>

\* HandleScriptEventAdvance and the look-up of Engine.Advance.  The client
\* must name its run; what it answers is "advance" or "stop" (cancel).
AdvanceRequest(c, call) ==
  LET t == <<c, "read">>
  IN /\ conn[c] # "new"
     /\ work[t].at = "idle"
     /\ scriptRun[c] # NoRun
     /\ IF scriptRun[c] \in active
        THEN /\ work' = [work EXCEPT ![t] =
                  [Idle EXCEPT !.at = "renew", !.call = call, !.run = scriptRun[c]]]
             /\ UNCHANGED scriptRun
        ELSE /\ scriptRun' = [scriptRun EXCEPT ![c] = NoRun]
             /\ UNCHANGED work
     /\ UNCHANGED <<now, conn, db, active, session, elsewhere, missed, crashes>>

\* cancelClientScript
CancelClientScript(c) ==
  LET t == <<c, "leave">>
  IN /\ work[t].at = "cancel"
     /\ scriptRun' = [scriptRun EXCEPT ![c] = NoRun]
     /\ work' = [work EXCEPT ![t] =
          IF scriptRun[c] \in active
          THEN [work[t] EXCEPT !.at = "renew", !.run = scriptRun[c]] ELSE Done]
     /\ missed' = IF work[<<c, "read">>].call = "start" THEN missed \cup {c} ELSE missed
     /\ UNCHANGED <<now, conn, db, active, session, elsewhere, crashes>>

-----------------------------------------------------------------------------
(* Calls of the engine.  The context of a call may end at any step: the step *)
(* then fails, and so does marking the run as failed.                      *)

\* The call returns.  An answer that ends the event, or an error, makes the
\* connection forget the run it advanced.
Return(t) ==
  /\ work' = [work EXCEPT ![t] = IF t[2] = "leave" THEN Done ELSE Idle]
  /\ scriptRun' = IF work[t].call \in {"advance", "stop"}
                  THEN [scriptRun EXCEPT ![t[1]] = NoRun] ELSE scriptRun

\* Engine.remove and Session.Close
Removed(r) == active \ {r}
Close(r) ==
  /\ active' = Removed(r)
  /\ session' = [session EXCEPT ![r] = NoSession]

\* startCandidate, first part: the transaction.
\* Authors publish, roll back and archive at any time: "published" is what the
\* transaction finds.
Candidates(t, published) == published \ work[t].excluded

StartPublishedScriptEvent(t, published, v) ==
  /\ work[t].at = "resolve"
  /\ Best(Candidates(t, published)) = {v}
  /\ \A r \in Runs : Expired[r].status # "active"
  /\ NumberOfRuns < MaxRuns
  /\ LET r == NumberOfRuns + 1
     IN /\ rows' = [Expired EXCEPT ![r] =
             [NoRow EXCEPT !.status = "active", !.version = v,
                           !.revision = revision, !.expires = now + Lease]]
        /\ work' = [work EXCEPT ![t] =
             [work[t] EXCEPT !.at = "launch", !.run = r, !.snapshot = yen]]
  /\ UNCHANGED <<now, conn, scriptRun, yen, progress, revision, active, session,
                 elsewhere, missed, crashes>>

\* ErrNotFound, ErrAmbiguousTrigger, ErrScriptEventActive, or no time left:
\* the transaction is rolled back, with the update of expired runs.
StartRefused(t) ==
  /\ work[t].at = "resolve"
  /\ Return(t)
  /\ UNCHANGED <<now, conn, db, active, session, elsewhere, missed, crashes>>

\* Second part: the process.
Launch(t) ==
  /\ work[t].at = "launch"
  /\ active' = active \cup {work[t].run}
  /\ session' = [session EXCEPT ![work[t].run] =
       [NoSession EXCEPT !.open = TRUE, !.yen = work[t].snapshot]]
  /\ work' = [work EXCEPT ![t] =
       [work[t] EXCEPT !.at = "pump", !.snapshot = 0]]
  /\ UNCHANGED <<now, conn, scriptRun, db, elsewhere, missed, crashes>>

LaunchFailed(t) ==
  /\ work[t].at = "launch"
  /\ rows' \in {Ended(work[t].run, "failed"), rows}
  /\ Return(t)
  /\ UNCHANGED <<now, conn, yen, progress, revision, active, session,
                 elsewhere, missed, crashes>>

\* Engine.Advance, with activeEvent.mu.
Free(r) == \A t \in Threads : work[t].at = "pump" => work[t].run # r

Renewable(r) == rows[r].status = "active" /\ rows[r].expires > now

Renew(t) ==
  LET r == work[t].run
  IN /\ work[t].at = "renew"
     /\ Free(r)
     /\ Renewable(r)
     /\ rows' = [rows EXCEPT ![r] = [rows[r] EXCEPT !.expires = now + Lease]]
     /\ work' = [work EXCEPT ![t] = [work[t] EXCEPT !.at = "pump"]]
     /\ UNCHANGED <<now, conn, scriptRun, yen, progress, revision,
                    active, session, elsewhere, missed, crashes>>

\* The lease is over, the run has ended, or there was no time.
NotRenewed(t) ==
  LET r == work[t].run
  IN /\ work[t].at = "renew"
     /\ Free(r)
     /\ Close(r)
     /\ Return(t)
     /\ UNCHANGED <<now, conn, db, elsewhere, missed, crashes>>

-----------------------------------------------------------------------------
(* Engine.pump: one exchange with the process, recorded in the trace *)

\* When the transaction of pass_trigger, of the end or of a cancellation runs,
\* the trace of that step has been recorded some time before: their guards do
\* not ask for it again.
Exchanging(t) == work[t].at = "pump" /\ session[work[t].run].open

\* RecordScriptEventStep needs an active run with a valid lease.
Exchanged(t) ==
  /\ Exchanging(t)
  /\ rows[work[t].run].status = "active"
  /\ rows[work[t].run].expires > now

\* After a cancel the process only ends.
RunsOn(t) == work[t].call \in {"start", "advance"}

\* eventState.stage checks the snapshot.
Stage(t, e) ==
  LET s == session[work[t].run]
  IN /\ Exchanged(t) /\ RunsOn(t)
     /\ Len(s.staged) < MaxEffects
     /\ e = "spend" => s.yen > 0
     /\ session' = [session EXCEPT ![work[t].run] =
          [s EXCEPT !.staged = Append(s.staged, e),
                    !.yen = IF e = "spend" THEN s.yen - 1 ELSE s.yen]]
     /\ UNCHANGED <<now, conn, scriptRun, work, db, active,
                    elsewhere, missed, crashes>>

\* A line, options or an external command is shown to the player; the handler
\* of a start remembers the run.
ForgetRunMutant(t) == scriptRun
Remembered(t) ==
  IF work[t].call = "start"
  THEN [scriptRun EXCEPT ![t[1]] = work[t].run] ELSE scriptRun

Yield(t) ==
  LET s == session[work[t].run]
  IN /\ Exchanged(t) /\ RunsOn(t)
     /\ session' = [session EXCEPT ![work[t].run] = [s EXCEPT !.visible = TRUE]]
     /\ work' = [work EXCEPT ![t] = Idle]
     /\ scriptRun' = Remembered(t)
     /\ UNCHANGED <<now, conn, db, active, elsewhere, missed, crashes>>

\* pass_trigger: the gate's effects are kept, and the next candidate is tried.
PassTrigger(t) ==
  LET r == work[t].run
  IN /\ Exchanging(t) /\ RunsOn(t)
     /\ ~session[r].visible
     /\ MayFinish(r)
     /\ FinishScriptEvent(r, "passed")
     /\ Close(r)
     /\ work' = [work EXCEPT ![t] =
          [work[t] EXCEPT !.at = "resolve", !.run = NoRun,
                          !.excluded = work[t].excluded \cup {rows[r].version}]]
     /\ UNCHANGED <<now, conn, scriptRun, elsewhere, missed, crashes>>

\* The script has asked for completion and ends; one that ends without fails.
Complete(t) ==
  LET r == work[t].run
  IN /\ Exchanging(t) /\ RunsOn(t)
     /\ MayFinish(r)
     /\ FinishScriptEvent(r, "completed")
     /\ Close(r)
     /\ Return(t)
     /\ UNCHANGED <<now, conn, elsewhere, missed, crashes>>

Cancelled(t) ==
  LET r == work[t].run
  IN /\ Exchanging(t)
     /\ rows[r].status = "active"
     /\ work[t].call \in {"stop", "cancel"}
     /\ rows' = WithStatus(r, "cancelled")
     /\ Close(r)
     /\ Return(t)
     /\ UNCHANGED <<now, conn, yen, progress, revision, elsewhere, missed, crashes>>

\* Engine.fail: an error of the process, of the script, of the database, or of
\* the player's answer.  Without time left the run cannot be marked.
Fail(t) ==
  LET r == work[t].run
  IN /\ work[t].at = "pump"
     /\ rows' \in {Ended(r, "failed"), rows}
     /\ Close(r)
     /\ Return(t)
     /\ UNCHANGED <<now, conn, yen, progress, revision, elsewhere, missed, crashes>>

-----------------------------------------------------------------------------
(* The rest of the world *)

\* Vending machines and shops spend from the same balance.
SpendElsewhere ==
  /\ yen > 0
  /\ yen' = yen - 1
  /\ elsewhere' = elsewhere + 1
  /\ UNCHANGED <<now, conn, scriptRun, work, rows, progress, revision,
                 active, session, missed, crashes>>

Tick ==
  /\ now < MaxTime
  /\ now' = now + 1
  /\ UNCHANGED <<conn, scriptRun, work, db, active, session,
                 elsewhere, missed, crashes>>

\* The server stops; the tables stay.
Restart ==
  /\ crashes < MaxCrashes
  /\ crashes' = crashes + 1
  /\ conn' = [c \in Conns |-> "new"]
  /\ scriptRun' = [c \in Conns |-> NoRun]
  /\ work' = [t \in Threads |-> Idle]
  /\ active' = {}
  /\ session' = [r \in Runs |-> NoSession]
  /\ missed' = {}
  /\ UNCHANGED <<now, db, elsewhere>>

Next ==
  \/ \E c \in Conns :
       \/ Register(c) \/ Unregister(c)
       \/ StartRequest(c)
       \/ \E call \in {"advance", "stop"} : AdvanceRequest(c, call)
       \/ CancelClientScript(c)
  \/ \E t \in Threads :
       \/ \E published \in SUBSET Versions, v \in Versions :
            StartPublishedScriptEvent(t, published, v)
       \/ StartRefused(t)
       \/ Launch(t) \/ LaunchFailed(t)
       \/ Renew(t) \/ NotRenewed(t)
       \/ \E e \in Effects : Stage(t, e)
       \/ Yield(t) \/ PassTrigger(t) \/ Complete(t)
       \/ Cancelled(t) \/ Fail(t)
  \/ SpendElsewhere
  \/ Tick \/ Restart

Spec == Init /\ [][Next]_vars

-----------------------------------------------------------------------------
(* Properties *)

TypeOK ==
  /\ now \in Nat
  /\ conn \in [Conns -> {"new", "in", "out"}]
  /\ scriptRun \in [Conns -> Runs \cup {NoRun}]
  /\ work \in [Threads -> Work]
  /\ rows \in [Runs -> Row]
  /\ yen \in Nat /\ progress \in Nat /\ revision \in Nat
  /\ active \subseteq Runs
  /\ session \in [Runs -> Session]
  /\ elsewhere \in Nat /\ missed \subseteq Conns /\ crashes \in Nat

Committed == {r \in Runs : rows[r].status \in {"completed", "passed"}}
Recorded(e) ==
  {p \in Runs \X (1 .. MaxEffects) :
     p[2] \in DOMAIN rows[p[1]].effects /\ rows[p[1]].effects[p[2]] = e}

\* The effects recorded for runs that completed or passed, and those only, have
\* been applied once: not twice by two goroutines, not after the run expired,
\* was cancelled or failed, not again after a restart; and nothing is paid that
\* the character does not have, whoever spends in the meantime.
EffectsOnce ==
  /\ \A r \in Runs \ Committed : rows[r].effects = <<>>
  /\ progress = Cardinality(Recorded("increment"))
  /\ yen + elsewhere + Cardinality(Recorded("spend")) = InitYen
  /\ yen >= 0

\* The story state a run started from is still the character's: what its
\* queries of it have answered remains true until its effects are committed,
\* and ErrRevisionConflict never occurs.  The revision does not guard the yen
\* and the items of the snapshot, which other parts of the server change.
StoryIsFresh ==
  \A r \in Runs : rows[r].status = "active" => rows[r].revision = revision

\* The engine holds no session, and no Yarn process runs, but for a call that
\* is being handled, a connection that plays, one whose run is about to be
\* cancelled, or one that was still starting the event when it left (Yield
\* then remembers a run that nobody ends).  A run that was shown is never left
\* behind, whatever its connection's two goroutines do at once.
SessionIsOwned ==
  \A r \in Runs : r \in active \/ session[r].open =>
    \/ \E t \in Threads : work[t].run = r
    \/ \E c \in Conns : scriptRun[c] = r /\
         (conn[c] = "in" \/ work[<<c, "leave">>].at = "cancel" \/ c \in missed)

\* Of these, some call or connection knows the run.
SessionIsKnown ==
  \A r \in Runs : r \in active \/ session[r].open =>
    \/ \E c \in Conns : scriptRun[c] = r
    \/ \E t \in Threads : work[t].run = r

\* The rest of them have no run, and will not get one.
OthersAreClean ==
  \A c \in Conns :
    \/ conn[c] = "in" \/ work[<<c, "leave">>].at = "cancel" \/ c \in missed
    \/ scriptRun[c] = NoRun /\ work[<<c, "read">>].call # "start"

\* Runs are numbered without a gap, each of a version, one at a time is active,
\* and a session stages no more than it may.
RowsAreInOrder ==
  /\ Inserted = 1 .. NumberOfRuns
  /\ \A r, q \in Runs :
       rows[r].status = "active" /\ rows[q].status = "active" => r = q
  /\ \A r \in Inserted : rows[r].version \in Versions
  /\ \A r \in Runs : Len(session[r].staged) <= MaxEffects

\* What a goroutine does, and for which run, at each step of its calls: the
\* reader starts, advances and stops, and the other goroutine cancels.
CallsAreInOrder ==
  /\ \A t \in Threads :
       LET w == work[t]
       IN /\ w.at \in {"idle", "resolve", "cancel", "done"} <=> w.run = NoRun
          /\ w.run # NoRun => w.run \in Inserted
          /\ w.at \in {"idle", "done"} <=> w.call = "none"
          /\ w.at \in {"resolve", "launch"} => w.call = "start"
          /\ t[2] = "read" => w.call # "cancel" /\ w.at # "cancel"
          /\ t[2] = "leave" => w.call \in {"none", "cancel"}
  /\ \A c \in Conns :
       /\ conn[c] # "out" => work[<<c, "leave">>].at = "idle"
       /\ scriptRun[c] # NoRun => scriptRun[c] \in Inserted
       /\ work[<<c, "read">>].call = "start" => scriptRun[c] = NoRun

\* A run belongs to one connection, and to nobody before its process runs.
RunsAreOwn ==
  /\ \A t, u \in Threads : work[t].run # NoRun /\ work[t].run = work[u].run =>
       /\ t[1] = u[1]
       /\ work[t].at = "launch" => t = u
  /\ \A c, d \in Conns : scriptRun[c] # NoRun /\ scriptRun[c] = scriptRun[d] => c = d
  /\ \A c \in Conns, t \in Threads : scriptRun[c] # NoRun /\ work[t].run = scriptRun[c] =>
       t[1] = c /\ work[t].at # "launch"

\* The engine's map and the processes go together; a run its connection
\* remembers has been shown; and while an answer is handled, the connection or
\* the goroutine that unregisters it keeps the run.
SessionsAreKept ==
  /\ \A r \in Runs : r \in active <=> session[r].open
  /\ \A t \in Threads : work[t].at = "launch" => work[t].run \notin active
  /\ \A c \in Conns : scriptRun[c] \in active => session[scriptRun[c]].visible
  /\ \A t \in Threads :
       work[t].call \in {"advance", "stop"} /\ work[t].run # NoRun =>
         /\ scriptRun[t[1]] \in {work[t].run, NoRun}
         /\ work[t].run \in active =>
              /\ session[work[t].run].visible
              /\ \/ scriptRun[t[1]] = work[t].run
                 \/ work[<<t[1], "leave">>].run = work[t].run

IInv ==
  /\ TypeOK
  /\ EffectsOnce
  /\ StoryIsFresh
  /\ SessionIsKnown
  /\ OthersAreClean
  /\ RowsAreInOrder
  /\ CallsAreInOrder
  /\ RunsAreOwn
  /\ SessionsAreKept

=============================================================================
