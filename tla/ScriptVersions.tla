--------------------------- MODULE ScriptVersions ---------------------------
(***************************************************************************)
(* The repository of scripts (internal/store/scripts.go,                   *)
(* script_rollbacks.go, official_scripts.go): drafts, review, publication, *)
(* rollback, import of official scripts and archival, as transactions of   *)
(* PostgreSQL at READ COMMITTED that several requests run at once.         *)
(*                                                                         *)
(* A statement sees what is committed when it begins, and an UPDATE waits  *)
(* for the transaction that has changed the same row.  The variables hold  *)
(* what is committed; req[p] holds what request p has changed and will     *)
(* commit, and so the locks it holds.  A transaction that takes the lock   *)
(* it needs first, or has one statement, is one action.                    *)
(***************************************************************************)
EXTENDS Naturals, FiniteSets

CONSTANTS
  Scripts,
  Sources,      \* Yarn sources with their triggers
  Valid,        \* those that compile
  NoSource,
  Requests,     \* goroutines of the HTTP server, and the import tool
  MaxVersions,  \* bound of the versions of a script
  MaxRevision   \* bound of the saves of a draft

ASSUME ConstantsAssumption ==
  /\ Scripts # {}
  /\ NoSource \notin Sources
  /\ Valid \subseteq Sources
  /\ MaxVersions \in Nat \ {0}
  /\ MaxRevision \in Nat \ {0}

Numbers == 1 .. MaxVersions
None == 0

VARIABLES
  origin,    \* scripts.origin, or "none" if there is no such script
  archived,  \* scripts.archived_at is set
  current,   \* scripts.current_published_version_id
  rows,      \* script_versions, with script_version_triggers
  req,       \* what each request is doing
  reviewed   \* ghost: sources submitted for review, or trusted

vars == <<origin, archived, current, rows, req, reviewed>>

-----------------------------------------------------------------------------
(* State *)

Statuses == {"none", "draft", "review", "published", "superseded"}

\* The program is compiled from the source when that is saved; "triggers" is
\* the source whose triggers are indexed.
Version == [status : Statuses, source : Sources \cup {NoSource},
            triggers : Sources \cup {NoSource}, revision : Nat]
NoVersion == [status |-> "none", source |-> NoSource, triggers |-> NoSource,
              revision |-> 0]

\* "base" is the current version, or the draft's revision, that the request
\* has read; "seen" what its author saw; "held" is that base is superseded by
\* this transaction.
Request ==
  [at : {"idle", "publish", "supersede", "promote", "point",
         "rollback", "import", "replace", "save", "saved", "copy"},
   script : Scripts, version : 0 .. MaxVersions, base : Nat,
   source : Sources \cup {NoSource}, seen : Sources \cup {NoSource}, held : BOOLEAN]
Idle(s) == [at |-> "idle", script |-> s, version |-> None, base |-> 0,
            source |-> NoSource, seen |-> NoSource, held |-> FALSE]
AnyScript == CHOOSE s \in Scripts : TRUE

Init ==
  /\ origin = [s \in Scripts |-> "none"]
  /\ archived = [s \in Scripts |-> FALSE]
  /\ current = [s \in Scripts |-> None]
  /\ rows = [s \in Scripts |-> [n \in Numbers |-> NoVersion]]
  /\ req = [p \in Requests |-> Idle(AnyScript)]
  /\ reviewed = [s \in Scripts |-> {}]

Existing(s) == {n \in Numbers : rows[s][n].status # "none"}
NextVersion(s) == Cardinality(Existing(s)) + 1

Begin(p, r) == req[p].at = "idle" /\ req' = [req EXCEPT ![p] = r]
Continue(p, r) == req' = [req EXCEPT ![p] = r]
\* The request is over: its locks are released and what it had not committed
\* is forgotten.
End(p) == req' = [req EXCEPT ![p] = Idle(AnyScript)]

-----------------------------------------------------------------------------
(* Row locks *)

\* The versions the transaction of request r has changed.
Changed(r) ==
  {n \in Numbers :
     \/ r.at \in {"promote", "point"} /\ r.held /\ n = r.base
     \/ r.at \in {"point", "saved"} /\ n = r.version}

VersionFree(p, s, n) ==
  \A q \in Requests \ {p} : req[q].script = s => n \notin Changed(req[q])

\* SELECT ... FOR UPDATE on the row of the script.
HoldsScript(r) == r.at \in {"replace", "copy"}

ScriptFree(s) == \A q \in Requests : req[q].script = s => ~HoldsScript(req[q])

-----------------------------------------------------------------------------
(* Drafts *)

Draft(c) == [status |-> "draft", source |-> c, triggers |-> c, revision |-> 1]

CreateYarnScript(s, c) ==
  /\ origin[s] = "none"
  /\ ScriptFree(s)
  /\ origin' = [origin EXCEPT ![s] = "community"]
  /\ rows' = [rows EXCEPT ![s] = [rows[s] EXCEPT ![1] = Draft(c)]]
  /\ UNCHANGED <<archived, current, req, reviewed>>

\* SaveYarnScriptDraft: the source is compiled before the transaction.  (Here
\* and below, no request is begun whose refusal is certain already: a version
\* never becomes a draft again, and a community script never official.)
SaveRequest(p, s, n, c) ==
  /\ rows[s][n].status = "draft"
  /\ rows[s][n].revision < MaxRevision
  /\ Begin(p, [Idle(s) EXCEPT !.at = "save", !.version = n, !.source = c,
                 !.base = rows[s][n].revision, !.seen = rows[s][n].source])
  /\ UNCHANGED <<origin, archived, current, rows, reviewed>>

BlindSaveMutant(s, n, revision) == rows[s][n].status = "draft" /\ ~archived[s]
MaySave(s, n, revision) ==
  /\ rows[s][n].status = "draft"
  /\ rows[s][n].revision = revision
  /\ ~archived[s]

UpdateDraft(p) ==
  LET r == req[p]
  IN /\ r.at = "save"
     /\ VersionFree(p, r.script, r.version)
     /\ IF MaySave(r.script, r.version, r.base)
        THEN Continue(p, [r EXCEPT !.at = "saved"]) ELSE End(p)
     /\ UNCHANGED <<origin, archived, current, rows, reviewed>>

\* UPDATE scripts SET updated_at, and the commit.
UntouchedScriptMutant(s) == TRUE
ScriptTouchable(s) == ScriptFree(s)

CommitDraft(p) ==
  LET r == req[p]
  IN /\ r.at = "saved"
     /\ ScriptTouchable(r.script)
     /\ rows' = [rows EXCEPT ![r.script] = [rows[r.script] EXCEPT ![r.version] =
          [status |-> "draft", source |-> r.source, triggers |-> r.source,
           revision |-> rows[r.script][r.version].revision + 1]]]
     /\ End(p)
     /\ UNCHANGED <<origin, archived, current, reviewed>>

\* CreateScriptVersion holds the lock of the script.  It copies the source of
\* a version, and in a later statement the indexes of that version.
CopySource(p, s, n) ==
  /\ n \in Existing(s)
  /\ ScriptFree(s)
  /\ ~archived[s]
  /\ NextVersion(s) \in Numbers
  /\ Begin(p, [Idle(s) EXCEPT !.at = "copy", !.version = n,
                              !.source = rows[s][n].source])
  /\ UNCHANGED <<origin, archived, current, rows, reviewed>>

CopyIndexes(p) ==
  LET r == req[p]
  IN /\ r.at = "copy"
     /\ rows' = [rows EXCEPT ![r.script] =
          [rows[r.script] EXCEPT ![NextVersion(r.script)] =
             [Draft(r.source) EXCEPT !.triggers = rows[r.script][r.version].triggers]]]
     /\ End(p)
     /\ UNCHANGED <<origin, archived, current, reviewed>>

-----------------------------------------------------------------------------
(* Review and publication *)

UncompiledMutant(s, n) == rows[s][n].status = "draft" /\ ~archived[s]
MaySubmit(s, n) ==
  /\ rows[s][n].status = "draft"
  /\ rows[s][n].source \in Valid
  /\ ~archived[s]

WithStatus(s, n, status) ==
  [rows EXCEPT ![s] = [rows[s] EXCEPT ![n] = [rows[s][n] EXCEPT !.status = status]]]

\* The moderation event of a community script refers to the script and waits
\* for its lock.
SubmitScriptVersion(s, n) ==
  /\ \A p \in Requests : req[p].script = s => n \notin Changed(req[p])
  /\ origin[s] = "community" => ScriptFree(s)
  /\ MaySubmit(s, n)
  /\ rows' = WithStatus(s, n, "review")
  /\ reviewed' = [reviewed EXCEPT ![s] = reviewed[s] \cup {rows[s][n].source}]
  /\ UNCHANGED <<origin, archived, current, req>>

\* PublishScriptVersion looks at the program before its transaction, when the
\* version may not be in review yet.
PublishRequest(p, s, n) ==
  /\ rows[s][n].source \in Valid
  /\ rows[s][n].status \in {"draft", "review"}
  /\ Begin(p, [Idle(s) EXCEPT !.at = "publish", !.version = n])
  /\ UNCHANGED <<origin, archived, current, rows, reviewed>>

\* Its first UPDATE reads the current version when it begins,
ReadCurrent(p) ==
  /\ req[p].at = "publish"
  /\ Continue(p, [req[p] EXCEPT !.at = "supersede", !.base = current[req[p].script]])
  /\ UNCHANGED <<origin, archived, current, rows, reviewed>>

\* and may wait for that row before it looks at the status.
Supersede(p) ==
  LET r == req[p]
      published == r.base # None /\ rows[r.script][r.base].status = "published"
  IN /\ r.at = "supersede"
     /\ r.base # None => VersionFree(p, r.script, r.base)
     /\ IF published /\ archived[r.script] THEN End(p)
        ELSE Continue(p, [r EXCEPT !.at = "promote", !.held = published])
     /\ UNCHANGED <<origin, archived, current, rows, reviewed>>

MayPromote(s, n) == rows[s][n].status = "review" /\ ~archived[s]

Promote(p) ==
  LET r == req[p]
  IN /\ r.at = "promote"
     /\ VersionFree(p, r.script, r.version)
     /\ IF MayPromote(r.script, r.version)
        THEN Continue(p, [r EXCEPT !.at = "point"]) ELSE End(p)
     /\ UNCHANGED <<origin, archived, current, rows, reviewed>>

PointCurrent(p) ==
  LET r == req[p]
  IN /\ r.at = "point"
     /\ ScriptFree(r.script)
     /\ rows' = [rows EXCEPT ![r.script] = [n \in Numbers |->
          IF n = r.version THEN [rows[r.script][n] EXCEPT !.status = "published"]
          ELSE IF r.held /\ n = r.base
          THEN [rows[r.script][n] EXCEPT !.status = "superseded"]
          ELSE rows[r.script][n]]]
     /\ current' = [current EXCEPT ![r.script] = r.version]
     /\ End(p)
     /\ UNCHANGED <<origin, archived, reviewed>>

-----------------------------------------------------------------------------
(* Rollback and import *)

\* RollbackScriptVersion compiles the old source, with the triggers indexed for
\* it, before its transaction.
MayRollBackTo(s, n) ==
  rows[s][n].status = "superseded" /\ rows[s][n].source \in Valid

RollbackRequest(p, s, n) ==
  /\ origin[s] = "community" /\ ~archived[s]
  /\ current[s] \notin {None, n}
  /\ MayRollBackTo(s, n)
  /\ Begin(p, [Idle(s) EXCEPT !.at = "rollback", !.version = n,
                 !.base = current[s], !.source = rows[s][n].source])
  /\ UNCHANGED <<origin, archived, current, rows, reviewed>>

\* SELECT ... FOR UPDATE, and what has been read is looked at again.
LockForRollback(p) ==
  LET r == req[p]
  IN /\ r.at = "rollback"
     /\ ScriptFree(r.script)
     /\ VersionFree(p, r.script, r.version)
     /\ IF /\ ~archived[r.script]
           /\ current[r.script] = r.base
           /\ MayRollBackTo(r.script, r.version)
        THEN Continue(p, [r EXCEPT !.at = "replace"]) ELSE End(p)
     /\ UNCHANGED <<origin, archived, current, rows, reviewed>>

ImportRequest(p, s, c) ==
  /\ c \in Valid
  /\ origin[s] # "community"
  /\ Begin(p, [Idle(s) EXCEPT !.at = "import", !.source = c])
  /\ UNCHANGED <<origin, archived, current, rows, reviewed>>

\* Nothing happens if the current version has this source.
LockForImport(p) ==
  LET r == req[p]
      v == current[r.script]
  IN /\ r.at = "import"
     /\ ScriptFree(r.script)
     /\ IF \/ origin[r.script] = "community"
           \/ v # None /\ rows[r.script][v].source = r.source
        THEN End(p)
        ELSE Continue(p, [r EXCEPT !.at = "replace", !.base = v])
     /\ UNCHANGED <<origin, archived, current, rows, reviewed>>

\* Both insert a version, supersede the current one, which may be locked by a
\* publication, and publish theirs.  Only the rollback insists on superseding.
Replacement(r) ==
  [Draft(r.source) EXCEPT !.status = "published",
     !.triggers = IF r.version = None THEN r.source
                  ELSE rows[r.script][r.version].triggers]

Replaceable(r) ==
  r.base # None => rows[r.script][r.base].status = "published"

Replace(p) ==
  LET r == req[p]
      next == NextVersion(r.script)
      rollback == r.version # None
  IN /\ r.at = "replace"
     /\ r.base # None => VersionFree(p, r.script, r.base)
     /\ next \in Numbers
     /\ IF rollback /\ ~Replaceable(r)
        THEN UNCHANGED <<origin, current, rows, reviewed>>
        ELSE /\ rows' = [rows EXCEPT ![r.script] = [n \in Numbers |->
                  IF n = next
                  THEN Replacement(r)
                  ELSE IF n = r.base /\ Replaceable(r)
                  THEN [rows[r.script][n] EXCEPT !.status = "superseded"]
                  ELSE rows[r.script][n]]]
             /\ current' = [current EXCEPT ![r.script] = next]
             /\ origin' = [origin EXCEPT ![r.script] =
                             IF rollback THEN origin[r.script] ELSE "official"]
             /\ reviewed' = [reviewed EXCEPT ![r.script] =
                  IF rollback THEN reviewed[r.script]
                  ELSE reviewed[r.script] \cup {r.source}]
     /\ End(p)
     /\ UNCHANGED archived

-----------------------------------------------------------------------------
(* Archival and failure *)

SetScriptArchived(s, a) ==
  /\ origin[s] = "community"
  /\ ScriptFree(s)
  /\ archived' = [archived EXCEPT ![s] = a]
  /\ UNCHANGED <<origin, current, rows, req, reviewed>>

\* A transaction that is the victim of a deadlock, whose context ends or whose
\* connection fails is rolled back.
Abort(p) ==
  /\ req[p].at # "idle"
  /\ End(p)
  /\ UNCHANGED <<origin, archived, current, rows, reviewed>>

(* The requests of the HTTP handlers, for a registered account. *)

Collection(s) == \E c \in Sources : CreateYarnScript(s, c)

CreateVersion(p, s) == \E n \in Numbers : CopySource(p, s, n)

\* PUT, and POST with an action.
VersionHandler(p, s, n) ==
  \/ \E c \in Sources : SaveRequest(p, s, n, c)
  \/ SubmitScriptVersion(s, n)
  \/ PublishRequest(p, s, n)
  \/ RollbackRequest(p, s, n)

\* DELETE and restore.
SetArchivedHandler(s) == \E a \in BOOLEAN : SetScriptArchived(s, a)

ServeHTTP(p, s) ==
  \/ Collection(s)
  \/ CreateVersion(p, s)
  \/ \E n \in Numbers : VersionHandler(p, s, n)
  \/ SetArchivedHandler(s)

Next ==
  \E p \in Requests :
    \/ \E s \in Scripts :
         ServeHTTP(p, s) \/ \E c \in Sources : ImportRequest(p, s, c)
    \/ UpdateDraft(p) \/ CommitDraft(p) \/ CopyIndexes(p)
    \/ ReadCurrent(p) \/ Supersede(p) \/ Promote(p) \/ PointCurrent(p)
    \/ LockForRollback(p) \/ LockForImport(p) \/ Replace(p) \/ Abort(p)

Spec == Init /\ [][Next]_vars

-----------------------------------------------------------------------------
(* Properties *)

\* The versions of a script are numbered from one without a gap.
NumberedFromOne == \A s \in Scripts : Existing(s) = 1 .. Cardinality(Existing(s))

TypeOK ==
  /\ origin \in [Scripts -> {"none", "community", "official"}]
  /\ archived \in [Scripts -> BOOLEAN]
  /\ current \in [Scripts -> 0 .. MaxVersions]
  /\ rows \in [Scripts -> [Numbers -> Version]]
  /\ NumberedFromOne
  /\ req \in [Requests -> Request]
  /\ reviewed \in [Scripts -> SUBSET Sources]

\* What a script serves is a version that is published, not one that another
\* publication or rollback has superseded, that compiles, and whose source has
\* been submitted for review or is trusted.
ServedIsReviewed ==
  \A s \in Scripts : current[s] # None =>
    LET v == rows[s][current[s]]
    IN v.status = "published" /\ v.source \in Valid \cap reviewed[s]

\* The triggers indexed for a version are those of its source, though
\* CreateScriptVersion reads them after the source, and a draft may be saved
\* in between.
IndexesMatch ==
  \A s \in Scripts : \A n \in Existing(s) : rows[s][n].triggers = rows[s][n].source

\* An author replaces only what that author has seen: of two who edit the same
\* draft the second to save is refused.
EditsAreSeen ==
  [][\A p \in Requests :
       req[p].at = "saved" /\ req'[p].at = "idle" /\ rows' # rows =>
         rows[req[p].script][req[p].version].source = req[p].seen]_vars

\* A version's life: its source and triggers change only while it is a draft,
\* and never without a new revision; it is never deleted, never a draft again,
\* and a superseded version stays what it was.
Succeeds(old, new) ==
  /\ old.status # "none" => new.status # "none"
  /\ old.status \notin {"none", "draft"} =>
       /\ new.status # "draft"
       /\ new.source = old.source /\ new.triggers = old.triggers
  /\ old.status = "draft" /\ new.status = "draft" =>
       \/ new.revision > old.revision
       \/ new = old
  /\ old.status = "superseded" => new = old

VersionsAreKept ==
  [][\A s \in Scripts, n \in Numbers : Succeeds(rows[s][n], rows'[s][n])]_vars

\* The inductive invariant: what is past its draft has been reviewed,
ReviewedBeforeUse ==
  \A s \in Scripts, n \in Numbers :
    rows[s][n].status \in {"review", "published", "superseded"} =>
      rows[s][n].source \in Valid \cap reviewed[s]

CurrentIsPublished ==
  \A s \in Scripts : current[s] # None => rows[s][current[s]].status = "published"

NoScriptNoVersions == \A s \in Scripts : origin[s] = "none" => Existing(s) = {}

\* the row locks exclude one another,
LocksAreExclusive ==
  \A p, q \in Requests : p # q /\ req[p].script = req[q].script =>
    /\ Changed(req[p]) \cap Changed(req[q]) = {}
    /\ ~(HoldsScript(req[p]) /\ HoldsScript(req[q]))

\* and what a request has read is still so where its lock, or the version's
\* status, protects it.
ReadIsStillSo(r) ==
  LET row == rows[r.script][r.version]
  IN /\ r.at \in {"save", "saved", "copy", "publish", "supersede", "promote",
                   "point", "rollback"} => r.version \in Numbers
     /\ r.at \in {"supersede", "promote", "point", "replace"} =>
          r.base \in 0 .. MaxVersions
     /\ r.at = "save" =>
          /\ row.status # "none"
          /\ row.status = "draft" =>
               /\ row.revision >= r.base
               /\ row.revision = r.base => row.source = r.seen
     /\ r.at = "saved" => row.status = "draft" /\ row.source = r.seen
     /\ r.at = "copy" => row.status # "none" /\ row.source = r.source
     /\ r.at = "point" => row.status = "review"
     /\ r.at \in {"promote", "point"} /\ r.held =>
          r.base # None /\ rows[r.script][r.base].status = "published"
     /\ r.at \in {"rollback", "replace"} /\ r.version # None =>
          row.status = "superseded" /\ row.source = r.source
     /\ r.at \in {"import", "replace"} /\ r.version = None => r.source \in Valid
     /\ r.at = "import" => r.version = None

IInv ==
  /\ TypeOK
  /\ ReviewedBeforeUse
  /\ CurrentIsPublished
  /\ NoScriptNoVersions
  /\ IndexesMatch
  /\ LocksAreExclusive
  /\ \A p \in Requests : ReadIsStillSo(req[p])

=============================================================================
