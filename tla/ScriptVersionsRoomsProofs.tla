--------------------- MODULE ScriptVersionsRoomsProofs ----------------------
(***************************************************************************)
(* Proofs about ScriptVersions.tla, for any number of scripts, sources,    *)
(* versions and requests at once, and about Rooms.tla, for any number of   *)
(* connections and worlds.  The two components share no state; each has a  *)
(* part of its own here.                                                   *)
(*                                                                         *)
(* The versions: the argument is the one made about row locks: what a      *)
(* request has read stays so as long as its locks, or the life of a        *)
(* version (Succeeds), protect it, whatever the other requests commit in   *)
(* between.  StaysTrue states it once for all steps, Commit and            *)
(* RequestStep apply it to the steps that change rows and to the others.   *)
(*                                                                         *)
(* The rooms: between two players what one has heard of the other and what *)
(* the other's goroutines have still to send make up one account (Agreed). *)
(* A handler changes both sides of it in one step under Hub.mu, a delivery *)
(* moves it from one side to the other, and Compose leaves of a handler    *)
(* only the pairs that its own player is of.                               *)
(***************************************************************************)
EXTENDS ScriptVersions, Rooms, FiniteSetTheorems, TLAPS

-----------------------------------------------------------------------------
(* Part one: ScriptVersions *)

-----------------------------------------------------------------------------
(* Versions and their numbers *)

LEMMA RowFields ==
  ASSUME TypeOK, NEW s \in Scripts, NEW n \in Numbers
  PROVE  /\ rows[s][n] \in Version
         /\ rows[s][n].status \in Statuses
         /\ rows[s][n].source \in Sources \cup {NoSource}
         /\ rows[s][n].triggers \in Sources \cup {NoSource}
         /\ rows[s][n].revision \in Nat
BY DEF TypeOK, Version

LEMMA RequestFields ==
  ASSUME TypeOK, NEW p \in Requests
  PROVE  /\ req[p] \in Request /\ req[p].script \in Scripts
         /\ req[p].version \in 0 .. MaxVersions /\ req[p].base \in Nat
         /\ req[p].source \in Sources \cup {NoSource}
         /\ req[p].seen \in Sources \cup {NoSource}
         /\ req[p].held \in BOOLEAN
BY DEF TypeOK, Request

LEMMA IdleFacts ==
  /\ AnyScript \in Scripts
  /\ \A s \in Scripts :
       /\ Idle(s) \in Request
       /\ Idle(s).at = "idle" /\ Idle(s).script = s /\ Idle(s).version = None
       /\ Idle(s).base = 0 /\ Idle(s).held = FALSE
       /\ Changed(Idle(s)) = {} /\ ~HoldsScript(Idle(s))
       /\ ReadIsStillSo(Idle(s))
<1>1. AnyScript \in Scripts
  BY ConstantsAssumption DEF AnyScript
<1>2. ASSUME NEW s \in Scripts
      PROVE  /\ Idle(s) \in Request
             /\ Idle(s).at = "idle" /\ Idle(s).script = s /\ Idle(s).version = None
             /\ Idle(s).base = 0 /\ Idle(s).held = FALSE
  BY ConstantsAssumption DEF Idle, Request, None
<1>3. ASSUME NEW s \in Scripts
      PROVE  Changed(Idle(s)) = {} /\ ~HoldsScript(Idle(s)) /\ ReadIsStillSo(Idle(s))
  BY <1>2 DEF Changed, HoldsScript, ReadIsStillSo
<1> QED
  BY <1>1, <1>2, <1>3

\* The next number is free, because the versions are numbered from one.
LEMMA NextIsFree ==
  ASSUME TypeOK, NEW s \in Scripts
  PROVE  /\ NextVersion(s) \in Nat \ {0}
         /\ NextVersion(s) \notin Existing(s)
         /\ IsFiniteSet(Existing(s))
<1>1. IsFiniteSet(Existing(s))
  <2>1. MaxVersions \in Int /\ 1 \in Int
    BY ConstantsAssumption
  <2>2. IsFiniteSet(Numbers)
    BY <2>1, FS_Interval DEF Numbers
  <2>3. Existing(s) \in SUBSET Numbers
    BY DEF Existing
  <2> QED
    BY <2>2, <2>3, FS_Subset
<1>2. Cardinality(Existing(s)) \in Nat
  BY <1>1, FS_CardinalityType
<1>3. Existing(s) = 1 .. Cardinality(Existing(s))
  BY DEF TypeOK, NumberedFromOne
<1>4. NextVersion(s) \in Nat \ {0} /\ NextVersion(s) \notin 1 .. Cardinality(Existing(s))
  BY <1>2 DEF NextVersion
<1> QED
  BY <1>1, <1>3, <1>4

LEMMA NumbersStay ==
  ASSUME TypeOK, NEW s \in Scripts,
         Existing(s)' = Existing(s) \/ Existing(s)' = Existing(s) \cup {NextVersion(s)}
  PROVE  Existing(s)' = 1 .. Cardinality(Existing(s)')
<1>1. Existing(s) = 1 .. Cardinality(Existing(s))
  BY DEF TypeOK, NumberedFromOne
<1>2. CASE Existing(s)' = Existing(s)
  BY <1>1, <1>2
<1>3. CASE Existing(s)' = Existing(s) \cup {NextVersion(s)}
  <2>1. Cardinality(Existing(s)) \in Nat
    BY NextIsFree, FS_CardinalityType
  <2>2. Cardinality(Existing(s)') = Cardinality(Existing(s)) + 1
    BY <1>3, NextIsFree, FS_AddElement
  <2>3. Existing(s)' = 1 .. (Cardinality(Existing(s)) + 1)
    BY <1>1, <1>3, <2>1 DEF NextVersion
  <2> QED
    BY <2>2, <2>3
<1> QED
  BY <1>2, <1>3

-----------------------------------------------------------------------------
(* What a request has read stays so *)

LEMMA StaysTrue ==
  ASSUME TypeOK, TypeOK', NEW r \in Request, ReadIsStillSo(r),
         \A n \in Numbers : Succeeds(rows[r.script][n], rows'[r.script][n]),
         \A n \in Changed(r) : rows'[r.script][n] = rows[r.script][n],
         r.at = "copy" => \A n \in Existing(r.script) :
                            rows'[r.script][n].source = rows[r.script][n].source
  PROVE  ReadIsStillSo(r)'
<1> DEFINE old == rows[r.script][r.version]
           new == rows'[r.script][r.version]
<1>1. r.script \in Scripts /\ r.base \in Nat
  BY DEF Request
<1>2. ASSUME r.version \in Numbers
      PROVE  /\ old.revision \in Nat /\ new.revision \in Nat
             /\ old.status \in Statuses /\ new.status \in Statuses
             /\ Succeeds(old, new)
  BY <1>1, <1>2, RowFields DEF TypeOK, Version
<1>3. CASE r.at = "save"
  BY <1>1, <1>2, <1>3 DEF ReadIsStillSo, Succeeds
<1>4. CASE r.at = "saved"
  <2>1. r.version \in Changed(r)
    BY <1>4 DEF ReadIsStillSo, Changed
  <2> QED
    BY <2>1, <1>4 DEF ReadIsStillSo
<1>5. CASE r.at = "copy"
  <2>1. r.version \in Existing(r.script)
    BY <1>5 DEF ReadIsStillSo, Existing
  <2> QED
    BY <2>1, <1>2, <1>5 DEF ReadIsStillSo, Succeeds
<1>6. CASE r.at \in {"promote", "point"}
  <2>1. r.held => r.base \in Changed(r)
    BY <1>6 DEF ReadIsStillSo, Changed, Numbers, None
  <2>2. r.at = "point" => r.version \in Changed(r)
    BY <1>6 DEF ReadIsStillSo, Changed
  <2> QED
    BY <2>1, <2>2, <1>6 DEF ReadIsStillSo
<1>7. CASE r.at \in {"rollback", "replace"}
  <2>1. r.version # None => r.version \in Numbers
    BY DEF Request, None, Numbers
  <2>2. r.version # None => new = old
    BY <2>1, <1>2, <1>7 DEF ReadIsStillSo, Succeeds
  <2> QED
    BY <2>2, <1>7 DEF ReadIsStillSo
<1>8. CASE r.at \in {"idle", "publish", "supersede", "import"}
  BY <1>8 DEF ReadIsStillSo
<1> QED
  BY <1>3, <1>4, <1>5, <1>6, <1>7, <1>8 DEF Request

\* A step that changes no row, and gives request p the record r.
LEMMA RequestStep ==
  ASSUME IInv, NEW p \in Requests, NEW r \in Request,
         UNCHANGED <<origin, current, rows, reviewed>>,
         archived' \in [Scripts -> BOOLEAN],
         req' = [req EXCEPT ![p] = r],
         ReadIsStillSo(r),
         \A q \in Requests \ {p} : req[q].script = r.script =>
           /\ Changed(r) \cap Changed(req[q]) = {}
           /\ ~(HoldsScript(r) /\ HoldsScript(req[q]))
  PROVE  IInv'
<1>1. \A q \in Requests : req'[q] = IF q = p THEN r ELSE req[q]
  BY DEF IInv, TypeOK
<1>2. \A s \in Scripts : Existing(s)' = Existing(s)
  BY DEF Existing
<1>3. NumberedFromOne'
  BY <1>2, NumbersStay DEF NumberedFromOne, IInv
<1>4. req' \in [Requests -> Request]
  BY DEF IInv, TypeOK
<1>5. TypeOK'
  BY <1>3, <1>4 DEF IInv, TypeOK
<1>6. ReviewedBeforeUse' /\ CurrentIsPublished' /\ NoScriptNoVersions' /\ IndexesMatch'
  BY <1>2
  DEF IInv, ReviewedBeforeUse, CurrentIsPublished, NoScriptNoVersions, IndexesMatch
<1>7. LocksAreExclusive'
  <2> SUFFICES ASSUME NEW x \in Requests, NEW y \in Requests, x # y,
                      req'[x].script = req'[y].script
               PROVE  /\ Changed(req'[x]) \cap Changed(req'[y]) = {}
                      /\ ~(HoldsScript(req'[x]) /\ HoldsScript(req'[y]))
    BY DEF LocksAreExclusive
  <2>1. CASE x = p
    BY <2>1, <1>1
  <2>2. CASE y = p
    BY <2>2, <1>1
  <2>3. CASE x # p /\ y # p
    BY <2>3, <1>1 DEF IInv, LocksAreExclusive
  <2> QED
    BY <2>1, <2>2, <2>3
<1>8. ASSUME NEW q \in Requests PROVE ReadIsStillSo(req[q])'
  <2>1. ReadIsStillSo(req[q]) /\ ReadIsStillSo(r)
    BY DEF IInv
  <2>2. \A x \in Request : ReadIsStillSo(x) => ReadIsStillSo(x)'
    BY DEF ReadIsStillSo
  <2>3. req'[q] \in Request /\ ReadIsStillSo(req'[q])
    BY <2>1, <1>1, <1>4
  <2> QED
    BY <2>2, <2>3 DEF ReadIsStillSo
<1> QED
  BY <1>5, <1>6, <1>7, <1>8 DEF IInv

\* What a step that changes rows of script s must leave alone: the rows others
\* have changed, and the sources while another copies a version.
Undisturbed(s, q) ==
  req[q].script = s =>
    /\ \A n \in Changed(req[q]) : rows'[s][n] = rows[s][n]
    /\ req[q].at = "copy" =>
         \A n \in Existing(s) : rows'[s][n].source = rows[s][n].source

\* A row that may be committed when R has been reviewed.
RightRow(v, R) ==
  /\ v.triggers = v.source
  /\ v.status \in {"review", "published", "superseded"} => v.source \in Valid \cap R

LEMMA SucceedsItself ==
  ASSUME NEW v, v.revision \in Nat
  PROVE  Succeeds(v, v)
BY DEF Succeeds

\* What VersionsAreKept asks of a step.
Kept == \A s \in Scripts, n \in Numbers : Succeeds(rows[s][n], rows'[s][n])

LEMMA SameRows ==
  ASSUME TypeOK, UNCHANGED rows
  PROVE  Kept
BY RowFields, SucceedsItself DEF Kept

\* A step that changes rows of script s, and ends a request or none.
LEMMA Commit ==
  ASSUME IInv, NEW s \in Scripts,
         origin' \in [Scripts -> {"none", "community", "official"}],
         current' \in [Scripts -> 0 .. MaxVersions],
         rows' \in [Scripts -> [Numbers -> Version]],
         reviewed' \in [Scripts -> SUBSET Sources],
         UNCHANGED archived,
         \A t \in Scripts \ {s} : /\ origin'[t] = origin[t] /\ current'[t] = current[t]
                                  /\ rows'[t] = rows[t] /\ reviewed'[t] = reviewed[t],
         origin'[s] # "none",
         current'[s] # None => rows'[s][current'[s]].status = "published",
         reviewed[s] \subseteq reviewed'[s],
         \A n \in Numbers : Succeeds(rows[s][n], rows'[s][n]),
         \A n \in Numbers : rows'[s][n] = rows[s][n] \/ RightRow(rows'[s][n], reviewed'[s]),
         Existing(s)' = Existing(s) \/ Existing(s)' = Existing(s) \cup {NextVersion(s)},
         req' \in [Requests -> Request],
         \A q \in Requests : req'[q] = req[q] \/ req'[q] = Idle(AnyScript),
         \A q \in Requests : req'[q] = req[q] => Undisturbed(s, q) \/ req[q] = Idle(AnyScript)
  PROVE  IInv' /\ Kept
<1>1. \A t \in Scripts \ {s} : Existing(t)' = Existing(t)
  BY DEF Existing
<1>2. \A t \in Scripts : Existing(t)' = 1 .. Cardinality(Existing(t)')
  BY <1>1, NumbersStay DEF IInv
<1>3. TypeOK'
  BY <1>2 DEF IInv, TypeOK, NumberedFromOne
<1>4. ReviewedBeforeUse'
  <2> SUFFICES ASSUME NEW t \in Scripts, NEW n \in Numbers,
                      rows'[t][n].status \in {"review", "published", "superseded"}
               PROVE  rows'[t][n].source \in Valid \cap reviewed'[t]
    BY DEF ReviewedBeforeUse
  <2>1. rows'[t][n] = rows[t][n] \/ rows'[t][n].source \in Valid \cap reviewed'[t]
    BY DEF RightRow
  <2>2. reviewed[t] \subseteq reviewed'[t]
    OBVIOUS
  <2> QED
    BY <2>1, <2>2 DEF IInv, ReviewedBeforeUse
<1>5. CurrentIsPublished'
  BY DEF IInv, CurrentIsPublished
<1>6. NoScriptNoVersions'
  BY <1>1 DEF IInv, NoScriptNoVersions
<1>7. IndexesMatch'
  <2> SUFFICES ASSUME NEW t \in Scripts, NEW n \in Numbers,
                      rows'[t][n].status # "none"
               PROVE  rows'[t][n].triggers = rows'[t][n].source
    BY DEF IndexesMatch, Existing
  <2> QED
    BY DEF IInv, IndexesMatch, Existing, RightRow
<1>8. \A q \in Requests : req'[q] # req[q] \/ req[q] = Idle(AnyScript) =>
        Changed(req'[q]) = {} /\ ~HoldsScript(req'[q])
  BY IdleFacts
<1>9. LocksAreExclusive'
  <2> SUFFICES ASSUME NEW x \in Requests, NEW y \in Requests, x # y,
                      req'[x].script = req'[y].script
               PROVE  /\ Changed(req'[x]) \cap Changed(req'[y]) = {}
                      /\ ~(HoldsScript(req'[x]) /\ HoldsScript(req'[y]))
    BY DEF LocksAreExclusive
  <2>1. CASE req'[x] = req[x] /\ req'[y] = req[y]
    BY <2>1 DEF IInv, LocksAreExclusive
  <2> QED
    BY <2>1, <1>8
<1>10. ASSUME NEW q \in Requests PROVE ReadIsStillSo(req[q])'
  <2>1. CASE req'[q] = Idle(AnyScript)
    <3>1. Idle(AnyScript).at = "idle"
      BY IdleFacts
    <3> QED
      BY <2>1, <3>1 DEF ReadIsStillSo
  <2>2. CASE req'[q] = req[q] /\ Undisturbed(s, q)
    <3> DEFINE r == req[q]
    <3>1. r \in Request /\ r.script \in Scripts /\ ReadIsStillSo(r) /\ TypeOK
      BY RequestFields DEF IInv
    <3>2. \A n \in Numbers : Succeeds(rows[r.script][n], rows'[r.script][n])
      BY <3>1 DEF Succeeds
    <3>3. Changed(r) \subseteq Numbers
      BY DEF Changed
    <3>4. /\ \A n \in Changed(r) : rows'[r.script][n] = rows[r.script][n]
          /\ r.at = "copy" => \A n \in Existing(r.script) :
               rows'[r.script][n].source = rows[r.script][n].source
      BY <2>2, <3>1 DEF Undisturbed
    <3>5. r' = r
      BY <2>2
    <3> HIDE DEF r
    <3>6. \A x \in Request :
            /\ ReadIsStillSo(x)
            /\ \A n \in Numbers : Succeeds(rows[x.script][n], rows'[x.script][n])
            /\ \A n \in Changed(x) : rows'[x.script][n] = rows[x.script][n]
            /\ x.at = "copy" => \A n \in Existing(x.script) :
                 rows'[x.script][n].source = rows[x.script][n].source
            => ReadIsStillSo(x)'
      BY <3>1, <1>3, StaysTrue
    <3> QED
      BY <3>1, <3>2, <3>4, <3>5, <3>6 DEF r
  <2> QED
    BY <2>1, <2>2
<1>11. Kept
  <2> SUFFICES ASSUME NEW t \in Scripts \ {s}, NEW n \in Numbers
               PROVE  Succeeds(rows[t][n], rows'[t][n])
    BY DEF Kept
  <2> QED
    BY RowFields, SucceedsItself DEF IInv
<1> QED
  BY <1>3, <1>4, <1>5, <1>6, <1>7, <1>9, <1>10, <1>11 DEF IInv

-----------------------------------------------------------------------------
(* The steps of a request that commit nothing *)

LEMMA RequestWithoutLocks ==
  ASSUME IInv, NEW p \in Requests, NEW r \in Request,
         UNCHANGED <<origin, current, rows, reviewed>>,
         archived' \in [Scripts -> BOOLEAN],
         req' = [req EXCEPT ![p] = r],
         ReadIsStillSo(r), Changed(r) = {}, ~HoldsScript(r)
  PROVE  IInv'
<1>1. \A q \in Requests \ {p} : req[q].script = r.script =>
        /\ Changed(r) \cap Changed(req[q]) = {}
        /\ ~(HoldsScript(r) /\ HoldsScript(req[q]))
  OBVIOUS
<1> QED
  BY <1>1, RequestStep

LEMMA BeginIInv ==
  ASSUME IInv, NEW p \in Requests, NEW s \in Scripts, NEW n \in Numbers,
         NEW c \in Sources,
         \/ SaveRequest(p, s, n, c) \/ PublishRequest(p, s, n)
         \/ RollbackRequest(p, s, n) \/ ImportRequest(p, s, c)
  PROVE  IInv'
<1> DEFINE row == rows[s][n]
           i == Idle(s)
<1>1. /\ UNCHANGED <<origin, archived, current, rows, reviewed>>
      /\ archived' \in [Scripts -> BOOLEAN]
  BY DEF SaveRequest, PublishRequest, RollbackRequest, ImportRequest, IInv, TypeOK
<1>2. /\ row.source \in Sources \cup {NoSource} /\ row.revision \in Nat
      /\ current[s] \in 0 .. MaxVersions /\ current[s] \in Nat
      /\ n \in 0 .. MaxVersions
  BY RowFields DEF IInv, TypeOK, Numbers
<1>7. i \in Request /\ i.script = s /\ i.version = None
  BY IdleFacts
<1>3. CASE SaveRequest(p, s, n, c)
  <2> DEFINE r == [i EXCEPT !.at = "save", !.version = n, !.source = c,
                             !.base = row.revision, !.seen = row.source]
  <2>1. /\ req' = [req EXCEPT ![p] = r]
        /\ row.status = "draft"
    BY <1>3 DEF SaveRequest, Begin
  <2>2. /\ r \in Request /\ r.at = "save" /\ r.script = s /\ r.version = n
        /\ r.base = row.revision /\ r.seen = row.source
    <3> HIDE DEF i
    <3> QED
      BY <1>2, <1>7 DEF Request
  <2> HIDE DEF r, i
  <2>3. ReadIsStillSo(r)
    BY <2>1, <2>2, <1>2 DEF ReadIsStillSo, Numbers, None
  <2>4. Changed(r) = {} /\ ~HoldsScript(r)
    BY <2>2 DEF Changed, HoldsScript
  <2> QED
    BY <1>1, <2>1, <2>2, <2>3, <2>4, RequestWithoutLocks
<1>4. CASE PublishRequest(p, s, n)
  <2> DEFINE r == [i EXCEPT !.at = "publish", !.version = n]
  <2>1. /\ req' = [req EXCEPT ![p] = r]
        /\ row.status \in {"draft", "review"}
    BY <1>4 DEF PublishRequest, Begin
  <2>2. /\ r \in Request /\ r.at = "publish" /\ r.version = n
    <3> HIDE DEF i
    <3> QED
      BY <1>2, <1>7 DEF Request
  <2> HIDE DEF r, i
  <2>3. ReadIsStillSo(r)
    BY <2>1, <2>2, <1>2 DEF ReadIsStillSo, Numbers, None
  <2>4. Changed(r) = {} /\ ~HoldsScript(r)
    BY <2>2 DEF Changed, HoldsScript
  <2> QED
    BY <1>1, <2>1, <2>2, <2>3, <2>4, RequestWithoutLocks
<1>5. CASE RollbackRequest(p, s, n)
  <2> DEFINE r == [i EXCEPT !.at = "rollback", !.version = n,
                             !.base = current[s], !.source = row.source]
  <2>1. /\ req' = [req EXCEPT ![p] = r]
        /\ row.status = "superseded"
    BY <1>5 DEF RollbackRequest, Begin, MayRollBackTo
  <2>2. /\ r \in Request /\ r.at = "rollback" /\ r.script = s /\ r.version = n
        /\ r.source = row.source
    <3> HIDE DEF i
    <3> QED
      BY <1>2, <1>7 DEF Request
  <2> HIDE DEF r, i
  <2>3. ReadIsStillSo(r)
    BY <2>1, <2>2, <1>2 DEF ReadIsStillSo, Numbers, None
  <2>4. Changed(r) = {} /\ ~HoldsScript(r)
    BY <2>2 DEF Changed, HoldsScript
  <2> QED
    BY <1>1, <2>1, <2>2, <2>3, <2>4, RequestWithoutLocks
<1>6. CASE ImportRequest(p, s, c)
  <2> DEFINE r == [i EXCEPT !.at = "import", !.source = c]
  <2>1. /\ req' = [req EXCEPT ![p] = r]
        /\ c \in Valid
    BY <1>6 DEF ImportRequest, Begin
  <2>2. /\ r \in Request /\ r.at = "import" /\ r.source = c
        /\ r.version = None
    <3> HIDE DEF i
    <3> QED
      BY <1>2, <1>7 DEF Request
  <2> HIDE DEF r, i
  <2>3. ReadIsStillSo(r)
    BY <2>1, <2>2, <1>2 DEF ReadIsStillSo, Numbers, None
  <2>4. Changed(r) = {} /\ ~HoldsScript(r)
    BY <2>2 DEF Changed, HoldsScript
  <2> QED
    BY <1>1, <2>1, <2>2, <2>3, <2>4, RequestWithoutLocks
<1> QED
  BY <1>3, <1>4, <1>5, <1>6

LEMMA EndIInv ==
  ASSUME IInv, NEW p \in Requests, End(p),
         UNCHANGED <<origin, archived, current, rows, reviewed>>
  PROVE  IInv'
<1>1. archived' \in [Scripts -> BOOLEAN]
  BY DEF IInv, TypeOK
<1> DEFINE r == Idle(AnyScript)
<1>2. req' = [req EXCEPT ![p] = r]
  BY DEF End
<1>3. r \in Request /\ ReadIsStillSo(r) /\ Changed(r) = {} /\ ~HoldsScript(r)
  BY IdleFacts
<1> HIDE DEF r
<1> QED
  BY <1>1, <1>2, <1>3, RequestWithoutLocks

\* A request that goes on at the same script: what it now holds was free.
LEMMA ContinueIInv ==
  ASSUME IInv, NEW p \in Requests, NEW r \in Request,
         UNCHANGED <<origin, archived, current, rows, reviewed>>,
         Continue(p, r), r.script = req[p].script, ReadIsStillSo(r),
         \A n \in Changed(r) : n \in Changed(req[p]) \/ VersionFree(p, r.script, n),
         HoldsScript(r) => ScriptFree(r.script)
  PROVE  IInv'
<1>1. archived' \in [Scripts -> BOOLEAN] /\ req' = [req EXCEPT ![p] = r]
  BY DEF IInv, TypeOK, Continue
<1>2. ASSUME NEW q \in Requests \ {p}, req[q].script = r.script
      PROVE  /\ Changed(r) \cap Changed(req[q]) = {}
             /\ ~(HoldsScript(r) /\ HoldsScript(req[q]))
  <2>1. Changed(req[p]) \cap Changed(req[q]) = {}
    BY <1>2 DEF IInv, LocksAreExclusive
  <2> QED
    BY <2>1, <1>2 DEF VersionFree, ScriptFree
<1> QED
  BY <1>1, <1>2, RequestStep

LEMMA CopySourceIInv ==
  ASSUME IInv, NEW p \in Requests, NEW s \in Scripts, NEW n \in Numbers,
         CopySource(p, s, n)
  PROVE  IInv'
<1> DEFINE i == Idle(s)
           r == [i EXCEPT !.at = "copy", !.version = n, !.source = rows[s][n].source]
<1>1. /\ req' = [req EXCEPT ![p] = r]
      /\ rows[s][n].status # "none" /\ ScriptFree(s)
      /\ UNCHANGED <<origin, archived, current, rows, reviewed>>
  BY DEF CopySource, Begin, Existing
<1>2. i \in Request /\ i.script = s
  BY IdleFacts
<1>3. rows[s][n].source \in Sources \cup {NoSource} /\ n \in 0 .. MaxVersions
  BY RowFields DEF IInv, Numbers
<1>4. /\ r \in Request /\ r.at = "copy" /\ r.version = n /\ r.script = s
      /\ r.source = rows[s][n].source
  <2> HIDE DEF i
  <2> QED
    BY <1>2, <1>3 DEF Request
<1> HIDE DEF r, i
<1>5. ReadIsStillSo(r)
  BY <1>1, <1>4 DEF ReadIsStillSo
<1>6. Changed(r) = {}
  BY <1>4 DEF Changed
<1>7. archived' \in [Scripts -> BOOLEAN]
  BY <1>1 DEF IInv, TypeOK
<1>8. \A q \in Requests \ {p} : req[q].script = r.script =>
        /\ Changed(r) \cap Changed(req[q]) = {}
        /\ ~(HoldsScript(r) /\ HoldsScript(req[q]))
  BY <1>1, <1>4, <1>6 DEF ScriptFree
<1> QED
  BY <1>1, <1>4, <1>5, <1>7, <1>8, RequestStep

LEMMA UpdateDraftIInv ==
  ASSUME IInv, NEW p \in Requests, UpdateDraft(p)
  PROVE  IInv'
<1> DEFINE o == req[p]
           r == [o EXCEPT !.at = "saved"]
<1>1. o \in Request /\ o.script \in Scripts /\ ReadIsStillSo(o)
  BY RequestFields DEF IInv
<1>2. /\ o.at = "save" /\ VersionFree(p, o.script, o.version)
      /\ UNCHANGED <<origin, archived, current, rows, reviewed>>
  BY DEF UpdateDraft
<1>3. CASE MaySave(o.script, o.version, o.base)
  <2>1. Continue(p, r)
    BY <1>3 DEF UpdateDraft
  <2>2. /\ r \in Request /\ r.at = "saved" /\ r.script = o.script
        /\ r.version = o.version /\ r.seen = o.seen
    <3> HIDE DEF o
    <3> QED
      BY <1>1 DEF Request
  <2> HIDE DEF r
  <2>3. ReadIsStillSo(r)
    BY <1>1, <1>2, <1>3, <2>2 DEF ReadIsStillSo, MaySave
  <2>4. \A n \in Changed(r) : n \in Changed(o) \/ VersionFree(p, r.script, n)
    BY <1>2, <2>2 DEF Changed
  <2>5. ~HoldsScript(r)
    BY <2>2 DEF HoldsScript
  <2> QED
    BY <1>2, <2>1, <2>2, <2>3, <2>4, <2>5, ContinueIInv
<1>4. CASE ~MaySave(o.script, o.version, o.base)
  BY <1>2, <1>4, EndIInv DEF UpdateDraft
<1> QED
  BY <1>3, <1>4

LEMMA ReadCurrentIInv ==
  ASSUME IInv, NEW p \in Requests, ReadCurrent(p)
  PROVE  IInv'
<1> DEFINE o == req[p]
           r == [o EXCEPT !.at = "supersede", !.base = current[o.script]]
<1>1. o \in Request /\ o.script \in Scripts /\ ReadIsStillSo(o)
  BY RequestFields DEF IInv
<1>2. /\ o.at = "publish" /\ Continue(p, r)
      /\ UNCHANGED <<origin, archived, current, rows, reviewed>>
  BY DEF ReadCurrent
<1>3. current[o.script] \in 0 .. MaxVersions /\ current[o.script] \in Nat
  BY <1>1 DEF IInv, TypeOK
<1>4. /\ r \in Request /\ r.at = "supersede" /\ r.script = o.script
      /\ r.version = o.version /\ r.base = current[o.script]
  <2> HIDE DEF o
  <2> QED
    BY <1>1, <1>3 DEF Request
<1> HIDE DEF r
<1>5. ReadIsStillSo(r)
  BY <1>1, <1>2, <1>3, <1>4 DEF ReadIsStillSo
<1>6. Changed(r) = {} /\ ~HoldsScript(r)
  BY <1>4 DEF Changed, HoldsScript
<1> QED
  BY <1>2, <1>4, <1>5, <1>6, ContinueIInv

LEMMA SupersedeIInv ==
  ASSUME IInv, NEW p \in Requests, Supersede(p)
  PROVE  IInv'
<1> DEFINE o == req[p]
           published == o.base # None /\ rows[o.script][o.base].status = "published"
           r == [o EXCEPT !.at = "promote", !.held = published]
<1>1. o \in Request /\ o.script \in Scripts /\ ReadIsStillSo(o)
  BY RequestFields DEF IInv
<1>2. /\ o.at = "supersede" /\ (o.base # None => VersionFree(p, o.script, o.base))
      /\ UNCHANGED <<origin, archived, current, rows, reviewed>>
  BY DEF Supersede
<1>3. Continue(p, r) \/ End(p)
  BY DEF Supersede
<1>4. CASE Continue(p, r)
  <2>1. published \in BOOLEAN
    OBVIOUS
  <2>2. /\ r \in Request /\ r.at = "promote" /\ r.script = o.script
        /\ r.version = o.version /\ r.base = o.base /\ r.held = published
    <3> HIDE DEF o, published
    <3> QED
      BY <1>1, <2>1 DEF Request
  <2> HIDE DEF r
  <2>3. ReadIsStillSo(r)
    BY <1>1, <1>2, <2>2 DEF ReadIsStillSo
  <2>4. \A n \in Changed(r) : VersionFree(p, r.script, n)
    BY <1>2, <2>2 DEF Changed
  <2>5. ~HoldsScript(r)
    BY <2>2 DEF HoldsScript
  <2> QED
    BY <1>2, <1>4, <2>2, <2>3, <2>4, <2>5, ContinueIInv
<1> QED
  BY <1>2, <1>3, <1>4, EndIInv

LEMMA PromoteIInv ==
  ASSUME IInv, NEW p \in Requests, Promote(p)
  PROVE  IInv'
<1> DEFINE o == req[p]
           r == [o EXCEPT !.at = "point"]
<1>1. o \in Request /\ o.script \in Scripts /\ ReadIsStillSo(o)
  BY RequestFields DEF IInv
<1>2. /\ o.at = "promote" /\ VersionFree(p, o.script, o.version)
      /\ UNCHANGED <<origin, archived, current, rows, reviewed>>
  BY DEF Promote
<1>3. CASE MayPromote(o.script, o.version)
  <2>1. Continue(p, r)
    BY <1>3 DEF Promote
  <2>2. /\ r \in Request /\ r.at = "point" /\ r.script = o.script
        /\ r.version = o.version /\ r.base = o.base /\ r.held = o.held
    <3> HIDE DEF o
    <3> QED
      BY <1>1 DEF Request
  <2> HIDE DEF r
  <2>3. ReadIsStillSo(r)
    BY <1>1, <1>2, <1>3, <2>2 DEF ReadIsStillSo, MayPromote
  <2>4. \A n \in Changed(r) : n \in Changed(o) \/ VersionFree(p, r.script, n)
    BY <1>2, <2>2 DEF Changed
  <2>5. ~HoldsScript(r)
    BY <2>2 DEF HoldsScript
  <2> QED
    BY <1>2, <2>1, <2>2, <2>3, <2>4, <2>5, ContinueIInv
<1>4. CASE ~MayPromote(o.script, o.version)
  BY <1>2, <1>4, EndIInv DEF Promote
<1> QED
  BY <1>3, <1>4

LEMMA LockIInv ==
  ASSUME IInv, NEW p \in Requests, LockForRollback(p) \/ LockForImport(p)
  PROVE  IInv'
<1> DEFINE o == req[p]
           v == current[o.script]
           r == [o EXCEPT !.at = "replace"]
           x == [o EXCEPT !.at = "replace", !.base = v]
<1>1. o \in Request /\ o.script \in Scripts /\ ReadIsStillSo(o)
  BY RequestFields DEF IInv
<1>2. v \in 0 .. MaxVersions /\ v \in Nat
  BY <1>1 DEF IInv, TypeOK
<1>3. /\ o.at \in {"rollback", "import"} /\ ScriptFree(o.script)
      /\ UNCHANGED <<origin, archived, current, rows, reviewed>>
  BY DEF LockForRollback, LockForImport
<1>4. \/ End(p)
      \/ Continue(p, r) /\ o.base = v
      \/ Continue(p, x)
  BY DEF LockForRollback, LockForImport
<1>5. /\ r \in Request /\ r.at = "replace" /\ r.script = o.script
      /\ r.version = o.version /\ r.base = o.base /\ r.source = o.source
      /\ x \in Request /\ x.at = "replace" /\ x.script = o.script
      /\ x.version = o.version /\ x.base = v /\ x.source = o.source
  <2> HIDE DEF o, v
  <2> QED
    BY <1>1, <1>2 DEF Request
<1> HIDE DEF r, x
<1>6. ReadIsStillSo(x) /\ (o.base = v => ReadIsStillSo(r))
  BY <1>1, <1>2, <1>3, <1>5 DEF ReadIsStillSo, Numbers, None
<1>7. Changed(r) = {} /\ Changed(x) = {}
  BY <1>5 DEF Changed
<1>8. CASE Continue(p, r) /\ o.base = v
  BY <1>3, <1>5, <1>6, <1>7, <1>8, ContinueIInv
<1>9. CASE Continue(p, x)
  BY <1>3, <1>5, <1>6, <1>7, <1>9, ContinueIInv
<1> QED
  BY <1>3, <1>4, <1>8, <1>9, EndIInv

LEMMA SetScriptArchivedIInv ==
  ASSUME IInv, NEW s \in Scripts, NEW a \in BOOLEAN, SetScriptArchived(s, a)
  PROVE  IInv'
<1>1. UNCHANGED <<origin, current, rows, req, reviewed>>
      /\ archived' \in [Scripts -> BOOLEAN]
  BY DEF SetScriptArchived, IInv, TypeOK
<1>2. \A t \in Scripts : Existing(t)' = Existing(t)
  BY <1>1 DEF Existing
<1>3. TypeOK'
  <2>1. NumberedFromOne'
    BY <1>2, NumbersStay DEF NumberedFromOne, IInv
  <2> QED
    BY <1>1, <2>1 DEF IInv, TypeOK
<1>5. ReviewedBeforeUse' /\ CurrentIsPublished' /\ NoScriptNoVersions' /\ IndexesMatch'
  BY <1>1, <1>2
  DEF IInv, ReviewedBeforeUse, CurrentIsPublished, NoScriptNoVersions, IndexesMatch
<1>4. LocksAreExclusive' /\ \A p \in Requests : ReadIsStillSo(req[p])'
  BY <1>1 DEF IInv, LocksAreExclusive, ReadIsStillSo
<1> QED
  BY <1>3, <1>4, <1>5 DEF IInv

-----------------------------------------------------------------------------
(* The steps that commit *)

\* One row of script s changes.
LEMMA OneRow ==
  ASSUME TypeOK, NEW s \in Scripts, NEW n \in Numbers, NEW v \in Version,
         rows' = [rows EXCEPT ![s] = [rows[s] EXCEPT ![n] = v]]
  PROVE  /\ rows' \in [Scripts -> [Numbers -> Version]]
         /\ \A t \in Scripts \ {s} : rows'[t] = rows[t]
         /\ \A m \in Numbers : rows'[s][m] = IF m = n THEN v ELSE rows[s][m]
<1> DEFINE row == [rows[s] EXCEPT ![n] = v]
<1>1. /\ rows \in [Scripts -> [Numbers -> Version]]
      /\ rows[s] \in [Numbers -> Version]
  BY DEF TypeOK
<1>2. /\ row \in [Numbers -> Version]
      /\ \A m \in Numbers : row[m] = IF m = n THEN v ELSE rows[s][m]
  BY <1>1
<1>3. rows' = [rows EXCEPT ![s] = row]
  OBVIOUS
<1> HIDE DEF row
<1> QED
  BY <1>1, <1>2, <1>3

LEMMA DraftFacts ==
  ASSUME NEW c \in Sources \cup {NoSource}
  PROVE  /\ Draft(c) \in Version /\ Draft(c).status = "draft" /\ Draft(c).revision = 1
         /\ Draft(c).source = c /\ Draft(c).triggers = c
BY DEF Draft, Version, Statuses

LEMMA CreateIInv ==
  ASSUME IInv, NEW s \in Scripts, NEW c \in Sources, CreateYarnScript(s, c)
  PROVE  IInv' /\ Kept
<1>1. 1 \in Numbers /\ Draft(c) \in Version
  BY ConstantsAssumption, DraftFacts DEF Numbers
<1>2. rows' = [rows EXCEPT ![s] = [rows[s] EXCEPT ![1] = Draft(c)]]
  BY DEF CreateYarnScript
<1>3. /\ rows' \in [Scripts -> [Numbers -> Version]]
      /\ \A t \in Scripts \ {s} : rows'[t] = rows[t]
      /\ \A m \in Numbers : rows'[s][m] = IF m = 1 THEN Draft(c) ELSE rows[s][m]
  BY <1>1, <1>2, OneRow DEF IInv
<1>4. /\ Existing(s) = {} /\ \A m \in Numbers : rows[s][m].status = "none"
  BY DEF IInv, NoScriptNoVersions, CreateYarnScript, Existing
<1>5. NextVersion(s) = 1
  BY <1>4, FS_EmptySet DEF NextVersion
<1>6. Existing(s)' = Existing(s) \cup {NextVersion(s)}
  BY <1>1, <1>3, <1>4, <1>5, DraftFacts DEF Existing
<1>7. \A m \in Numbers : Succeeds(rows[s][m], rows'[s][m])
  <2> SUFFICES ASSUME NEW m \in Numbers PROVE Succeeds(rows[s][m], rows'[s][m])
    OBVIOUS
  <2> QED
    BY <1>4 DEF Succeeds
<1>8. \A m \in Numbers : rows'[s][m] = rows[s][m] \/ RightRow(rows'[s][m], reviewed'[s])
  BY <1>3, DraftFacts DEF RightRow
<1>9. /\ origin' \in [Scripts -> {"none", "community", "official"}]
      /\ origin'[s] = "community" /\ \A t \in Scripts \ {s} : origin'[t] = origin[t]
      /\ UNCHANGED <<archived, current, req, reviewed>> /\ ScriptFree(s)
  BY DEF CreateYarnScript, IInv, TypeOK
<1>10. current'[s] = None
  BY <1>4, <1>9 DEF IInv, CurrentIsPublished, TypeOK, None, Numbers
<1>11. \A q \in Requests : Undisturbed(s, q)
  <2> SUFFICES ASSUME NEW q \in Requests, req[q].script = s
               PROVE  Changed(req[q]) = {} /\ req[q].at # "copy"
    BY DEF Undisturbed
  <2>1. req[q].at # "copy"
    BY <1>9 DEF ScriptFree, HoldsScript
  <2>2. Changed(req[q]) = {}
    BY <1>4 DEF IInv, ReadIsStillSo, Changed
  <2> QED
    BY <2>1, <2>2
<1> QED
  BY <1>3, <1>6, <1>7, <1>8, <1>9, <1>10, <1>11, Commit DEF IInv, TypeOK

\* The row lock of UpdateDraft keeps the row a draft until the commit.
LEMMA CommitDraftIInv ==
  ASSUME IInv, NEW p \in Requests, CommitDraft(p)
  PROVE  /\ IInv' /\ Kept
         /\ rows[req[p].script][req[p].version].source = req[p].seen
<1>0. PICK s \in Scripts, n \in 0 .. MaxVersions :
        s = req[p].script /\ n = req[p].version
  BY RequestFields DEF IInv
<1> DEFINE r == req[p]
           v == [status |-> "draft", source |-> r.source, triggers |-> r.source,
                 revision |-> rows[s][n].revision + 1]
<1>1. /\ r \in Request /\ r.script = s /\ r.version = n
      /\ r.source \in Sources \cup {NoSource} /\ ReadIsStillSo(r)
  BY <1>0, RequestFields DEF IInv
<1>2. /\ r.at = "saved" /\ ScriptFree(s)
      /\ rows' = [rows EXCEPT ![s] = [rows[s] EXCEPT ![n] = v]]
      /\ req' = [req EXCEPT ![p] = Idle(AnyScript)]
      /\ UNCHANGED <<origin, archived, current, reviewed>>
  BY <1>0 DEF CommitDraft, ScriptTouchable, End
<1>3. n \in Numbers /\ rows[s][n].status = "draft" /\ rows[s][n].source = r.seen
  BY <1>1, <1>2 DEF ReadIsStillSo
<1>4. rows[s][n].revision \in Nat
  BY <1>1, <1>3, RowFields DEF IInv
<1>5. /\ v \in Version /\ v.status = "draft" /\ v.source = r.source
      /\ v.triggers = r.source /\ v.revision > rows[s][n].revision
  BY <1>1, <1>4 DEF Version, Statuses
<1> HIDE DEF v
<1>6. /\ rows' \in [Scripts -> [Numbers -> Version]]
      /\ \A t \in Scripts \ {s} : rows'[t] = rows[t]
      /\ \A m \in Numbers : rows'[s][m] = IF m = n THEN v ELSE rows[s][m]
  BY <1>1, <1>2, <1>3, <1>5, OneRow DEF IInv
<1>7. Existing(s)' = Existing(s)
  BY <1>3, <1>5, <1>6 DEF Existing
<1>8. \A m \in Numbers : Succeeds(rows[s][m], rows'[s][m])
  <2> SUFFICES ASSUME NEW m \in Numbers PROVE Succeeds(rows[s][m], rows'[s][m])
    OBVIOUS
  <2>1. CASE m = n
    BY <2>1, <1>3, <1>5, <1>6 DEF Succeeds
  <2>2. CASE m # n
    BY <2>2, <1>1, <1>6, RowFields, SucceedsItself DEF IInv
  <2> QED
    BY <2>1, <2>2
<1>9. \A m \in Numbers : rows'[s][m] = rows[s][m] \/ RightRow(rows'[s][m], reviewed'[s])
  BY <1>5, <1>6 DEF RightRow
<1>10. req' \in [Requests -> Request] /\ req'[p] = Idle(AnyScript)
       /\ \A q \in Requests \ {p} : req'[q] = req[q]
  BY <1>2, IdleFacts DEF IInv, TypeOK
<1>11. origin'[s] # "none"
  BY <1>1, <1>2, <1>3 DEF IInv, NoScriptNoVersions, Existing
<1>12. current'[s] # None => rows'[s][current'[s]].status = "published"
  <2> SUFFICES ASSUME current[s] # None PROVE rows'[s][current[s]].status = "published"
    BY <1>2
  <2>1. rows[s][current[s]].status = "published" /\ current[s] \in Numbers
    BY <1>1 DEF IInv, CurrentIsPublished, TypeOK, None, Numbers
  <2> QED
    BY <2>1, <1>3, <1>6
<1>13. \A q \in Requests \ {p} : Undisturbed(s, q)
  <2> SUFFICES ASSUME NEW q \in Requests \ {p}, req[q].script = s
               PROVE  n \notin Changed(req[q]) /\ req[q].at # "copy"
    BY <1>6 DEF Undisturbed, Changed
  <2>1. req[q].at # "copy"
    BY <1>2 DEF ScriptFree, HoldsScript
  <2>2. n \in Changed(r)
    BY <1>1, <1>2, <1>3 DEF Changed
  <2> QED
    BY <1>1, <2>1, <2>2 DEF IInv, LocksAreExclusive
<1>14. \A q \in Requests : req'[q] = req[q] => Undisturbed(s, q) \/ req[q] = Idle(AnyScript)
  BY <1>10, <1>13
<1>15. IInv' /\ Kept
  BY <1>1, <1>2, <1>6, <1>7, <1>8, <1>9, <1>10, <1>11, <1>12, <1>14, Commit
  DEF IInv, TypeOK
<1> QED
  BY <1>0, <1>3, <1>15

\* The indexes are those of the copied source, though another statement read
\* them: the lock of the script keeps the drafts as they are.
LEMMA CopyIndexesIInv ==
  ASSUME IInv, NEW p \in Requests, CopyIndexes(p)
  PROVE  IInv' /\ Kept
<1>0. PICK s \in Scripts, n \in 0 .. MaxVersions :
        s = req[p].script /\ n = req[p].version
  BY RequestFields DEF IInv
<1> DEFINE r == req[p]
           next == NextVersion(s)
           d == Draft(r.source)
           v == [d EXCEPT !.triggers = rows[s][n].triggers]
<1>1. /\ r \in Request /\ r.script = s /\ r.version = n
      /\ r.source \in Sources \cup {NoSource} /\ ReadIsStillSo(r)
  BY <1>0, RequestFields DEF IInv
<1>2. /\ r.at = "copy"
      /\ rows' = [rows EXCEPT ![s] = [rows[s] EXCEPT ![next] = v]]
      /\ req' = [req EXCEPT ![p] = Idle(AnyScript)]
      /\ UNCHANGED <<origin, archived, current, reviewed>>
  BY <1>0 DEF CopyIndexes, End
<1>3. /\ n \in Numbers /\ rows[s][n].status # "none" /\ rows[s][n].source = r.source
      /\ n \in Existing(s)
  BY <1>1, <1>2 DEF ReadIsStillSo, Existing
<1>4. rows[s][n].triggers = r.source
  BY <1>3 DEF IInv, IndexesMatch
<1>5. /\ v \in Version /\ v.status = "draft" /\ v.source = r.source
      /\ v.triggers = r.source
  <2>1. d \in Version /\ d.status = "draft" /\ d.source = r.source
    BY <1>1, DraftFacts
  <2> HIDE DEF d
  <2> QED
    BY <1>1, <1>4, <2>1 DEF Version
<1> HIDE DEF v, d
<1>6. req' \in [Requests -> Request] /\ req'[p] = Idle(AnyScript)
      /\ \A q \in Requests \ {p} : req'[q] = req[q]
  BY <1>2, IdleFacts DEF IInv, TypeOK
<1>7. origin'[s] # "none"
  BY <1>2, <1>3 DEF IInv, NoScriptNoVersions
<1>8. current[s] # None =>
        current[s] \in Existing(s) /\ rows[s][current[s]].status = "published"
  BY DEF IInv, CurrentIsPublished, TypeOK, None, Numbers, Existing
<1>9. next \notin Existing(s)
  BY NextIsFree DEF IInv
<1>10. /\ rows' \in [Scripts -> [Numbers -> Version]]
       /\ \A t \in Scripts \ {s} : rows'[t] = rows[t]
       /\ \A m \in Numbers : rows'[s][m] = IF m = next THEN v ELSE rows[s][m]
  <2>1. CASE next \in Numbers
    BY <2>1, <1>2, <1>5, OneRow DEF IInv
  <2>2. CASE next \notin Numbers
    <3>1. rows[s] \in [Numbers -> Version] /\ rows \in [Scripts -> [Numbers -> Version]]
      BY DEF IInv, TypeOK
    <3>2. [rows[s] EXCEPT ![next] = v] = rows[s]
      BY <2>2, <3>1
    <3>3. rows' = rows
      BY <1>2, <3>1, <3>2
    <3> QED
      BY <2>2, <3>1, <3>3
  <2> QED
    BY <2>1, <2>2
<1> HIDE DEF next
<1>11. Existing(s)' = Existing(s) \/ Existing(s)' = Existing(s) \cup {NextVersion(s)}
  BY <1>5, <1>9, <1>10 DEF Existing, next
<1>12. \A m \in Numbers : Succeeds(rows[s][m], rows'[s][m])
  <2> SUFFICES ASSUME NEW m \in Numbers PROVE Succeeds(rows[s][m], rows'[s][m])
    OBVIOUS
  <2>1. CASE m = next
    BY <2>1, <1>9 DEF Succeeds, Existing
  <2>2. CASE m # next
    BY <2>2, <1>10, RowFields, SucceedsItself DEF IInv
  <2> QED
    BY <2>1, <2>2
<1>13. \A m \in Numbers : rows'[s][m] = rows[s][m] \/ RightRow(rows'[s][m], reviewed'[s])
  BY <1>5, <1>10 DEF RightRow
<1>14. current'[s] # None => rows'[s][current'[s]].status = "published"
  BY <1>2, <1>8, <1>9, <1>10 DEF Existing
<1>15. \A q \in Requests \ {p} : Undisturbed(s, q)
  <2> SUFFICES ASSUME NEW q \in Requests \ {p}, req[q].script = s
               PROVE  next \notin Changed(req[q])
    BY <1>9, <1>10 DEF Undisturbed, Changed, Existing
  <2>1. Changed(req[q]) \subseteq Existing(s)
    BY DEF IInv, ReadIsStillSo, Changed, Existing, Numbers, None
  <2> QED
    BY <2>1, <1>9
<1>16. \A q \in Requests : req'[q] = req[q] => Undisturbed(s, q) \/ req[q] = Idle(AnyScript)
  BY <1>6, <1>15
<1> QED
  BY <1>2, <1>6, <1>7, <1>10, <1>11, <1>12, <1>13, <1>14, <1>16, Commit
  DEF IInv, TypeOK

LEMMA SubmitIInv ==
  ASSUME IInv, NEW s \in Scripts, NEW n \in Numbers, SubmitScriptVersion(s, n)
  PROVE  IInv' /\ Kept
<1> DEFINE row == rows[s][n]
           v == [row EXCEPT !.status = "review"]
<1>1. /\ row \in Version /\ row.source \in Sources \cup {NoSource}
      /\ row.revision \in Nat
  BY RowFields DEF IInv
<1>2. /\ row.status = "draft" /\ row.source \in Valid
      /\ rows' = [rows EXCEPT ![s] = [rows[s] EXCEPT ![n] = v]]
      /\ reviewed' = [reviewed EXCEPT ![s] = reviewed[s] \cup {row.source}]
      /\ UNCHANGED <<origin, archived, current, req>>
      /\ \A q \in Requests : req[q].script = s => n \notin Changed(req[q])
  BY DEF SubmitScriptVersion, MaySubmit, WithStatus
<1>3. /\ v \in Version /\ v.status = "review" /\ v.source = row.source
      /\ v.triggers = row.triggers
  <2> HIDE DEF row
  <2> QED
    BY <1>1 DEF Version, Statuses
<1>4. row.triggers = row.source
  BY <1>2 DEF IInv, IndexesMatch, Existing
<1> HIDE DEF v
<1>5. /\ rows' \in [Scripts -> [Numbers -> Version]]
      /\ \A t \in Scripts \ {s} : rows'[t] = rows[t]
      /\ \A m \in Numbers : rows'[s][m] = IF m = n THEN v ELSE rows[s][m]
  BY <1>2, <1>3, OneRow DEF IInv
<1>6. /\ reviewed' \in [Scripts -> SUBSET Sources]
      /\ reviewed'[s] = reviewed[s] \cup {row.source}
      /\ \A t \in Scripts \ {s} : reviewed'[t] = reviewed[t]
  BY <1>2, ConstantsAssumption DEF IInv, TypeOK
<1>7. Existing(s)' = Existing(s)
  BY <1>2, <1>3, <1>5 DEF Existing
<1>8. \A m \in Numbers : Succeeds(rows[s][m], rows'[s][m])
  <2> SUFFICES ASSUME NEW m \in Numbers PROVE Succeeds(rows[s][m], rows'[s][m])
    OBVIOUS
  <2>1. CASE m = n
    BY <2>1, <1>2, <1>3, <1>5 DEF Succeeds
  <2>2. CASE m # n
    BY <2>2, <1>5, RowFields, SucceedsItself DEF IInv
  <2> QED
    BY <2>1, <2>2
<1>9. \A m \in Numbers : rows'[s][m] = rows[s][m] \/ RightRow(rows'[s][m], reviewed'[s])
  BY <1>2, <1>3, <1>4, <1>5, <1>6 DEF RightRow
<1>10. origin'[s] # "none"
  BY <1>2 DEF IInv, NoScriptNoVersions, Existing
<1>11. current'[s] # None => rows'[s][current'[s]].status = "published"
  <2>1. current[s] # None =>
          rows[s][current[s]].status = "published" /\ current[s] \in Numbers
    BY DEF IInv, CurrentIsPublished, TypeOK, None, Numbers
  <2> QED
    BY <2>1, <1>2, <1>5
<1>12. \A q \in Requests : Undisturbed(s, q)
  BY <1>2, <1>3, <1>5 DEF Undisturbed, Changed, Existing
<1> QED
  BY <1>2, <1>5, <1>6, <1>7, <1>8, <1>9, <1>10, <1>11, <1>12, Commit DEF IInv, TypeOK

LEMMA PointCurrentIInv ==
  ASSUME IInv, NEW p \in Requests, PointCurrent(p)
  PROVE  IInv' /\ Kept
<1>0. PICK s \in Scripts, n \in 0 .. MaxVersions, b \in Nat :
        s = req[p].script /\ n = req[p].version /\ b = req[p].base
  BY RequestFields DEF IInv
<1> DEFINE r == req[p]
           held == r.held
           promoted(row) == [row EXCEPT !.status = "published"]
           replaced(row) == [row EXCEPT !.status = "superseded"]
           after == [m \in Numbers |->
                      IF m = n THEN promoted(rows[s][m])
                      ELSE IF held /\ m = b THEN replaced(rows[s][m])
                      ELSE rows[s][m]]
<1>1. /\ r \in Request /\ r.script = s /\ r.version = n /\ r.base = b
      /\ r.held \in BOOLEAN /\ ReadIsStillSo(r)
  BY <1>0, RequestFields DEF IInv
<1>2. /\ r.at = "point"
      /\ rows' = [rows EXCEPT ![s] = after]
      /\ current' = [current EXCEPT ![s] = n]
      /\ req' = [req EXCEPT ![p] = Idle(AnyScript)]
      /\ UNCHANGED <<origin, archived, reviewed>> /\ ScriptFree(s)
  BY <1>0 DEF PointCurrent, End
<1>3. /\ n \in Numbers /\ rows[s][n].status = "review"
      /\ held => b # None /\ rows[s][b].status = "published"
  BY <1>1, <1>2 DEF ReadIsStillSo
<1>4. \A m \in Numbers :
        /\ rows[s][m] \in Version
        /\ promoted(rows[s][m]) \in Version /\ replaced(rows[s][m]) \in Version
        /\ promoted(rows[s][m]).status = "published"
        /\ replaced(rows[s][m]).status = "superseded"
        /\ promoted(rows[s][m]).source = rows[s][m].source
        /\ promoted(rows[s][m]).triggers = rows[s][m].triggers
        /\ replaced(rows[s][m]).source = rows[s][m].source
        /\ replaced(rows[s][m]).triggers = rows[s][m].triggers
  <2>1. \A row \in Version :
          /\ promoted(row) \in Version /\ replaced(row) \in Version
          /\ promoted(row).status = "published" /\ replaced(row).status = "superseded"
          /\ promoted(row).source = row.source /\ promoted(row).triggers = row.triggers
          /\ replaced(row).source = row.source /\ replaced(row).triggers = row.triggers
    BY DEF Version, Statuses
  <2> HIDE DEF promoted, replaced
  <2> QED
    BY <2>1, RowFields DEF IInv
<1> HIDE DEF promoted, replaced
<1>5. /\ after \in [Numbers -> Version]
      /\ after[n] = promoted(rows[s][n])
      /\ \A m \in Numbers \ {n} :
           after[m] = IF held /\ m = b THEN replaced(rows[s][m]) ELSE rows[s][m]
  BY <1>3, <1>4
<1> HIDE DEF after
<1>6. /\ rows' \in [Scripts -> [Numbers -> Version]] /\ rows'[s] = after
      /\ \A t \in Scripts \ {s} : rows'[t] = rows[t]
  BY <1>2, <1>5 DEF IInv, TypeOK
<1>7. /\ current' \in [Scripts -> 0 .. MaxVersions] /\ current'[s] = n
      /\ \A t \in Scripts \ {s} : current'[t] = current[t]
  BY <1>2 DEF IInv, TypeOK
<1>8. Existing(s)' = Existing(s)
  <2> SUFFICES ASSUME NEW m \in Numbers
               PROVE  after[m].status # "none" <=> rows[s][m].status # "none"
    BY <1>6 DEF Existing
  <2> QED
    BY <1>3, <1>4, <1>5
<1>9. \A m \in Numbers : Succeeds(rows[s][m], rows'[s][m])
  <2> SUFFICES ASSUME NEW m \in Numbers PROVE Succeeds(rows[s][m], after[m])
    BY <1>6
  <2>1. CASE m = n
    BY <2>1, <1>3, <1>4, <1>5 DEF Succeeds
  <2>2. CASE m # n /\ held /\ m = b
    BY <2>2, <1>3, <1>4, <1>5 DEF Succeeds
  <2>3. CASE m # n /\ ~(held /\ m = b)
    BY <2>3, <1>5, RowFields, SucceedsItself DEF IInv
  <2> QED
    BY <2>1, <2>2, <2>3
<1>10. \A m \in Numbers : rows'[s][m] = rows[s][m] \/ RightRow(rows'[s][m], reviewed'[s])
  <2> SUFFICES ASSUME NEW m \in Numbers, after[m] # rows[s][m]
               PROVE  RightRow(after[m], reviewed[s])
    BY <1>2, <1>6
  <2>1. after[m].source = rows[s][m].source /\ after[m].triggers = rows[s][m].triggers
        /\ rows[s][m].status \in {"review", "published"}
    BY <1>3, <1>4, <1>5
  <2> QED
    BY <2>1 DEF RightRow, IInv, IndexesMatch, Existing, ReviewedBeforeUse
<1>11. req' \in [Requests -> Request] /\ req'[p] = Idle(AnyScript)
       /\ \A q \in Requests \ {p} : req'[q] = req[q]
  BY <1>2, IdleFacts DEF IInv, TypeOK
<1>12. origin'[s] # "none"
  BY <1>2, <1>3 DEF IInv, NoScriptNoVersions, Existing
<1>13. current'[s] # None => rows'[s][current'[s]].status = "published"
  BY <1>3, <1>4, <1>5, <1>6, <1>7
<1>14. \A q \in Requests \ {p} : Undisturbed(s, q)
  <2> SUFFICES ASSUME NEW q \in Requests \ {p}, req[q].script = s
               PROVE  /\ \A m \in Changed(req[q]) : after[m] = rows[s][m]
                      /\ req[q].at # "copy"
    BY <1>6 DEF Undisturbed
  <2>1. req[q].at # "copy"
    BY <1>2 DEF ScriptFree, HoldsScript
  <2>2. Changed(r) \cap Changed(req[q]) = {}
    BY <1>1 DEF IInv, LocksAreExclusive
  <2>3. \A m \in Numbers : m \notin Changed(r) => after[m] = rows[s][m]
    BY <1>1, <1>2, <1>5 DEF Changed
  <2>4. Changed(req[q]) \subseteq Numbers
    BY DEF Changed
  <2> QED
    BY <2>1, <2>2, <2>3, <2>4
<1>15. \A q \in Requests : req'[q] = req[q] => Undisturbed(s, q) \/ req[q] = Idle(AnyScript)
  BY <1>11, <1>14
<1> QED
  BY <1>2, <1>6, <1>7, <1>8, <1>9, <1>10, <1>11, <1>12, <1>13, <1>15, Commit
  DEF IInv, TypeOK

\* A rollback or an import publishes a version of its own.  The source of a
\* rollback was reviewed when the superseded version was, which has not changed.
LEMMA ReplaceIInv ==
  ASSUME IInv, NEW p \in Requests, Replace(p)
  PROVE  IInv' /\ Kept
<1>0. PICK s \in Scripts, n \in 0 .. MaxVersions, b \in Nat :
        s = req[p].script /\ n = req[p].version /\ b = req[p].base
  BY RequestFields DEF IInv
<1> DEFINE r == req[p]
           next == NextVersion(s)
           v == Replacement(r)
           replaced(row) == [row EXCEPT !.status = "superseded"]
           after == [m \in Numbers |->
                      IF m = next THEN v
                      ELSE IF m = b /\ Replaceable(r) THEN replaced(rows[s][m])
                      ELSE rows[s][m]]
<1>1. /\ r \in Request /\ r.script = s /\ r.version = n /\ r.base = b
      /\ r.source \in Sources \cup {NoSource} /\ ReadIsStillSo(r)
  BY <1>0, RequestFields DEF IInv
<1>2. /\ r.at = "replace" /\ next \in Numbers
      /\ b # None => VersionFree(p, s, b)
      /\ req' = [req EXCEPT ![p] = Idle(AnyScript)]
      /\ UNCHANGED archived /\ End(p)
  BY <1>0 DEF Replace, End
<1>3. CASE n # None /\ ~Replaceable(r)
  <2>1. UNCHANGED <<origin, archived, current, rows, reviewed>>
    BY <1>0, <1>2, <1>3 DEF Replace
  <2> QED
    BY <2>1, <1>2, EndIInv, SameRows DEF IInv
<1>4. CASE ~(n # None /\ ~Replaceable(r))
  <2>1. /\ rows' = [rows EXCEPT ![s] = after]
        /\ current' = [current EXCEPT ![s] = next]
        /\ origin' = [origin EXCEPT ![s] = IF n # None THEN origin[s] ELSE "official"]
        /\ reviewed' = [reviewed EXCEPT ![s] = IF n # None THEN reviewed[s]
                                              ELSE reviewed[s] \cup {r.source}]
    BY <1>0, <1>4 DEF Replace
  <2>2. n # None => /\ n \in Numbers /\ rows[s][n].status = "superseded"
                    /\ rows[s][n].source = r.source /\ rows[s][n].triggers = r.source
                    /\ r.source \in Valid \cap reviewed[s]
    <3>1. n # None => n \in Numbers
      BY DEF None, Numbers
    <3>2. n # None => rows[s][n].status = "superseded" /\ rows[s][n].source = r.source
      BY <1>1, <1>2 DEF ReadIsStillSo
    <3> QED
      BY <3>1, <3>2 DEF IInv, IndexesMatch, Existing, ReviewedBeforeUse
  <2>3. n = None => r.source \in Valid
    BY <1>1, <1>2 DEF ReadIsStillSo
  <2>4. r.source \in Valid /\ r.source \in Sources
    BY <2>2, <2>3, ConstantsAssumption
  <2>5. /\ v \in Version /\ v.status = "published" /\ v.source = r.source
        /\ v.triggers = r.source
    <3> DEFINE d == Draft(r.source)
               t == IF n = None THEN r.source ELSE rows[s][n].triggers
               w == [d EXCEPT !.status = "published", !.triggers = t]
    <3>1. d \in Version /\ d.source = r.source
      BY <1>1, DraftFacts
    <3>2. t = r.source
      BY <2>2
    <3>3. v = w
      BY <1>1 DEF Replacement
    <3> HIDE DEF d, t, v
    <3>4. w \in Version /\ w.status = "published" /\ w.source = r.source /\ w.triggers = t
      BY <1>1, <3>1, <3>2 DEF Version, Statuses
    <3> QED
      BY <3>2, <3>3, <3>4
  <2>6. \A m \in Numbers :
          /\ rows[s][m] \in Version /\ replaced(rows[s][m]) \in Version
          /\ replaced(rows[s][m]).status = "superseded"
          /\ replaced(rows[s][m]).source = rows[s][m].source
          /\ replaced(rows[s][m]).triggers = rows[s][m].triggers
    <3>1. \A row \in Version :
            /\ replaced(row) \in Version /\ replaced(row).status = "superseded"
            /\ replaced(row).source = row.source /\ replaced(row).triggers = row.triggers
      BY DEF Version, Statuses
    <3> HIDE DEF replaced
    <3> QED
      BY <3>1, RowFields DEF IInv
  <2>7. /\ next \notin Existing(s) /\ rows[s][next].status = "none"
        /\ Replaceable(r) /\ b \in Numbers => rows[s][b].status = "published"
    <3>1. next \notin Existing(s)
      BY NextIsFree DEF IInv
    <3>2. Replaceable(r) /\ b \in Numbers => rows[s][b].status = "published"
      BY <1>1 DEF Replaceable, None, Numbers
    <3> QED
      BY <3>1, <3>2, <1>2 DEF Existing
  <2> DEFINE gone(m) == m = b /\ Replaceable(r)
  <2> HIDE DEF v, replaced, next
  <2>8. /\ after \in [Numbers -> Version] /\ after[next] = v
        /\ \A m \in Numbers \ {next} :
             after[m] = IF gone(m) THEN replaced(rows[s][m]) ELSE rows[s][m]
        /\ \A m \in Numbers : gone(m) => rows[s][m].status = "published"
    BY <1>2, <2>5, <2>6, <2>7
  <2> HIDE DEF after, gone
  <2>9. /\ rows' \in [Scripts -> [Numbers -> Version]] /\ rows'[s] = after
        /\ \A t \in Scripts \ {s} : rows'[t] = rows[t]
    BY <2>1, <2>8 DEF IInv, TypeOK
  <2>10. /\ current' \in [Scripts -> 0 .. MaxVersions] /\ current'[s] = next
         /\ \A t \in Scripts \ {s} : current'[t] = current[t]
    BY <1>2, <2>1 DEF IInv, TypeOK, Numbers
  <2>11. /\ origin' \in [Scripts -> {"none", "community", "official"}]
         /\ origin'[s] # "none" /\ \A t \in Scripts \ {s} : origin'[t] = origin[t]
    <3>1. n # None => origin[s] # "none"
      BY <2>2 DEF IInv, NoScriptNoVersions, Existing
    <3> QED
      BY <2>1, <3>1 DEF IInv, TypeOK
  <2>12. /\ reviewed' \in [Scripts -> SUBSET Sources]
         /\ reviewed[s] \subseteq reviewed'[s] /\ r.source \in reviewed'[s]
         /\ \A t \in Scripts \ {s} : reviewed'[t] = reviewed[t]
    BY <2>1, <2>2, <2>4 DEF IInv, TypeOK
  <2>13. Existing(s)' = Existing(s) \cup {NextVersion(s)}
    <3> SUFFICES ASSUME NEW m \in Numbers
                 PROVE  after[m].status # "none" <=> m = next \/ rows[s][m].status # "none"
      BY <1>2, <2>9 DEF Existing, next
    <3> QED
      BY <2>5, <2>6, <2>8
  <2>14. \A m \in Numbers : Succeeds(rows[s][m], rows'[s][m])
    <3> SUFFICES ASSUME NEW m \in Numbers PROVE Succeeds(rows[s][m], after[m])
      BY <2>9
    <3>1. CASE m = next
      BY <3>1, <2>7, <2>5, <2>8 DEF Succeeds
    <3>2. CASE m # next /\ gone(m)
      BY <3>2, <2>6, <2>8 DEF Succeeds
    <3>3. CASE m # next /\ ~gone(m)
      BY <3>3, <2>8, RowFields, SucceedsItself DEF IInv
    <3> QED
      BY <3>1, <3>2, <3>3
  <2>15. \A m \in Numbers : rows'[s][m] = rows[s][m] \/ RightRow(rows'[s][m], reviewed'[s])
    <3> SUFFICES ASSUME NEW m \in Numbers, after[m] # rows[s][m]
                 PROVE  RightRow(after[m], reviewed'[s])
      BY <2>9
    <3>1. CASE m = next
      BY <3>1, <2>4, <2>5, <2>8, <2>12 DEF RightRow
    <3>2. CASE m # next
      <4>1. after[m].source = rows[s][m].source /\ after[m].triggers = rows[s][m].triggers
            /\ rows[s][m].status = "published"
        BY <3>2, <2>6, <2>8
      <4> QED
        BY <4>1, <2>12 DEF RightRow, IInv, IndexesMatch, Existing, ReviewedBeforeUse
    <3> QED
      BY <3>1, <3>2
  <2>16. req' \in [Requests -> Request] /\ req'[p] = Idle(AnyScript)
         /\ \A q \in Requests \ {p} : req'[q] = req[q]
    BY <1>2, IdleFacts DEF IInv, TypeOK
  <2>17. current'[s] # None => rows'[s][current'[s]].status = "published"
    BY <1>2, <2>5, <2>8, <2>9, <2>10
  <2>18. \A q \in Requests \ {p} : Undisturbed(s, q)
    <3> SUFFICES ASSUME NEW q \in Requests \ {p}, req[q].script = s
                 PROVE  /\ \A m \in Changed(req[q]) : after[m] = rows[s][m]
                        /\ req[q].at # "copy"
      BY <2>9 DEF Undisturbed
    <3>1. req[q].at # "copy"
      BY <1>1, <1>2 DEF IInv, LocksAreExclusive, HoldsScript
    <3>2. Changed(req[q]) \subseteq Existing(s)
      BY DEF IInv, ReadIsStillSo, Changed, Existing, Numbers, None
    <3>3. \A m \in Changed(req[q]) : ~gone(m)
      BY <1>2 DEF VersionFree, gone, Changed, None, Numbers
    <3> QED
      BY <3>1, <3>2, <3>3, <2>7, <2>8 DEF Existing
  <2>19. \A q \in Requests : req'[q] = req[q] => Undisturbed(s, q) \/ req[q] = Idle(AnyScript)
    BY <2>16, <2>18
  <2> QED
    BY <1>2, <2>9, <2>10, <2>11, <2>12, <2>13, <2>14, <2>15, <2>16, <2>17, <2>19, Commit
  DEF IInv, TypeOK
<1> QED
  BY <1>3, <1>4

-----------------------------------------------------------------------------
(* Every step *)

LEMMA InitIInv == Init => IInv
<1> SUFFICES ASSUME Init PROVE IInv
  OBVIOUS
<1>1. \A s \in Scripts : Existing(s) = {}
  BY DEF Init, Existing, NoVersion
<1>2. NumberedFromOne
  BY <1>1, FS_EmptySet DEF NumberedFromOne
<1>3. NoVersion \in Version
  BY DEF NoVersion, Version, Statuses
<1>4. \A p \in Requests : /\ req[p] = Idle(AnyScript) /\ req[p] \in Request
                          /\ req[p].at = "idle" /\ Changed(req[p]) = {}
                          /\ ~HoldsScript(req[p])
  BY IdleFacts DEF Init
<1>5. \A p \in Requests : ReadIsStillSo(req[p])
  BY <1>4 DEF ReadIsStillSo
<1>6. TypeOK
  BY <1>2, <1>3, <1>4, ConstantsAssumption DEF Init, TypeOK, None
<1>7. ReviewedBeforeUse /\ CurrentIsPublished
  BY DEF Init, ReviewedBeforeUse, CurrentIsPublished, NoVersion, None
<1>8. NoScriptNoVersions /\ IndexesMatch
  BY <1>1 DEF NoScriptNoVersions, IndexesMatch
<1>9. LocksAreExclusive
  BY <1>4 DEF LocksAreExclusive
<1> QED
  BY <1>5, <1>6, <1>7, <1>8, <1>9 DEF IInv

\* One step keeps the invariant and the lives of the versions, and shows that a
\* saved draft replaces what its author saw.
Seen(p) ==
  req[p].at = "saved" /\ req'[p].at = "idle" /\ rows' # rows =>
    rows[req[p].script][req[p].version].source = req[p].seen

LEMMA Step ==
  ASSUME IInv, Next
  PROVE  IInv' /\ Kept /\ \A p \in Requests : Seen(p)
<1>1. ASSUME IInv', UNCHANGED rows
      PROVE  IInv' /\ Kept /\ \A p \in Requests : Seen(p)
  BY <1>1, SameRows DEF IInv, Seen
<1>2. ASSUME IInv', Kept, UNCHANGED req
      PROVE  IInv' /\ Kept /\ \A p \in Requests : Seen(p)
  BY <1>2 DEF Seen
<1>3. ASSUME NEW p \in Requests, End(p), req[p].at # "saved"
      PROVE  \A q \in Requests : Seen(q)
  <2>1. \A q \in Requests \ {p} : req'[q] = req[q]
    BY <1>3 DEF End, IInv, TypeOK
  <2> QED
    BY <1>3, <2>1 DEF Seen
<1> PICK p \in Requests :
      \/ \E s \in Scripts :
           ServeHTTP(p, s) \/ \E c \in Sources : ImportRequest(p, s, c)
      \/ UpdateDraft(p) \/ CommitDraft(p) \/ CopyIndexes(p)
      \/ ReadCurrent(p) \/ Supersede(p) \/ Promote(p) \/ PointCurrent(p)
      \/ LockForRollback(p) \/ LockForImport(p) \/ Replace(p) \/ Abort(p)
  BY DEF Next
<1>4. ASSUME NEW s \in Scripts, NEW c \in Sources, CreateYarnScript(s, c)
      PROVE  IInv' /\ Kept /\ \A q \in Requests : Seen(q)
  BY <1>2, <1>4, CreateIInv DEF CreateYarnScript
<1>5. ASSUME NEW s \in Scripts, NEW n \in Numbers, CopySource(p, s, n)
      PROVE  IInv' /\ Kept /\ \A q \in Requests : Seen(q)
  BY <1>1, <1>5, CopySourceIInv DEF CopySource
<1>6. ASSUME NEW s \in Scripts, NEW n \in Numbers, NEW c \in Sources,
             \/ SaveRequest(p, s, n, c) \/ PublishRequest(p, s, n)
             \/ RollbackRequest(p, s, n) \/ ImportRequest(p, s, c)
      PROVE  IInv' /\ Kept /\ \A q \in Requests : Seen(q)
  <2>1. UNCHANGED rows
    BY <1>6 DEF SaveRequest, PublishRequest, RollbackRequest, ImportRequest
  <2>2. IInv'
    BY <1>6, BeginIInv
  <2> QED
    BY <1>1, <2>1, <2>2
<1>7. ASSUME NEW s \in Scripts, NEW n \in Numbers, SubmitScriptVersion(s, n)
      PROVE  IInv' /\ Kept /\ \A q \in Requests : Seen(q)
  BY <1>2, <1>7, SubmitIInv DEF SubmitScriptVersion
<1>8. ASSUME NEW s \in Scripts, NEW a \in BOOLEAN, SetScriptArchived(s, a)
      PROVE  IInv' /\ Kept /\ \A q \in Requests : Seen(q)
  BY <1>1, <1>8, SetScriptArchivedIInv DEF SetScriptArchived
<1>9. CASE UpdateDraft(p)
  BY <1>1, <1>9, UpdateDraftIInv DEF UpdateDraft
<1>10. CASE CommitDraft(p)
  <2>1. \A q \in Requests \ {p} : req'[q] = req[q]
    BY <1>10 DEF CommitDraft, End, IInv, TypeOK
  <2>2. /\ IInv' /\ Kept
        /\ rows[req[p].script][req[p].version].source = req[p].seen
    BY <1>10, CommitDraftIInv
  <2> QED
    BY <2>1, <2>2 DEF Seen
<1>11. CASE CopyIndexes(p)
  BY <1>3, <1>11, CopyIndexesIInv DEF CopyIndexes
<1>12. CASE ReadCurrent(p)
  BY <1>1, <1>12, ReadCurrentIInv DEF ReadCurrent
<1>13. CASE Supersede(p)
  BY <1>1, <1>13, SupersedeIInv DEF Supersede
<1>14. CASE Promote(p)
  BY <1>1, <1>14, PromoteIInv DEF Promote
<1>15. CASE PointCurrent(p)
  BY <1>3, <1>15, PointCurrentIInv DEF PointCurrent
<1>16. CASE LockForRollback(p) \/ LockForImport(p)
  <2>1. UNCHANGED rows
    BY <1>16 DEF LockForRollback, LockForImport
  <2>2. IInv'
    BY <1>16, LockIInv
  <2> QED
    BY <1>1, <2>1, <2>2
<1>17. CASE Replace(p)
  BY <1>3, <1>17, ReplaceIInv DEF Replace
<1>18. CASE Abort(p)
  BY <1>1, <1>18, EndIInv DEF Abort
<1>19. ASSUME NEW s \in Scripts, ServeHTTP(p, s)
       PROVE  IInv' /\ Kept /\ \A q \in Requests : Seen(q)
  <2>1. CASE Collection(s)
    BY <2>1, <1>4 DEF Collection
  <2>2. CASE CreateVersion(p, s)
    BY <2>2, <1>5 DEF CreateVersion
  <2>3. ASSUME NEW n \in Numbers, VersionHandler(p, s, n)
        PROVE  IInv' /\ Kept /\ \A q \in Requests : Seen(q)
    <3>1. Sources # {}
      BY <2>3, ConstantsAssumption
      DEF VersionHandler, SubmitScriptVersion, MaySubmit, PublishRequest,
          RollbackRequest, MayRollBackTo
    <3> QED
      BY <2>3, <3>1, <1>6, <1>7 DEF VersionHandler
  <2>4. CASE SetArchivedHandler(s)
    BY <2>4, <1>8 DEF SetArchivedHandler
  <2> QED
    BY <1>19, <2>1, <2>2, <2>3, <2>4 DEF ServeHTTP
<1>20. ASSUME NEW s \in Scripts, NEW c \in Sources, ImportRequest(p, s, c)
       PROVE  IInv' /\ Kept /\ \A q \in Requests : Seen(q)
  <2>1. 1 \in Numbers
    BY ConstantsAssumption DEF Numbers
  <2> QED
    BY <1>20, <2>1, <1>6
<1> QED
  BY <1>9, <1>10, <1>11, <1>12, <1>13, <1>14, <1>15, <1>16, <1>17, <1>18, <1>19, <1>20

-----------------------------------------------------------------------------
(* Theorems *)

LEMMA Stutter ==
  ASSUME IInv, UNCHANGED vars
  PROVE  IInv'
<1>1. UNCHANGED <<origin, archived, current, rows, req, reviewed>>
  BY DEF vars
<1>2. TypeOK' /\ LocksAreExclusive'
  BY <1>1 DEF IInv, TypeOK, NumberedFromOne, Existing, LocksAreExclusive
<1>3. ReviewedBeforeUse' /\ CurrentIsPublished' /\ NoScriptNoVersions' /\ IndexesMatch'
  BY <1>1 DEF IInv, ReviewedBeforeUse, CurrentIsPublished, NoScriptNoVersions,
              IndexesMatch, Existing
<1>4. \A p \in Requests : ReadIsStillSo(req[p])'
  BY <1>1 DEF IInv, ReadIsStillSo
<1> QED
  BY <1>2, <1>3, <1>4 DEF IInv

\* The rows, the locks, and what requests in progress have read.
THEOREM Invariance == Spec => []IInv
<1>1. IInv /\ [Next]_vars => IInv'
  BY Step, Stutter
<1> QED
  BY <1>1, InitIInv, PTL DEF Spec

\* Every variable keeps its type, and a script's versions are numbered from one
\* without a gap.
THEOREM TypeCorrect == Spec => []TypeOK
BY Invariance, PTL DEF IInv

\* What scripts.current_published_version_id points to is published and compiles,
\* and its source has been reviewed, whatever is published, rolled back, imported,
\* saved and archived at the same time.
THEOREM ServedVersionsAreReviewed == Spec => []ServedIsReviewed
<1>1. IInv => ServedIsReviewed
  <2> SUFFICES ASSUME IInv, NEW s \in Scripts, current[s] # None
               PROVE  /\ rows[s][current[s]].status = "published"
                      /\ rows[s][current[s]].source \in Valid \cap reviewed[s]
    BY DEF ServedIsReviewed
  <2>1. current[s] \in Numbers
    BY DEF IInv, TypeOK, None, Numbers
  <2> QED
    BY <2>1 DEF IInv, CurrentIsPublished, ReviewedBeforeUse
<1> QED
  BY <1>1, Invariance, PTL

\* script_version_triggers holds the triggers of the source in script_versions.
THEOREM IndexesAlwaysMatch == Spec => []IndexesMatch
BY Invariance, PTL DEF IInv

\* SaveYarnScriptDraft replaces the source its author saw, and no other.
THEOREM EditsAreAlwaysSeen == Spec => EditsAreSeen
<1>1. IInv /\ [Next]_vars =>
        [\A p \in Requests :
           req[p].at = "saved" /\ req'[p].at = "idle" /\ rows' # rows =>
             rows[req[p].script][req[p].version].source = req[p].seen]_vars
  BY Step DEF Seen
<1> QED
  BY <1>1, Invariance, PTL DEF Spec, EditsAreSeen

\* A version that was reviewed stays what was reviewed, and a draft changes with
\* its revision only.
THEOREM VersionsAreAlwaysKept == Spec => VersionsAreKept
<1>1. IInv /\ [Next]_vars =>
        [\A s \in Scripts, n \in Numbers : Succeeds(rows[s][n], rows'[s][n])]_vars
  BY Step DEF Kept
<1> QED
  BY <1>1, Invariance, PTL DEF Spec, VersionsAreKept

-----------------------------------------------------------------------------
(* Part two: Rooms *)

-----------------------------------------------------------------------------
(* Sequences *)

LEMMA Parts ==
  ASSUME NEW S, NEW s \in Seq(S), s # <<>>
  PROVE  /\ Head(s) \in S /\ Tail(s) \in Seq(S)
         /\ ToSet(s) = {Head(s)} \cup ToSet(Tail(s))
<1> DEFINE r == Tail(s)
<1>1. /\ DOMAIN s = 1 .. Len(s) /\ Len(s) \in Nat /\ Len(s) > 0
      /\ DOMAIN r = 1 .. Len(s) - 1 /\ r \in Seq(S)
      /\ \A i \in DOMAIN r : r[i] = s[i + 1]
      /\ Head(s) = s[1] /\ s[1] \in S
  OBVIOUS
<1> HIDE DEF r
<1>2. ASSUME NEW i \in DOMAIN s PROVE s[i] \in {Head(s)} \cup ToSet(r)
  <2>1. CASE i = 1
    BY <1>1, <2>1
  <2>2. CASE i # 1
    <3>1. i - 1 \in DOMAIN r /\ r[i - 1] = s[i]
      BY <1>1, <2>2
    <3> QED
      BY <3>1 DEF ToSet
  <2> QED
    BY <2>1, <2>2
<1>3. \A i \in DOMAIN r : r[i] \in ToSet(s)
  <2>1. \A i \in DOMAIN r : i + 1 \in DOMAIN s
    BY <1>1
  <2> QED
    BY <1>1, <2>1 DEF ToSet
<1>4. Head(s) \in ToSet(s)
  BY <1>1 DEF ToSet
<1>5. ToSet(s) = {Head(s)} \cup ToSet(r)
  BY <1>2, <1>3, <1>4 DEF ToSet
<1> QED
  BY <1>1, <1>5 DEF r

LEMMA Put ==
  ASSUME NEW S, NEW s \in Seq(S), NEW a \in S
  PROVE  <<a>> \o s \in Seq(S) /\ ToSet(<<a>> \o s) = {a} \cup ToSet(s)
<1>1. PICK r : r = <<a>> \o s
  OBVIOUS
<1>2. r \in Seq(S) /\ r # <<>> /\ Head(r) = a /\ Tail(r) = s
  <2>1. /\ r \in Seq(S) /\ Len(r) = Len(s) + 1 /\ Len(s) \in Nat
        /\ r[1] = a /\ \A i \in 1 .. Len(s) : r[i + 1] = s[i]
    BY <1>1
  <2>2. r # <<>> /\ Head(r) = a
    BY <2>1
  <2>3. Tail(r) \in Seq(S) /\ Len(Tail(r)) = Len(s)
        /\ \A i \in 1 .. Len(s) : Tail(r)[i] = s[i]
    BY <2>1, <2>2
  <2> QED
    BY <2>1, <2>2, <2>3
<1> QED
  BY <1>1, <1>2, Parts

LEMMA Literals ==
  /\ ToSet(<<>>) = {}
  /\ \A a : ToSet(<<a>>) = {a}
  /\ \A a, b : ToSet(<<a, b>>) = {a, b}
BY DEF ToSet

-----------------------------------------------------------------------------
(* What is still to be sent *)

LEMMA Names ==
  ASSUME NEW c \in Clients
  PROVE  /\ Reader(c) \in Threads /\ Leaver(c) \in Threads /\ Reader(c) # Leaver(c)
         /\ \A d : Reader(c) = Reader(d) \/ Leaver(c) = Leaver(d) => c = d
         /\ \A d : Reader(c) # Leaver(d)
BY DEF Reader, Leaver, Threads

LEMMA EveryThread ==
  ASSUME NEW t \in Threads
  PROVE  \E c \in Clients : t = Reader(c) \/ t = Leaver(c)
BY DEF Reader, Leaver, Threads

\* What a list of calls tells d.
For(calls, d) ==
  {[kind |-> m.kind, about |-> m.about] : m \in {n \in calls : d \in n.to}}

LEMMA ToSendIs ==
  ASSUME NEW t, NEW d
  PROVE  ToSend(t, d) = For(ToSet(sends[t]), d)
BY DEF ToSend, For

LEMMA ForMembers ==
  /\ \A d : For({}, d) = {}
  /\ \A m, d : For({m}, d) = IF d \in m.to
                             THEN {[kind |-> m.kind, about |-> m.about]} ELSE {}
  /\ \A M, N, d : For(M \cup N, d) = For(M, d) \cup For(N, d)
<1>1. \A d : For({}, d) = {}
  BY DEF For
<1>2. ASSUME NEW m, NEW d
      PROVE  For({m}, d) = IF d \in m.to
                           THEN {[kind |-> m.kind, about |-> m.about]} ELSE {}
  BY DEF For
<1>3. ASSUME NEW M, NEW N, NEW d
      PROVE  For(M \cup N, d) = For(M, d) \cup For(N, d)
  BY DEF For
<1> QED
  BY <1>1, <1>2, <1>3

LEMMA NothingToSend ==
  ASSUME NEW t, NEW d, sends[t] = <<>>
  PROVE  ToSend(t, d) = {}
BY ToSendIs, Literals, ForMembers

LEMMA CallsAreTyped ==
  ASSUME RoomsTypeOK, NEW t \in Threads, NEW d, NEW m \in ToSend(t, d)
  PROVE  /\ m.kind \in {"snapshot", "state", "left"} /\ m.about \subseteq Visits
         /\ sends[t] # <<>>
<1>1. PICK n \in ToSet(sends[t]) : m = [kind |-> n.kind, about |-> n.about]
  BY DEF ToSend
<1>2. sends[t] \in Seq(Calls)
  BY DEF RoomsTypeOK
<1>3. \A i \in DOMAIN sends[t] : sends[t][i] \in Calls
  BY ONLY <1>2
<1>4. n \in Calls
  BY <1>3 DEF ToSet
<1>5. sends[t] # <<>>
  BY <1>1, Literals
<1> QED
  BY <1>1, <1>4, <1>5 DEF Calls

\* The handler of t begins, with the calls q, or is over with one of them.
LEMMA SendsOf ==
  ASSUME RoomsTypeOK, NEW t \in Threads, NEW q \in Seq(Calls), sends' = [sends EXCEPT ![t] = q]
  PROVE  /\ sends' \in [Threads -> Seq(Calls)]
         /\ sends'[t] = q
         /\ \A u \in Threads \ {t} : sends'[u] = sends[u]
         /\ \A u \in Threads \ {t} : \A d : ToSend(u, d)' = ToSend(u, d)
         /\ \A d : ToSend(t, d)' = For(ToSet(q), d)
<1>1. /\ sends' \in [Threads -> Seq(Calls)]
      /\ sends'[t] = q
      /\ \A u \in Threads \ {t} : sends'[u] = sends[u]
  BY DEF RoomsTypeOK
<1>2. \A u \in Threads \ {t} : \A d : ToSend(u, d)' = ToSend(u, d)
  BY <1>1 DEF ToSend
<1>3. \A d : ToSend(t, d)' = For(ToSet(q), d)
  BY <1>1 DEF ToSend, For
<1> QED
  BY <1>1, <1>2, <1>3

LEMMA DeliverSends ==
  ASSUME RoomsTypeOK, NEW t \in Threads, NEW d \in Clients, sends[t] # <<>>,
         d \in Head(sends[t]).to, sends' = [sends EXCEPT ![t] = Rest(t, d)]
  PROVE  /\ sends' \in [Threads -> Seq(Calls)]
         /\ \A u \in Threads : sends[u] = <<>> => sends'[u] = <<>>
         /\ \A u \in Threads, e \in Clients :
              u # t \/ e # d => ToSend(u, e)' = ToSend(u, e)
         /\ ToSend(t, d) =
              ToSend(t, d)' \cup {[kind |-> Head(sends[t]).kind,
                                   about |-> Head(sends[t]).about]}
<1>1. PICK s \in Seq(Calls) : s = sends[t]
  BY DEF RoomsTypeOK
<1>2. PICK m, r : m = Head(s) /\ r = Tail(s)
  OBVIOUS
<1>3. m \in Calls /\ r \in Seq(Calls) /\ ToSet(s) = {m} \cup ToSet(r)
  BY <1>1, <1>2, Parts
<1>4. PICK n : n = [m EXCEPT !.to = m.to \ {d}]
  OBVIOUS
<1>5. /\ n \in Calls /\ n.kind = m.kind /\ n.about = m.about /\ n.to = m.to \ {d}
  BY <1>3, <1>4 DEF Calls
<1>6. PICK q : q = Rest(t, d)
  OBVIOUS
<1>7. q = IF m.to \ {d} = {} THEN r ELSE <<n>> \o r
  BY <1>1, <1>2, <1>4, <1>6 DEF Rest
<1>8. /\ q \in Seq(Calls)
      /\ ToSet(q) = IF m.to \ {d} = {} THEN ToSet(r) ELSE {n} \cup ToSet(r)
  BY <1>3, <1>5, <1>7, Put
<1>9. /\ sends' \in [Threads -> Seq(Calls)]
      /\ \A u \in Threads \ {t} : sends'[u] = sends[u]
      /\ \A u \in Threads \ {t} : \A e : ToSend(u, e)' = ToSend(u, e)
      /\ \A e : ToSend(t, e)' = For(ToSet(q), e)
  BY <1>6, <1>8, SendsOf
<1>10. ASSUME NEW e
       PROVE  ToSend(t, e) = For({m}, e) \cup For(ToSet(r), e)
  <2>1. ToSend(t, e) = For({m} \cup ToSet(r), e)
    BY <1>1, <1>3, ToSendIs
  <2> QED
    BY <2>1, ForMembers
<1>11. ASSUME NEW e
       PROVE  For(ToSet(q), e) = IF m.to \ {d} = {} THEN For(ToSet(r), e)
                                 ELSE For({n}, e) \cup For(ToSet(r), e)
  <2>1. For({n} \cup ToSet(r), e) = For({n}, e) \cup For(ToSet(r), e)
    BY ForMembers
  <2>2. CASE m.to \ {d} = {}
    BY <1>8, <2>2
  <2>3. CASE m.to \ {d} # {}
    BY <1>8, <2>1, <2>3
  <2> QED
    BY <2>2, <2>3
<1>12. PICK x : x = [kind |-> m.kind, about |-> m.about]
  OBVIOUS
<1>13. \A e : /\ For({m}, e) = IF e \in m.to THEN {x} ELSE {}
              /\ For({n}, e) = IF e \in m.to \ {d} THEN {x} ELSE {}
  BY <1>5, <1>12, ForMembers
<1>14. ASSUME NEW e, e # d
       PROVE  For(ToSet(q), e) = ToSend(t, e)
  BY <1>10, <1>11, <1>13, <1>14
<1>15. d \in m.to
  BY <1>1, <1>2
<1>16. For(ToSet(q), d) \cup {x} = ToSend(t, d)
  BY <1>10, <1>11, <1>13, <1>15
<1>17. \A u \in Threads : sends[u] = <<>> => sends'[u] = <<>>
  BY <1>9
<1> QED
  BY <1>1, <1>2, <1>9, <1>12, <1>14, <1>16, <1>17

-----------------------------------------------------------------------------
(* What a step leaves alone *)

\* Of a player p and one who hears of it.
Agreed(d, p) == VisitsAreAnnounced(d, p) /\ EndsAreSent(d, p) /\ ShownInTheEnd(d, p)

LEMMA AgreedStays ==
  ASSUME NEW d \in Clients, NEW p \in Clients, Agreed(d, p),
         world'[d] = world[d], world'[p] = world[p], visits'[p] = visits[p],
         told'[d] = told[d], parted'[d] = parted[d], shown'[d] = shown[d],
         InOrder(d, p)' => InOrder(d, p), <<d, p>> \in cut => <<d, p>> \in cut',
         ToSend(Reader(d), d)' = ToSend(Reader(d), d),
         ToSend(Reader(p), d)' = ToSend(Reader(p), d),
         ToSend(Leaver(p), d)' = ToSend(Leaver(p), d)
  PROVE  Agreed(d, p)'
<1>1. Visit(p)' = Visit(p) /\ PlayerSends(p, d)' = PlayerSends(p, d)
  BY DEF Visit, PlayerSends
<1>2. \A v : /\ Announced(d, p, v)' <=> Announced(d, p, v)
             /\ EndIsSent(d, p, v)' <=> EndIsSent(d, p, v)
  BY <1>1 DEF Announced, EndIsSent
<1>3. \A vs : Agrees(d, p, vs)' <=> Agrees(d, p, vs)
  BY DEF Agrees, Of, WorldOf
<1>4. VisitsAreAnnounced(d, p)'
  BY <1>1, <1>2 DEF Agreed, VisitsAreAnnounced
<1>5. EndsAreSent(d, p)'
  BY <1>2 DEF Agreed, EndsAreSent
<1>6. ShownInTheEnd(d, p)'
  BY <1>1, <1>3 DEF Agreed, ShownInTheEnd
<1> QED
  BY <1>4, <1>5, <1>6 DEF Agreed

LEMMA OwnStays ==
  ASSUME NEW d \in Clients, NEW p \in Clients, CallsAreOwn(p, d),
         visits'[p] = visits[p], <<d, p>> \in cut => <<d, p>> \in cut',
         world[p] # NoWorld => world'[p] # NoWorld \/ <<d, p>> \in cut',
         ToSend(Reader(p), d)' \subseteq ToSend(Reader(p), d),
         ToSend(Leaver(p), d)' \subseteq ToSend(Leaver(p), d)
  PROVE  CallsAreOwn(p, d)'
<1>1. Visit(p)' = Visit(p)
  BY DEF Visit
<1> QED
  BY <1>1 DEF CallsAreOwn

\* The visits go on.
VisitsGrow ==
  \A c \in Clients : \A n \in DOMAIN visits[c] :
    n \in DOMAIN visits'[c] /\ visits'[c][n] = visits[c][n]

LEMMA BegunStays ==
  ASSUME VisitsGrow, NEW v \in Visits, Begun(v)
  PROVE  Begun(v)' /\ WorldOf(v)' = WorldOf(v)
BY DEF VisitsGrow, Visits, Begun, WorldOf

LEMMA OnlyBegunStays ==
  ASSUME RoomsTypeOK, VisitsGrow, NEW d \in Clients, OnlyBegun(d),
         \A v \in told'[d] \cup shown'[d] : v \in told[d] \cup shown[d] \/ Begun(v)',
         \A t \in Threads : \A m \in ToSend(t, d)' :
           m \in ToSend(t, d) \/ \A v \in m.about : Begun(v)'
  PROVE  OnlyBegun(d)'
<1>1. ASSUME NEW v \in told'[d] \cup shown'[d]
      PROVE  Begun(v)'
  <2>1. CASE v \in told[d] \cup shown[d]
    <3>1. v \in Visits /\ Begun(v)
      BY <2>1 DEF RoomsTypeOK, OnlyBegun
    <3> QED
      BY <3>1, BegunStays
  <2> QED
    BY <1>1, <2>1
<1>2. ASSUME NEW t \in Threads, NEW m \in ToSend(t, d)', NEW v \in m.about
      PROVE  Begun(v)'
  <2>1. CASE m \in ToSend(t, d)
    <3>1. v \in Visits /\ Begun(v)
      BY <1>2, <2>1, CallsAreTyped DEF OnlyBegun
    <3> QED
      BY <3>1, BegunStays
  <2> QED
    BY <1>2, <2>1
<1> QED
  BY <1>1, <1>2 DEF OnlyBegun

\* Nothing is said.
LEMMA Silence ==
  ASSUME RoomsIInv, RoomsTypeOK', PlayersAreOnVisits',
         UNCHANGED <<world, visits, told, parted, shown, crossed, cut, full>>,
         \A t \in Threads, d \in Clients : ToSend(t, d)' = ToSend(t, d)
  PROVE  RoomsIInv'
<1>1. VisitsGrow
  BY DEF VisitsGrow
<1>2. ASSUME NEW d \in Clients
      PROVE  OnlyBegun(d)'
  BY <1>1, OnlyBegunStays DEF RoomsIInv
<1>3. ASSUME NEW d \in Clients, NEW p \in Clients
      PROVE  /\ CallsAreOwn(p, d)'
             /\ d # p /\ Hears(d)' => Agreed(d, p)'
  <2>1. /\ ToSend(Reader(p), d)' = ToSend(Reader(p), d)
        /\ ToSend(Leaver(p), d)' = ToSend(Leaver(p), d)
        /\ ToSend(Reader(d), d)' = ToSend(Reader(d), d)
    BY Names
  <2>2. CallsAreOwn(p, d)'
    BY <2>1, OwnStays DEF RoomsIInv
  <2>3. ASSUME d # p, Hears(d)'
        PROVE  Agreed(d, p)'
    <3>1. Agreed(d, p)
      BY <2>3 DEF RoomsIInv, Hears, Agreed
    <3> QED
      BY <2>1, <3>1, AgreedStays DEF InOrder
  <2> QED
    BY <2>2, <2>3
<1> QED
  BY <1>2, <1>3 DEF RoomsIInv, Agreed

-----------------------------------------------------------------------------
(* Sending *)

\* What m leaves in the sight of d of the visits of p.
LEMMA AfterSeen ==
  ASSUME NEW m, NEW known, NEW p,
         m.kind \in {"state", "left"}, \A v \in m.about : v[1] # p
  PROVE  Of(p, After(m, known)) = Of(p, known)
<1>1. Of(p, m.about) = {}
  BY DEF Of
<1>2. ASSUME NEW v \in known, v[1] = p
      PROVE  Of(v[1], m.about) = {}
  BY <1>1, <1>2
<1>3. CASE m.kind = "state"
  BY <1>2, <1>3 DEF After, Of
<1>4. CASE m.kind = "left"
  BY <1>2, <1>4 DEF After, Of
<1> QED
  BY <1>3, <1>4

\* d hears a call x, of which there may be another one.
Heard(t, d, x) ==
  /\ UNCHANGED <<world, visits, crossed, cut, full>>
  /\ ToSend(t, d) = ToSend(t, d)' \cup {x}
  /\ \A u \in Threads \ {t} : ToSend(u, d)' = ToSend(u, d)
  /\ shown'[d] = After(x, shown[d])
  /\ IF x.kind = "left"
     THEN parted'[d] = parted[d] \cup x.about /\ told'[d] = told[d]
     ELSE told'[d] = told[d] \cup x.about /\ parted'[d] = parted[d]

\* The sender of x.
LEMMA Senders ==
  ASSUME RoomsIInv, NEW t \in Threads, NEW d \in Clients, NEW x, Heard(t, d, x)
  PROVE  /\ x \in ToSend(t, d) /\ x.kind \in {"snapshot", "state", "left"}
         /\ \A v \in x.about : Begun(v) /\ v \in Visits
         /\ x.kind = "snapshot" => t = Reader(d)
         /\ x.kind # "snapshot" => \E q \in Clients \ {d} :
              /\ t \in {Reader(q), Leaver(q)} /\ \A v \in x.about : v[1] = q
              /\ x.kind = "state" =>
                   /\ t = Reader(q) /\ x.about = {Visit(q)}
                   /\ <<d, q>> \in cut \/ world[q] # NoWorld
              /\ x.kind = "left" => x.about # {}
<1>1. x \in ToSend(t, d)
  BY DEF Heard
<1>2. x.kind \in {"snapshot", "state", "left"} /\ x.about \subseteq Visits
  BY <1>1, CallsAreTyped DEF RoomsIInv
<1>3. \A v \in x.about : Begun(v) /\ v \in Visits
  BY <1>1, <1>2 DEF RoomsIInv, OnlyBegun
<1>4. PICK q \in Clients : t = Reader(q) \/ t = Leaver(q)
  BY EveryThread
<1>5. CallsAreOwn(q, d)
  BY DEF RoomsIInv
<1>6. CASE t = Reader(q)
  <2>1. x.kind = "snapshot" => d = q
    BY <1>1, <1>5, <1>6 DEF CallsAreOwn
  <2>2. x.kind # "snapshot" =>
          /\ q # d /\ \A v \in x.about : v[1] = q
          /\ x.kind = "state" => /\ x.about = {Visit(q)}
                                 /\ <<d, q>> \in cut \/ world[q] # NoWorld
          /\ x.kind = "left" => x.about # {}
    BY <1>1, <1>2, <1>5, <1>6 DEF CallsAreOwn, Visit
  <2> QED
    BY <1>1, <1>2, <1>3, <1>6, <2>1, <2>2
<1>7. CASE t = Leaver(q)
  <2>1. x.kind = "left" /\ q # d /\ x.about # {} /\ \A v \in x.about : v[1] = q
    BY <1>1, <1>5, <1>7 DEF CallsAreOwn
  <2> QED
    BY <1>1, <1>3, <1>7, <2>1
<1> QED
  BY <1>4, <1>6, <1>7

LEMMA HeardAnnounced ==
  ASSUME RoomsIInv, NEW t \in Threads, NEW d \in Clients, NEW x, Heard(t, d, x),
         NEW p \in Clients, p # d, NEW v, v[1] = p
  PROVE  /\ Announced(d, p, v)' <=> Announced(d, p, v)
         /\ EndIsSent(d, p, v) => EndIsSent(d, p, v)'
<1>1. /\ Reader(d) \in Threads /\ Reader(p) \in Threads /\ Leaver(p) \in Threads
      /\ \A u \in Threads : /\ ToSend(u, d)' \subseteq ToSend(u, d)
                            /\ \A m \in ToSend(u, d) : m = x \/ m \in ToSend(u, d)'
  BY Names DEF Heard
<1>2. /\ x \in ToSend(t, d) /\ x.kind \in {"snapshot", "state", "left"}
      /\ x.kind = "snapshot" => t = Reader(d)
      /\ x.kind = "state" => \E q \in Clients \ {d} : t = Reader(q) /\ x.about = {Visit(q)}
  <2>1. /\ x \in ToSend(t, d) /\ x.kind \in {"snapshot", "state", "left"}
        /\ x.kind = "snapshot" => t = Reader(d)
    BY Senders
  <2>2. ASSUME x.kind = "state"
        PROVE  \E q \in Clients \ {d} : t = Reader(q) /\ x.about = {Visit(q)}
    <3>1. PICK q \in Clients \ {d} :
            x.kind = "state" => t = Reader(q) /\ x.about = {Visit(q)}
      BY <2>2, Senders
    <3> QED
      BY <2>2, <3>1
  <2> QED
    BY <2>1, <2>2
<1>3. CASE x.kind = "left"
  <2>1. Announced(d, p, v)' <=> Announced(d, p, v)
    BY <1>1, <1>3 DEF Announced, Heard
  <2>2. PlayerSends(p, d)' \subseteq PlayerSends(p, d)
        /\ \A m \in PlayerSends(p, d) : m = x \/ m \in PlayerSends(p, d)'
    BY <1>1 DEF PlayerSends
  <2>3. EndIsSent(d, p, v) => EndIsSent(d, p, v)'
    BY <1>3, <2>2 DEF EndIsSent, Heard
  <2> QED
    BY <2>1, <2>3
<1>4. CASE x.kind # "left"
  <2>0. told'[d] = told[d] \cup x.about /\ parted'[d] = parted[d]
    BY <1>4 DEF Heard
  <2>1. ASSUME Announced(d, p, v)
        PROVE  Announced(d, p, v)'
    BY <1>1, <2>0, <2>1 DEF Announced
  <2>2. ASSUME Announced(d, p, v)'
        PROVE  Announced(d, p, v)
    <3>1. CASE v \in x.about
      <4>1. CASE x.kind = "snapshot"
        BY <1>2, <3>1, <4>1 DEF Announced
      <4>2. CASE x.kind = "state"
        <5>1. PICK q \in Clients \ {d} : t = Reader(q) /\ x.about = {Visit(q)}
          BY <1>2, <4>2
        <5>2. q = p
          BY <3>1, <5>1 DEF Visit
        <5> QED
          BY <1>2, <3>1, <4>2, <5>1, <5>2 DEF Announced
      <4> QED
        BY <1>2, <1>4, <4>1, <4>2
    <3>2. CASE v \notin x.about
      BY <1>1, <2>0, <2>2, <3>2 DEF Announced
    <3> QED
      BY <3>1, <3>2
  <2>3. \A m \in PlayerSends(p, d) : m = x \/ m \in PlayerSends(p, d)'
    BY <1>1 DEF PlayerSends
  <2>4. EndIsSent(d, p, v) => EndIsSent(d, p, v)'
    BY <1>4, <2>0, <2>3 DEF EndIsSent
  <2> QED
    BY <2>1, <2>2, <2>4
<1> QED
  BY <1>3, <1>4

LEMMA HeardShown ==
  ASSUME RoomsIInv, NEW t \in Threads, NEW d \in Clients, NEW x, Heard(t, d, x),
         NEW p \in Clients, p # d, Hears(d)
  PROVE  ShownInTheEnd(d, p)'
<1> SUFFICES ASSUME InOrder(d, p)'
             PROVE  /\ \A m \in ToSend(Reader(d), d)' :
                         m.kind = "snapshot" => Agrees(d, p, m.about)'
                    /\ \A m \in PlayerSends(p, d)' : m.kind = "left" => world'[p] # world'[d]
                    /\ \/ \E m \in ToSend(Reader(d), d)' : m.kind = "snapshot"
                       \/ PlayerSends(p, d)' # {}
                       \/ Agrees(d, p, shown[d])'
  BY DEF ShownInTheEnd
<1>1. /\ Reader(d) \in Threads /\ Reader(p) \in Threads /\ Leaver(p) \in Threads
      /\ Reader(d) \notin {Reader(p), Leaver(p)}
      /\ \A u \in Threads : ToSend(u, d)' \subseteq ToSend(u, d)
      /\ \A u \in Threads \ {t} : ToSend(u, d)' = ToSend(u, d)
  BY Names DEF Heard
<1>2. /\ \A vs : Agrees(d, p, vs)' <=> Agrees(d, p, vs)
      /\ world' = world
  BY DEF Heard, Agrees, Of, WorldOf
<1>3. /\ \A m \in ToSend(Reader(d), d) : m.kind = "snapshot" => Agrees(d, p, m.about)
      /\ \A m \in PlayerSends(p, d) : m.kind = "left" => world[p] # world[d]
      /\ \/ \E m \in ToSend(Reader(d), d) : m.kind = "snapshot"
         \/ PlayerSends(p, d) # {}
         \/ Agrees(d, p, shown[d])
  BY DEF RoomsIInv, ShownInTheEnd, Heard, InOrder
<1>4. PlayerSends(p, d)' \subseteq PlayerSends(p, d)
  BY <1>1 DEF PlayerSends
<1>5. /\ x \in ToSend(t, d) /\ x.kind \in {"snapshot", "state", "left"}
      /\ x.kind = "snapshot" => t = Reader(d)
  BY Senders
<1>6. shown'[d] = After(x, shown[d])
  BY DEF Heard
<1>7. \/ \E m \in ToSend(Reader(d), d)' : m.kind = "snapshot"
      \/ PlayerSends(p, d)' # {}
      \/ Agrees(d, p, shown[d])'
  <2>1. CASE x.kind = "snapshot"
    <3>1. shown'[d] = x.about
      BY <1>6, <2>1 DEF After
    <3>2. Agrees(d, p, x.about)
      BY <1>3, <1>5, <2>1
    <3>3. Agrees(d, p, x.about)'
      BY <1>2, <3>2
    <3> QED
      BY <3>1, <3>3 DEF Agrees
  <2>2. CASE x.kind # "snapshot"
    <3>1. PICK q \in Clients \ {d} :
            /\ t \in {Reader(q), Leaver(q)} /\ \A v \in x.about : v[1] = q
            /\ x.kind = "state" =>
                 /\ t = Reader(q) /\ x.about = {Visit(q)}
                 /\ <<d, q>> \in cut \/ world[q] # NoWorld
            /\ x.kind = "left" => x.about # {}
      BY <2>2, Senders
    <3>2. CASE q # p
      <4>1. ToSend(Reader(d), d)' = ToSend(Reader(d), d)
        BY <1>1, <3>1, Names DEF Heard
      <4>2. t \notin {Reader(p), Leaver(p)}
        BY <3>1, <3>2, Names
      <4>3. PlayerSends(p, d)' = PlayerSends(p, d)
        BY <1>1, <4>2 DEF PlayerSends
      <4>4. Of(p, shown'[d]) = Of(p, shown[d])
        BY <1>5, <1>6, <2>2, <3>1, <3>2, AfterSeen
      <4>5. Agrees(d, p, shown[d]) => Agrees(d, p, shown[d])'
        BY <1>2, <4>4 DEF Agrees, WorldOf, Heard
      <4> QED
        BY <1>3, <4>1, <4>3, <4>5
    <3>3. CASE q = p /\ x.kind = "state"
      <4>1. shown'[d] = {v \in shown[d] : Of(v[1], x.about) = {}} \cup x.about
        BY <1>6, <3>3 DEF After
      <4>2. x.about = {Visit(p)} /\ Visit(p)[1] = p
        BY <3>1, <3>3 DEF Visit
      <4>3. Of(p, x.about) # {}
        BY <4>2 DEF Of
      <4>4. Of(p, shown'[d]) = {Visit(p)}
        BY <4>1, <4>2, <4>3 DEF Of
      <4>5. world[p] # NoWorld
        BY <3>1, <3>3 DEF Heard, InOrder
      <4>6. WorldOf(Visit(p)) = world[p]
        BY <4>5 DEF RoomsIInv, PlayersAreOnVisits
      <4>7. Agrees(d, p, shown'[d])
        BY <4>4, <4>6 DEF Agrees
      <4> QED
        BY <4>7 DEF Agrees, WorldOf, Heard
    <3>4. CASE q = p /\ x.kind = "left"
      <4>1. shown'[d] = {v \in shown[d] : Of(v[1], x.about) = {}}
        BY <1>6, <3>4 DEF After
      <4>2. Of(p, x.about) # {}
        BY <3>1, <3>4 DEF Of
      <4>3. Of(p, shown'[d]) = {}
        BY <4>1, <4>2 DEF Of
      <4>4. world[p] # world[d]
        BY <1>3, <1>5, <3>1, <3>4 DEF PlayerSends
      <4> QED
        BY <1>2, <4>3, <4>4 DEF Agrees
    <3> QED
      BY <1>5, <2>2, <3>2, <3>3, <3>4
  <2> QED
    BY <2>1, <2>2
<1> QED
  BY <1>1, <1>2, <1>3, <1>4, <1>7

LEMMA DeliverIInv ==
  ASSUME RoomsIInv, NEW t \in Threads, NEW d \in Clients, Deliver(t, d)
  PROVE  RoomsIInv'
<1> USE DEF Deliver
<1>1. PICK m : m = Head(sends[t])
  OBVIOUS
<1>2. PICK x : x = [kind |-> m.kind, about |-> m.about]
  OBVIOUS
<1>3. /\ sends' \in [Threads -> Seq(Calls)]
      /\ \A u \in Threads : sends[u] = <<>> => sends'[u] = <<>>
      /\ \A u \in Threads, e \in Clients :
           u # t \/ e # d => ToSend(u, e)' = ToSend(u, e)
      /\ ToSend(t, d) = ToSend(t, d)' \cup {x}
  BY <1>1, <1>2, DeliverSends DEF RoomsIInv
<1>4. /\ x \in ToSend(t, d) /\ x.kind = m.kind /\ x.about = m.about
      /\ x.about \in SUBSET Visits
  BY <1>2, <1>3, CallsAreTyped DEF RoomsIInv
<1>5. UNCHANGED <<conn, world, reports, visits, crossed, cut>>
  OBVIOUS
<1>6. \/ UNCHANGED <<full, told, parted, shown>> /\ ~Hears(d)
      \/ full' = full \cup {d} /\ Forget(d)
      \/ Receive(d, m) /\ full' = full /\ Hears(d)
  <2>1. conn[d] = "gone" => world[d] = NoWorld
    BY DEF RoomsIInv, PlayersAreOnVisits
  <2> QED
    BY <1>1, <2>1 DEF Hears
<1>7. /\ full \subseteq full' /\ full' \subseteq full \cup {d}
      /\ \A e \in Clients \ {d} :
           told'[e] = told[e] /\ parted'[e] = parted[e] /\ shown'[e] = shown[e]
  BY <1>6 DEF Forget, Receive, RoomsIInv, RoomsTypeOK
<1>8. \/ UNCHANGED <<full, told, parted, shown>> /\ ~Hears(d)
      \/ d \in full' /\ told'[d] = {} /\ parted'[d] = {} /\ shown'[d] = {}
      \/ Hears(d) /\ Heard(t, d, x)
  <2>1. CASE full' = full \cup {d} /\ Forget(d)
    BY <2>1 DEF Forget, RoomsIInv, RoomsTypeOK
  <2>2. CASE Receive(d, m) /\ full' = full /\ Hears(d)
    <3>1. After(m, shown[d]) = After(x, shown[d])
      BY <1>4 DEF After
    <3>2. /\ shown'[d] = After(m, shown[d])
          /\ IF m.kind = "left"
             THEN parted'[d] = parted[d] \cup m.about /\ told'[d] = told[d]
             ELSE told'[d] = told[d] \cup m.about /\ parted'[d] = parted[d]
      BY <2>2 DEF Receive, RoomsIInv, RoomsTypeOK
    <3>3. \A u \in Threads \ {t} : ToSend(u, d)' = ToSend(u, d)
      BY <1>3
    <3>4. Heard(t, d, x)
      BY <1>3, <1>4, <1>5, <2>2, <3>1, <3>2, <3>3 DEF Heard
    <3> QED
      BY <2>2, <3>4
  <2> QED
    BY <1>6, <2>1, <2>2
<1>9. Hears(d) /\ Heard(t, d, x) =>
        /\ x.kind = "snapshot" => shown'[d] = x.about
        /\ shown'[d] \subseteq shown[d] \cup x.about
  <2> SUFFICES ASSUME Heard(t, d, x)
               PROVE  /\ x.kind = "snapshot" => shown'[d] = x.about
                      /\ shown'[d] \subseteq shown[d] \cup x.about
    OBVIOUS
  <2>1. x.kind \in {"snapshot", "state", "left"}
    BY Senders
  <2> QED
    BY <2>1 DEF Heard, After
<1>10. RoomsTypeOK'
  <2>1. /\ told'[d] \in SUBSET Visits /\ parted'[d] \in SUBSET Visits
        /\ shown'[d] \in SUBSET Visits
    BY <1>4, <1>8, <1>9 DEF RoomsIInv, RoomsTypeOK, Heard
  <2>2. \A e \in Clients : /\ told'[e] \in SUBSET Visits /\ parted'[e] \in SUBSET Visits
                           /\ shown'[e] \in SUBSET Visits
    BY <1>7, <2>1 DEF RoomsIInv, RoomsTypeOK
  <2>3. /\ told' = [e \in Clients |-> told'[e]] /\ parted' = [e \in Clients |-> parted'[e]]
        /\ shown' = [e \in Clients |-> shown'[e]]
    BY <1>6 DEF Forget, Receive, RoomsIInv, RoomsTypeOK
  <2>4. /\ told' \in [Clients -> SUBSET Visits] /\ parted' \in [Clients -> SUBSET Visits]
        /\ shown' \in [Clients -> SUBSET Visits]
    BY <2>2, <2>3
  <2>5. full' \subseteq Clients
    BY <1>7 DEF RoomsIInv, RoomsTypeOK
  <2> QED
    BY <1>3, <1>5, <2>4, <2>5 DEF RoomsIInv, RoomsTypeOK
<1>11. PlayersAreOnVisits'
  BY <1>3, <1>5, Names DEF RoomsIInv, PlayersAreOnVisits, Begun, Visit, WorldOf
<1>12. VisitsGrow
  BY <1>5 DEF VisitsGrow
<1>13. \A u \in Threads, e \in Clients : ToSend(u, e)' \subseteq ToSend(u, e)
  BY <1>3
<1>14. ASSUME NEW e \in Clients
       PROVE  OnlyBegun(e)'
  <2>1. ASSUME NEW v \in told'[e] \cup shown'[e]
        PROVE  v \in told[e] \cup shown[e] \/ Begun(v)'
    <3>1. CASE e # d
      BY <1>7, <2>1, <3>1
    <3>2. CASE e = d /\ v \in x.about
      <4>1. Begun(v) /\ v \in Visits
        BY <1>4, <3>2 DEF RoomsIInv, OnlyBegun
      <4> QED
        BY <1>12, <4>1, BegunStays
    <3>3. CASE e = d /\ v \notin x.about
      BY <1>8, <1>9, <2>1, <3>3 DEF Heard
    <3> QED
      BY <3>1, <3>2, <3>3
  <2>2. OnlyBegun(e) /\ RoomsTypeOK
    BY DEF RoomsIInv
  <2> QED
    BY <1>12, <1>13, <2>1, <2>2, OnlyBegunStays
<1>15. ASSUME NEW e \in Clients, NEW p \in Clients
       PROVE  CallsAreOwn(p, e)'
  BY <1>5, <1>13, Names, OwnStays DEF RoomsIInv
<1>16. ASSUME NEW e \in Clients, NEW p \in Clients, e # p, Hears(e)'
       PROVE  Agreed(e, p)'
  <2>1. Hears(e) /\ Agreed(e, p)
    BY <1>5, <1>7, <1>16 DEF Hears, RoomsIInv, Agreed
  <2>2. CASE e # d
    <3>1. /\ ToSend(Reader(p), e)' = ToSend(Reader(p), e)
          /\ ToSend(Leaver(p), e)' = ToSend(Leaver(p), e)
          /\ ToSend(Reader(e), e)' = ToSend(Reader(e), e)
      BY <1>3, <2>2, Names
    <3> QED
      BY <1>5, <1>7, <2>1, <2>2, <3>1, AgreedStays DEF InOrder
  <2>3. CASE e = d
    <3>1. Heard(t, d, x)
      BY <1>8, <1>16, <2>1, <2>3 DEF Hears
    <3>2. \A v : v[1] = p => /\ Announced(d, p, v)' <=> Announced(d, p, v)
                             /\ EndIsSent(d, p, v) => EndIsSent(d, p, v)'
      BY <1>16, <2>3, <3>1, HeardAnnounced
    <3>3. ShownInTheEnd(d, p)'
      BY <1>16, <2>1, <2>3, <3>1, HeardShown
    <3>4. Visit(p)' = Visit(p) /\ Visit(p)[1] = p /\ \A n : <<p, n>>[1] = p
      BY <1>5 DEF Visit
    <3>5. VisitsAreAnnounced(d, p)'
      BY <1>5, <2>1, <2>3, <3>2, <3>4 DEF VisitsAreAnnounced, Agreed
    <3>6. EndsAreSent(d, p)'
      BY <1>5, <2>1, <2>3, <3>2, <3>4 DEF EndsAreSent, Agreed
    <3> QED
      BY <2>3, <3>3, <3>5, <3>6 DEF Agreed
  <2> QED
    BY <2>2, <2>3
<1> QED
  BY <1>10, <1>11, <1>14, <1>15, <1>16 DEF RoomsIInv, Agreed

-----------------------------------------------------------------------------
(* The handlers *)

\* A handler of c leaves the others where they are and sends for c only.
HandlerOf(c) ==
  /\ RoomsTypeOK' /\ PlayersAreOnVisits' /\ VisitsGrow
  /\ \A d \in Clients \ {c} :
       /\ world'[d] = world[d] /\ visits'[d] = visits[d]
       /\ told'[d] = told[d] /\ parted'[d] = parted[d] /\ shown'[d] = shown[d]
       /\ d \in full' <=> d \in full
       /\ \A e \in Clients : <<e, d>> \in cut' <=> <<e, d>> \in cut
       /\ \A p \in Clients \ {c} : p \in crossed'[d] <=> p \in crossed[d]
       /\ \A e \in Clients : /\ ToSend(Reader(d), e)' = ToSend(Reader(d), e)
                             /\ ToSend(Leaver(d), e)' = ToSend(Leaver(d), e)
  /\ \A v \in told'[c] \cup shown'[c] : v \in told[c] \cup shown[c]
  /\ \A d \in Clients : \A t \in {Reader(c), Leaver(c)} : \A m \in ToSend(t, d)' :
       m \in ToSend(t, d) \/ \A v \in m.about : Begun(v)'

LEMMA Compose ==
  ASSUME RoomsIInv, NEW c \in Clients, HandlerOf(c),
         \A d \in Clients : CallsAreOwn(c, d)',
         \A d \in Clients \ {c} : Hears(d) => Agreed(d, c)',
         \A p \in Clients \ {c} : Hears(c)' => Agreed(c, p)'
  PROVE  RoomsIInv'
<1>1. ASSUME NEW d \in Clients
      PROVE  OnlyBegun(d)'
  <2>1. OnlyBegun(d) /\ RoomsTypeOK /\ VisitsGrow
    BY DEF RoomsIInv, HandlerOf
  <2>2. \A v \in told'[d] \cup shown'[d] : v \in told[d] \cup shown[d]
    BY DEF HandlerOf
  <2>3. ASSUME NEW t \in Threads, NEW m \in ToSend(t, d)'
        PROVE  m \in ToSend(t, d) \/ \A v \in m.about : Begun(v)'
    <3>1. PICK p \in Clients : t = Reader(p) \/ t = Leaver(p)
      BY EveryThread
    <3>2. CASE p = c
      BY <2>3, <3>1, <3>2 DEF HandlerOf
    <3>3. CASE p # c
      <4>1. ToSend(Reader(p), d)' = ToSend(Reader(p), d)
            /\ ToSend(Leaver(p), d)' = ToSend(Leaver(p), d)
        BY <3>3 DEF HandlerOf
      <4> QED
        BY <2>3, <3>1, <4>1
    <3> QED
      BY <3>2, <3>3
  <2> QED
    BY <2>1, <2>2, <2>3, OnlyBegunStays
<1>2. ASSUME NEW d \in Clients, NEW p \in Clients
      PROVE  CallsAreOwn(p, d)'
  <2>1. CASE p # c
    <3>1. /\ CallsAreOwn(p, d) /\ world'[p] = world[p] /\ visits'[p] = visits[p]
          /\ <<d, p>> \in cut => <<d, p>> \in cut'
          /\ ToSend(Reader(p), d)' = ToSend(Reader(p), d)
          /\ ToSend(Leaver(p), d)' = ToSend(Leaver(p), d)
      BY <2>1 DEF RoomsIInv, HandlerOf
    <3> QED
      BY <3>1, OwnStays
  <2> QED
    BY <2>1
<1>3. ASSUME NEW d \in Clients, NEW p \in Clients, d # p, Hears(d)'
      PROVE  Agreed(d, p)'
  <2>1. CASE d # c /\ p = c
    <3>1. Hears(d)
      BY <1>3, <2>1 DEF Hears, HandlerOf
    <3> QED
      BY <2>1, <3>1
  <2>2. CASE d # c /\ p # c
    <3>1. /\ world'[d] = world[d] /\ world'[p] = world[p] /\ visits'[p] = visits[p]
          /\ told'[d] = told[d] /\ parted'[d] = parted[d] /\ shown'[d] = shown[d]
          /\ d \in full' <=> d \in full
          /\ InOrder(d, p)' => InOrder(d, p)
          /\ <<d, p>> \in cut => <<d, p>> \in cut'
          /\ ToSend(Reader(d), d)' = ToSend(Reader(d), d)
          /\ ToSend(Reader(p), d)' = ToSend(Reader(p), d)
          /\ ToSend(Leaver(p), d)' = ToSend(Leaver(p), d)
      BY <2>2 DEF HandlerOf, InOrder
    <3>2. Agreed(d, p)
      BY <1>3, <3>1 DEF RoomsIInv, Hears, Agreed
    <3> QED
      BY <3>1, <3>2, AgreedStays
  <2>3. CASE d = c
    BY <1>3, <2>3
  <2> QED
    BY <2>1, <2>2, <2>3
<1> QED
  BY <1>1, <1>2, <1>3 DEF RoomsIInv, HandlerOf, Agreed

LEMMA OverlapIs ==
  ASSUME RoomsTypeOK, NEW c \in Clients, NEW from, NEW to
  PROVE  /\ Overlap(c, from, to) \in [Clients -> SUBSET Clients]
         /\ \A d, p \in Clients \ {c} : p \in Overlap(c, from, to)[d] <=> p \in crossed[d]
         /\ \A d \in Clients \ {c} : c \notin Overlap(c, from, to)[d] =>
              /\ world[d] \in {from, to} => \/ ToSend(Reader(d), d) = {}
                                           \/ (from = to /\ c \notin crossed[d])
              /\ world[d] \notin {from, to} => c \notin crossed[d]
         /\ Overlap(c, from, to)[c] = crossed[c]
<1>1. \A d \in Clients :
        Overlap(c, from, to)[d] =
          IF d = c \/ world[d] \notin {from, to} THEN crossed[d]
          ELSE IF ToSend(Reader(d), d) = {} THEN crossed[d] \ {c}
          ELSE IF from # to THEN crossed[d] \cup {c}
          ELSE crossed[d]
  BY DEF Overlap
<1>2. Overlap(c, from, to) \in [Clients -> SUBSET Clients]
  <2>1. ASSUME NEW d \in Clients
        PROVE  Overlap(c, from, to)[d] \in SUBSET Clients
    <3>1. crossed[d] \in SUBSET Clients /\ crossed[d] \ {c} \in SUBSET Clients
          /\ crossed[d] \cup {c} \in SUBSET Clients
      BY DEF RoomsTypeOK
    <3> QED
      BY <1>1, <3>1
  <2> QED
    BY <2>1 DEF Overlap
<1> QED
  BY <1>1, <1>2

\* What d was shown of a player who goes from one other room to another.
LEMMA StillAway ==
  ASSUME NEW d \in Clients, NEW p \in Clients, NEW vs, VisitsGrow, Agrees(d, p, vs),
         \A v \in vs : v \in Visits /\ Begun(v),
         world[p] # world[d], world'[p] # world'[d], world'[d] = world[d]
  PROVE  Agrees(d, p, vs)'
<1>1. \A v \in Of(p, vs) : WorldOf(v) # world[d] /\ WorldOf(v)' = WorldOf(v)
  BY BegunStays DEF Agrees, Of
<1> QED
  BY <1>1 DEF Agrees, Of

LEMMA FreeSendsNothing ==
  ASSUME NEW c, Free(c)
  PROVE  \A d : ToSend(Reader(c), d) = {}
BY NothingToSend DEF Free

LEMMA InIsNotLeaving ==
  ASSUME RoomsIInv, NEW c \in Clients, conn[c] = "in"
  PROVE  sends[Leaver(c)] = <<>> /\ \A d : ToSend(Leaver(c), d) = {}
<1>1. sends[Leaver(c)] = <<>>
  BY DEF RoomsIInv, PlayersAreOnVisits
<1> QED
  BY <1>1, NothingToSend

LEMMA RegisterIInv ==
  ASSUME RoomsIInv, NEW c \in Clients, Register(c)
  PROVE  RoomsIInv'
<1> USE DEF Register, ghosts
<1>1. RoomsTypeOK'
  BY DEF RoomsIInv, RoomsTypeOK
<1>2. PlayersAreOnVisits'
  BY DEF RoomsIInv, RoomsTypeOK, PlayersAreOnVisits, Begun, Visit, WorldOf
<1>3. \A t \in Threads, d \in Clients : ToSend(t, d)' = ToSend(t, d)
  BY DEF ToSend
<1> QED
  BY <1>1, <1>2, <1>3, Silence

LEMMA DeliverNoneIInv ==
  ASSUME RoomsIInv, NEW t \in Threads, DeliverNone(t)
  PROVE  RoomsIInv'
<1> USE DEF DeliverNone, ghosts
<1>1. PICK s \in Seq(Calls) : s = sends[t]
  BY DEF RoomsIInv, RoomsTypeOK
<1>2. PICK m, r : m = Head(s) /\ r = Tail(s)
  OBVIOUS
<1>3. r \in Seq(Calls) /\ ToSet(s) = {m} \cup ToSet(r) /\ m.to = {}
  BY <1>1, <1>2, Parts
<1>4. sends' = [sends EXCEPT ![t] = r]
  BY <1>1, <1>2
<1>5. /\ sends' \in [Threads -> Seq(Calls)]
      /\ \A u \in Threads \ {t} : sends'[u] = sends[u]
      /\ \A u \in Threads \ {t} : \A d : ToSend(u, d)' = ToSend(u, d)
      /\ \A d : ToSend(t, d)' = For(ToSet(r), d)
  BY <1>3, <1>4, SendsOf DEF RoomsIInv
<1>6. ASSUME NEW d
      PROVE  ToSend(t, d) = For(ToSet(r), d)
  <2>1. ToSend(t, d) = For({m} \cup ToSet(r), d)
    BY <1>1, <1>3, ToSendIs
  <2>2. For({m}, d) = {}
    BY <1>3, ForMembers
  <2>3. For({m} \cup ToSet(r), d) = For({m}, d) \cup For(ToSet(r), d)
    BY ForMembers
  <2>4. {} \cup For(ToSet(r), d) = For(ToSet(r), d)
    OBVIOUS
  <2> QED
    BY <2>1, <2>2, <2>3, <2>4
<1>7. ASSUME NEW u \in Threads, NEW d \in Clients
      PROVE  ToSend(u, d)' = ToSend(u, d)
  <2>1. CASE u = t
    BY <1>5, <1>6, <2>1
  <2>2. CASE u # t
    BY <1>5, <2>2
  <2> QED
    BY <2>1, <2>2
<1>8. RoomsTypeOK'
  BY <1>5 DEF RoomsIInv, RoomsTypeOK
<1>9. PlayersAreOnVisits'
  <2>1. \A c \in Clients : sends'[Leaver(c)] # <<>> => sends[Leaver(c)] # <<>>
    BY <1>1, <1>5, Names
  <2> QED
    BY <2>1 DEF RoomsIInv, PlayersAreOnVisits, Begun, Visit, WorldOf
<1> QED
  BY <1>7, <1>8, <1>9, Silence

LEMMA VisitIs ==
  ASSUME RoomsTypeOK, NEW c \in Clients
  PROVE  /\ Visit(c) = <<c, Len(visits[c])>> /\ Visit(c) \in Visits
         /\ visits[c] \in Seq(Worlds) /\ Len(visits[c]) \in Nat
         /\ DOMAIN visits[c] = 1 .. Len(visits[c])
         /\ WorldOf(Visit(c)) = visits[c][Len(visits[c])]
         /\ Begun(Visit(c)) <=> Len(visits[c]) \in DOMAIN visits[c]
BY DEF RoomsTypeOK, Visit, Visits, WorldOf, Begun

LEMMA ReportIInv ==
  ASSUME RoomsIInv, NEW c \in Clients, NEW w \in Worlds, HandlePresence(c, w), world[c] = w
  PROVE  RoomsIInv'
<1> USE DEF HandlePresence, Report
<1>1. PICK v : v = Visit(c)
  OBVIOUS
<1>2. PICK m : m = State(c, v, w)
  OBVIOUS
<1>3. /\ m \in Calls /\ m.kind = "state" /\ m.about = {v} /\ v \in Visits /\ Begun(v)
      /\ \A d \in Clients : d \in m.to <=> world[d] = w /\ d # c
      /\ w # NoWorld
  <2>1. w # NoWorld
    BY RoomsConstants
  <2>2. v \in Visits /\ Begun(v)
    BY <1>1, <2>1, VisitIs DEF RoomsIInv, PlayersAreOnVisits
  <2>3. m = [kind |-> "state", about |-> {v}, to |-> Room(w) \ {c}]
    BY <1>2 DEF State, Call
  <2>4. Room(w) \ {c} \in SUBSET Clients /\ {v} \in SUBSET Visits
    BY <2>2 DEF Room
  <2>5. m \in Calls /\ m.kind = "state" /\ m.about = {v} /\ m.to = Room(w) \ {c}
    BY <2>3, <2>4 DEF Calls
  <2> QED
    BY <2>1, <2>2, <2>5 DEF Room
<1>4. <<m>> \in Seq(Calls) /\ sends' = [sends EXCEPT ![Reader(c)] = <<m>>]
  BY <1>1, <1>2, <1>3
<1>5. /\ sends' \in [Threads -> Seq(Calls)]
      /\ \A u \in Threads \ {Reader(c)} : sends'[u] = sends[u]
      /\ \A u \in Threads \ {Reader(c)} : \A d : ToSend(u, d)' = ToSend(u, d)
      /\ \A d : ToSend(Reader(c), d)' = For(ToSet(<<m>>), d)
  BY <1>4, Names, SendsOf DEF RoomsIInv
<1>6. PICK x : x = [kind |-> m.kind, about |-> m.about]
  OBVIOUS
<1>7. x.kind = "state" /\ x.about = {v}
  BY <1>3, <1>6
<1>8. \A d \in Clients :
        ToSend(Reader(c), d)' = IF world[d] = w /\ d # c THEN {x} ELSE {}
  <2>1. \A d : For(ToSet(<<m>>), d) = IF d \in m.to THEN {x} ELSE {}
    BY <1>6, Literals, ForMembers
  <2> QED
    BY <1>3, <1>5, <2>1
<1>9. /\ \A d : ToSend(Reader(c), d) = {}
      /\ \A d : ToSend(Leaver(c), d) = {} /\ ToSend(Leaver(c), d)' = {}
  BY <1>5, Names, FreeSendsNothing, InIsNotLeaving
<1>10. /\ crossed' \in [Clients -> SUBSET Clients]
       /\ \A d, p \in Clients \ {c} : p \in crossed'[d] <=> p \in crossed[d]
       /\ \A d \in Clients \ {c} : c \notin crossed'[d] =>
            (world[d] = w /\ ToSend(Reader(d), d) = {}) \/ c \notin crossed[d]
       /\ crossed'[c] = crossed[c]
  BY OverlapIs DEF RoomsIInv
<1>11. UNCHANGED <<world, visits, told, parted, shown, conn, full, cut>>
  OBVIOUS
<1>12. RoomsTypeOK'
  <2>1. reports' \in [Clients -> Nat]
    BY DEF RoomsIInv, RoomsTypeOK
  <2> QED
    BY <1>5, <1>10, <1>11, <2>1 DEF RoomsIInv, RoomsTypeOK
<1>13. PlayersAreOnVisits'
  BY <1>5, <1>11, Names DEF RoomsIInv, PlayersAreOnVisits, Begun, Visit, WorldOf
<1>14. Begun(v)' /\ Visit(c)' = v
  BY <1>1, <1>3, <1>11 DEF Begun, Visit
<1>15. HandlerOf(c)
  <2>1. VisitsGrow
    BY <1>11 DEF VisitsGrow
  <2>2. ASSUME NEW d \in Clients \ {c}, NEW e \in Clients
        PROVE  /\ ToSend(Reader(d), e)' = ToSend(Reader(d), e)
               /\ ToSend(Leaver(d), e)' = ToSend(Leaver(d), e)
    BY <1>5, Names
  <2>3. \A d \in Clients : \A t \in {Reader(c), Leaver(c)} : \A y \in ToSend(t, d)' :
          \A u \in y.about : Begun(u)'
    BY <1>7, <1>8, <1>9, <1>14
  <2> QED
    BY <1>10, <1>11, <1>12, <1>13, <2>1, <2>2, <2>3 DEF HandlerOf
<1>16. \A d \in Clients : CallsAreOwn(c, d)'
  BY <1>3, <1>7, <1>8, <1>9, <1>11, <1>14 DEF CallsAreOwn
<1>17. ASSUME NEW d \in Clients \ {c}, Hears(d)
       PROVE  Agreed(d, c)'
  <2>1. Agreed(d, c)
    BY <1>17 DEF RoomsIInv, Agreed
  <2>2. CASE world[d] = w
    <3>1. ToSend(Reader(c), d)' = {x} /\ PlayerSends(c, d)' = {x}
      BY <1>8, <1>9, <2>2 DEF PlayerSends
    <3>2. VisitsAreAnnounced(d, c)'
      BY <1>7, <1>14, <3>1 DEF VisitsAreAnnounced, Announced
    <3>3. ASSUME NEW n \in DOMAIN visits[c], Announced(d, c, <<c, n>>)',
                 n # Len(visits[c])
          PROVE  Announced(d, c, <<c, n>>)
      <4>1. ToSend(Reader(d), d)' = ToSend(Reader(d), d) /\ <<c, n>> # v
        BY <1>1, <1>15, <3>3 DEF HandlerOf, Visit
      <4> QED
        BY <1>7, <1>11, <3>1, <3>3, <4>1 DEF Announced
    <3>4. \A u : EndIsSent(d, c, u) => EndIsSent(d, c, u)'
      BY <1>9, <1>11 DEF EndIsSent, PlayerSends
    <3>5. EndsAreSent(d, c)'
      BY <1>11, <2>1, <2>2, <3>3, <3>4 DEF EndsAreSent, Agreed
    <3>6. ASSUME InOrder(d, c)', NEW y \in ToSend(Reader(d), d)', y.kind = "snapshot"
          PROVE  Agrees(d, c, y.about)'
      <4>1. ToSend(Reader(d), d)' = ToSend(Reader(d), d)
        BY <1>15 DEF HandlerOf
      <4>2. InOrder(d, c)
        BY <1>10, <1>11, <3>6, <4>1 DEF InOrder
      <4>3. Agrees(d, c, y.about)
        BY <2>1, <3>6, <4>1, <4>2 DEF Agreed, ShownInTheEnd
      <4> QED
        BY <1>11, <4>3 DEF Agrees, Of, WorldOf
    <3>7. ShownInTheEnd(d, c)'
      BY <1>7, <3>1, <3>6 DEF ShownInTheEnd
    <3> QED
      BY <3>2, <3>5, <3>7 DEF Agreed
  <2>3. CASE world[d] # w
    <3>1. /\ ToSend(Reader(c), d)' = ToSend(Reader(c), d)
          /\ ToSend(Leaver(c), d)' = ToSend(Leaver(c), d)
          /\ ToSend(Reader(d), d)' = ToSend(Reader(d), d)
      BY <1>8, <1>9, <1>15, <2>3 DEF HandlerOf
    <3>2. InOrder(d, c)' => InOrder(d, c)
      BY <1>10, <1>11, <2>3 DEF InOrder
    <3> QED
      BY <1>11, <2>1, <3>1, <3>2, AgreedStays
  <2> QED
    BY <2>2, <2>3
<1>18. ASSUME NEW p \in Clients \ {c}, Hears(c)'
       PROVE  Agreed(c, p)'
  <2>1. Agreed(c, p)
    BY <1>11, <1>18 DEF RoomsIInv, Agreed, Hears
  <2>2. /\ ToSend(Reader(c), c)' = ToSend(Reader(c), c)
        /\ ToSend(Reader(p), c)' = ToSend(Reader(p), c)
        /\ ToSend(Leaver(p), c)' = ToSend(Leaver(p), c)
    BY <1>8, <1>9, <1>15 DEF HandlerOf
  <2>3. InOrder(c, p)' => InOrder(c, p)
    BY <1>10, <1>11 DEF InOrder
  <2> QED
    BY <1>11, <2>1, <2>2, <2>3, AgreedStays
<1> QED
  BY <1>15, <1>16, <1>17, <1>18, Compose

LEMMA LeftIs ==
  ASSUME RoomsIInv, NEW c \in Clients, world[c] # NoWorld, NEW w
  PROVE  /\ Left(c, w) \in Calls /\ Left(c, w).kind = "left"
         /\ Left(c, w).about = {Visit(c)} /\ Visit(c) \in Visits /\ Begun(Visit(c))
         /\ \A d \in Clients : d \in Left(c, w).to <=> world[d] = world[c] /\ d # c
<1>1. PICK v : v = Visit(c)
  OBVIOUS
<1>2. v \in Visits /\ Begun(v)
  BY <1>1, VisitIs DEF RoomsIInv, PlayersAreOnVisits
<1>3. PICK m : m = Left(c, w)
  OBVIOUS
<1>4. m = [kind |-> "left", about |-> {v}, to |-> Room(world[c]) \ {c}]
  BY <1>1, <1>3 DEF Left, Call
<1>5. Room(world[c]) \ {c} \in SUBSET Clients /\ {v} \in SUBSET Visits
  BY <1>2 DEF Room
<1>6. m \in Calls /\ m.kind = "left" /\ m.about = {v} /\ m.to = Room(world[c]) \ {c}
  BY <1>4, <1>5 DEF Calls
<1> QED
  BY <1>1, <1>2, <1>3, <1>6 DEF Room

\* c leaves its room, and t tells those who are left in it.
LEMMA DepartIInv ==
  ASSUME RoomsIInv, NEW c \in Clients, world[c] # NoWorld, RoomsTypeOK', PlayersAreOnVisits',
         NEW t \in {Reader(c), Leaver(c)}, sends[t] = <<>>,
         sends' = [sends EXCEPT ![t] = <<Left(c, NoWorld)>>],
         world' = [world EXCEPT ![c] = NoWorld], Forget(c),
         crossed' = [Overlap(c, world[c], NoWorld) EXCEPT ![c] = {}],
         UNCHANGED visits, full' \in {full, full \ {c}},
         cut' \in {cut, cut \cup {<<d, c>> : d \in Untold(c)}},
         \A d \in Clients : <<d, c>> \notin cut' =>
           \A m \in ToSend(Reader(c), d) : m.kind # "state"
  PROVE  RoomsIInv'
<1>1. PICK v : v = Visit(c)
  OBVIOUS
<1>2. PICK m : m = Left(c, NoWorld)
  OBVIOUS
<1>3. /\ m \in Calls /\ m.kind = "left" /\ m.about = {v} /\ v \in Visits /\ Begun(v)
      /\ \A d \in Clients : d \in m.to <=> world[d] = world[c] /\ d # c
  BY <1>1, <1>2, LeftIs
<1>4. t \in Threads /\ <<m>> \in Seq(Calls) /\ sends' = [sends EXCEPT ![t] = <<m>>]
  BY <1>2, <1>3, Names
<1>5. /\ \A u \in Threads \ {t} : \A d : ToSend(u, d)' = ToSend(u, d)
      /\ \A d : ToSend(t, d)' = For(ToSet(<<m>>), d)
  BY <1>4, SendsOf DEF RoomsIInv
<1>6. PICK x : x = [kind |-> m.kind, about |-> m.about]
  OBVIOUS
<1>7. x.kind = "left" /\ x.about = {v}
  BY <1>3, <1>6
<1>8. \A d \in Clients :
        /\ ToSend(t, d)' = IF world[d] = world[c] /\ d # c THEN {x} ELSE {}
        /\ ToSend(t, d) = {}
  <2>1. \A d : For(ToSet(<<m>>), d) = IF d \in m.to THEN {x} ELSE {}
    BY <1>6, Literals, ForMembers
  <2>2. \A d : ToSend(t, d) = {}
    BY NothingToSend
  <2> QED
    BY <1>3, <1>5, <2>1, <2>2
<1>9. /\ \A d \in Clients \ {c} : world'[d] = world[d]
      /\ world'[c] = NoWorld /\ visits' = visits
      /\ \A d \in Clients \ {c} : (d \in full' <=> d \in full)
      /\ \A d \in Clients \ {c}, e \in Clients : <<e, d>> \in cut' <=> <<e, d>> \in cut
      /\ \A d \in Clients : <<d, c>> \in cut => <<d, c>> \in cut'
  BY DEF RoomsIInv, RoomsTypeOK
<1>10. /\ \A d \in Clients \ {c} : told'[d] = told[d] /\ parted'[d] = parted[d]
                                   /\ shown'[d] = shown[d]
       /\ told'[c] = {} /\ parted'[c] = {} /\ shown'[c] = {}
  BY DEF RoomsIInv, RoomsTypeOK, Forget
<1>11. /\ \A d, p \in Clients \ {c} : p \in crossed'[d] <=> p \in crossed[d]
       /\ \A d \in Clients \ {c} : c \notin crossed'[d] /\ world[d] # NoWorld =>
            IF world[d] = world[c] THEN ToSend(Reader(d), d) = {}
            ELSE c \notin crossed[d]
  BY OverlapIs DEF RoomsIInv
<1>12. Begun(v)' /\ Visit(c)' = v
  BY <1>1, <1>3, <1>9 DEF Begun, Visit
<1>13. \A d \in Clients : \A u \in {Reader(c), Leaver(c)} : \A y \in ToSend(u, d)' :
         (y = x /\ u = t /\ world[d] = world[c] /\ d # c) \/ y \in ToSend(u, d)
  <2>1. Reader(c) \in Threads /\ Leaver(c) \in Threads
    BY Names
  <2> QED
    BY <1>5, <1>8, <2>1
<1>14. HandlerOf(c)
  <2>1. VisitsGrow
    BY <1>9 DEF VisitsGrow
  <2>2. ASSUME NEW d \in Clients \ {c}, NEW e \in Clients
        PROVE  /\ ToSend(Reader(d), e)' = ToSend(Reader(d), e)
               /\ ToSend(Leaver(d), e)' = ToSend(Leaver(d), e)
    BY <1>5, Names
  <2>3. \A d \in Clients : \A u \in {Reader(c), Leaver(c)} : \A y \in ToSend(u, d)' :
          y \in ToSend(u, d) \/ \A z \in y.about : Begun(z)'
    BY <1>7, <1>12, <1>13
  <2> QED
    BY <1>9, <1>10, <1>11, <2>1, <2>2, <2>3 DEF HandlerOf
<1>16. ASSUME NEW d \in Clients
       PROVE  CallsAreOwn(c, d)'
  <2>1. CallsAreOwn(c, d)
    BY DEF RoomsIInv
  <2>2. ASSUME NEW y \in ToSend(Reader(c), d)'
        PROVE  /\ y.kind = "snapshot" => d = c
               /\ y.kind = "left" => d # c /\ y.about # {} /\ \A z \in y.about : z[1] = c
               /\ y.kind = "state" => /\ d # c /\ y.about = {Visit(c)'}
                                      /\ <<d, c>> \in cut' \/ world'[c] # NoWorld
    <3>1. CASE y = x /\ d # c
      BY <1>1, <1>7, <3>1 DEF Visit
    <3>2. CASE y \in ToSend(Reader(c), d)
      BY <1>1, <1>12, <2>1, <3>2 DEF CallsAreOwn
    <3> QED
      BY <1>13, <2>2, <3>1, <3>2
  <2>3. ASSUME NEW y \in ToSend(Leaver(c), d)'
        PROVE  y.kind = "left" /\ d # c /\ y.about # {} /\ \A z \in y.about : z[1] = c
    <3>1. CASE y = x /\ d # c
      BY <1>1, <1>7, <3>1 DEF Visit
    <3>2. CASE y \in ToSend(Leaver(c), d)
      BY <2>1, <3>2 DEF CallsAreOwn
    <3> QED
      BY <1>13, <2>3, <3>1, <3>2
  <2> QED
    BY <2>2, <2>3 DEF CallsAreOwn
<1>17. ASSUME NEW d \in Clients \ {c}, Hears(d)
       PROVE  Agreed(d, c)'
  <2>1. Agreed(d, c)
    BY <1>17 DEF RoomsIInv, Agreed
  <2>2. /\ world'[d] = world[d] /\ world[d] # NoWorld /\ told'[d] = told[d]
        /\ parted'[d] = parted[d] /\ shown'[d] = shown[d]
        /\ ToSend(Reader(d), d)' = ToSend(Reader(d), d)
        /\ \A u \in {Reader(c), Leaver(c)} : ToSend(u, d) \subseteq ToSend(u, d)'
    <3>1. Reader(c) \in Threads /\ Leaver(c) \in Threads
      BY Names
    <3>2. \A u \in {Reader(c), Leaver(c)} : ToSend(u, d) \subseteq ToSend(u, d)'
      BY <1>5, <1>8, <3>1
    <3> QED
      BY <1>9, <1>10, <1>14, <1>17, <3>2 DEF HandlerOf, Hears
  <2>3. VisitsAreAnnounced(d, c)'
    BY <1>9, <2>2 DEF VisitsAreAnnounced
  <2>4. \A u : Announced(d, c, u)' => Announced(d, c, u)
    BY <1>7, <1>13, <2>2 DEF Announced
  <2>5. \A u : EndIsSent(d, c, u) => EndIsSent(d, c, u)'
    BY <2>2 DEF EndIsSent, PlayerSends
  <2>6. world[d] = world[c] => x \in PlayerSends(c, d)'
    BY <1>8 DEF PlayerSends
  <2>7. EndsAreSent(d, c)'
    <3> SUFFICES ASSUME <<d, c>> \notin cut', NEW n \in DOMAIN visits[c],
                        Announced(d, c, <<c, n>>)', visits[c][n] = world[d]
                 PROVE  EndIsSent(d, c, <<c, n>>)'
      BY <1>9, <2>2 DEF EndsAreSent
    <3>1. CASE n # Len(visits[c]) \/ world[c] # world[d]
      BY <1>9, <2>1, <2>4, <2>5, <3>1 DEF Agreed, EndsAreSent
    <3>2. CASE n = Len(visits[c]) /\ world[c] = world[d]
      <4>1. <<c, n>> = v
        BY <1>1, <3>2 DEF Visit
      <4> QED
        BY <1>7, <2>6, <3>2, <4>1 DEF EndIsSent
    <3> QED
      BY <3>1, <3>2
  <2>8. ShownInTheEnd(d, c)'
    <3> SUFFICES ASSUME InOrder(d, c)'
                 PROVE  /\ \A y \in ToSend(Reader(d), d)' :
                             y.kind = "snapshot" => Agrees(d, c, y.about)'
                        /\ world'[c] # world'[d]
                        /\ \/ \E y \in ToSend(Reader(d), d)' : y.kind = "snapshot"
                           \/ PlayerSends(c, d)' # {}
                           \/ Agrees(d, c, shown[d])'
      BY DEF ShownInTheEnd
    <3>1. world'[c] # world'[d]
      BY <1>9, <2>2
    <3>2. CASE world[d] = world[c]
      BY <1>11, <2>2, <2>6, <3>1, <3>2 DEF InOrder
    <3>3. CASE world[d] # world[c]
      <4>1. InOrder(d, c)
        BY <1>9, <1>11, <2>2, <3>3 DEF InOrder
      <4>2. PlayerSends(c, d) # {} => PlayerSends(c, d)' # {}
        BY <2>2 DEF PlayerSends
      <4>3. \A u \in shown[d] : u \in Visits /\ Begun(u)
        BY DEF RoomsIInv, RoomsTypeOK, OnlyBegun
      <4>4. \A y \in ToSend(Reader(d), d) : \A u \in y.about : u \in Visits /\ Begun(u)
        BY Names, CallsAreTyped DEF RoomsIInv, OnlyBegun
      <4>5. VisitsGrow
        BY <1>14 DEF HandlerOf
      <4>6. Agrees(d, c, shown[d]) => Agrees(d, c, shown[d])'
        <5>1. PICK vs : vs = shown[d] /\ vs = shown'[d]
          BY <2>2
        <5>2. Agrees(d, c, vs) => Agrees(d, c, vs)'
          BY <2>2, <3>1, <3>3, <4>3, <4>5, <5>1, StillAway
        <5> QED
          BY <5>1, <5>2 DEF Agrees, Of, WorldOf
      <4>7. ASSUME NEW y \in ToSend(Reader(d), d), y.kind = "snapshot"
            PROVE  Agrees(d, c, y.about)'
        <5>1. Agrees(d, c, y.about)
          BY <2>1, <4>1, <4>7 DEF Agreed, ShownInTheEnd
        <5> QED
          BY <2>2, <3>1, <3>3, <4>4, <4>5, <5>1, StillAway
      <4> QED
        BY <2>1, <2>2, <3>1, <4>1, <4>2, <4>6, <4>7 DEF Agreed, ShownInTheEnd
    <3> QED
      BY <3>2, <3>3
  <2> QED
    BY <2>3, <2>7, <2>8 DEF Agreed
<1>18. ~Hears(c)'
  BY <1>9 DEF Hears
<1> QED
  BY <1>14, <1>16, <1>17, <1>18, Compose

LEMMA LeaveWorldIInv ==
  ASSUME RoomsIInv, NEW c \in Clients, LeaveWorld(c)
  PROVE  RoomsIInv'
<1> USE DEF LeaveWorld, LeavesBy, Free
<1>1. PICK m : m = Left(c, NoWorld)
  OBVIOUS
<1>2. m \in Calls
  BY <1>1, LeftIs
<1>3. sends[Reader(c)] = <<>> /\ sends' = [sends EXCEPT ![Reader(c)] = <<m>>]
  BY <1>1
<1>4. sends' \in [Threads -> Seq(Calls)]
      /\ \A u \in Threads \ {Reader(c)} : sends'[u] = sends[u]
  <2>1. <<m>> \in Seq(Calls)
    BY <1>2
  <2> QED
    BY <1>3, <2>1, Names, SendsOf DEF RoomsIInv
<1>5. crossed' \in [Clients -> SUBSET Clients]
  BY OverlapIs DEF RoomsIInv
<1>6. RoomsTypeOK'
  BY <1>4, <1>5 DEF RoomsIInv, RoomsTypeOK, Forget
<1>7. PlayersAreOnVisits'
  <2>1. \A d \in Clients : sends'[Leaver(d)] = sends[Leaver(d)]
    BY <1>4, Names
  <2>2. world'[c] = NoWorld /\ \A d \in Clients \ {c} : world'[d] = world[d]
    BY DEF RoomsIInv, RoomsTypeOK
  <2> QED
    BY <2>1, <2>2 DEF RoomsIInv, PlayersAreOnVisits, Begun, Visit, WorldOf
<1>8. /\ crossed' = [Overlap(c, world[c], NoWorld) EXCEPT ![c] = {}]
      /\ cut' = cut /\ full' = full
      /\ \A d : ToSend(Reader(c), d) = {}
  BY FreeSendsNothing
<1> QED
  BY <1>1, <1>3, <1>6, <1>7, <1>8, Names, DepartIInv

LEMMA UnregisterIInv ==
  ASSUME RoomsIInv, NEW c \in Clients, Unregister(c)
  PROVE  RoomsIInv'
<1> USE DEF Unregister
<1>1. /\ world' = [world EXCEPT ![c] = NoWorld] /\ visits' = visits
      /\ full' \subseteq full /\ \A d \in Clients \ {c} : d \in full' <=> d \in full
      /\ cut' = cut \cup {<<d, c>> : d \in Untold(c)}
      /\ \A d \in Clients : <<d, c>> \notin cut' =>
           \A m \in ToSend(Reader(c), d) : m.kind # "state"
      /\ \A d \in Clients \ {c}, e \in Clients : <<e, d>> \in cut' <=> <<e, d>> \in cut
      /\ cut' \subseteq Clients \X Clients
  BY DEF Untold, RoomsIInv, RoomsTypeOK
<1>2. /\ conn' \in [Clients -> {"new", "in", "gone"}] /\ conn'[c] = "gone"
      /\ \A d \in Clients \ {c} : conn'[d] = conn[d]
      /\ world' \in [Clients -> Worlds \cup {NoWorld}] /\ world'[c] = NoWorld
      /\ \A d \in Clients \ {c} : world'[d] = world[d]
      /\ told' \in [Clients -> SUBSET Visits] /\ parted' \in [Clients -> SUBSET Visits]
      /\ shown' \in [Clients -> SUBSET Visits]
      /\ \A d \in Clients \ {c} : told'[d] = told[d] /\ parted'[d] = parted[d]
                                  /\ shown'[d] = shown[d]
      /\ told'[c] = {} /\ shown'[c] = {}
  BY DEF RoomsIInv, RoomsTypeOK, Forget
<1>3. sends[Leaver(c)] = <<>>
  BY InIsNotLeaving
<1>4. CASE world[c] = NoWorld
  <2>1. sends' = sends /\ crossed' = crossed
    BY <1>4
  <2>2. RoomsTypeOK'
    BY <1>1, <1>2, <2>1 DEF RoomsIInv, RoomsTypeOK
  <2>3. PlayersAreOnVisits'
    BY <1>1, <1>2, <1>3, <2>1 DEF RoomsIInv, PlayersAreOnVisits, Begun, Visit, WorldOf
  <2>4. \A t, d : ToSend(t, d)' = ToSend(t, d)
    BY <2>1 DEF ToSend
  <2>5. world' = world /\ cut \subseteq cut'
    BY <1>1, <1>2, <1>4 DEF RoomsIInv, RoomsTypeOK
  <2>6. HandlerOf(c)
    <3>1. VisitsGrow
      BY <1>1 DEF VisitsGrow
    <3> QED
      BY <1>1, <1>2, <2>1, <2>2, <2>3, <2>4, <3>1 DEF HandlerOf
  <2>7. \A d \in Clients : CallsAreOwn(c, d)'
    BY <1>1, <2>4, <2>5, OwnStays DEF RoomsIInv
  <2>8. ASSUME NEW d \in Clients \ {c}, Hears(d)
        PROVE  Agreed(d, c)'
    <3>1. Agreed(d, c)
      BY <2>8 DEF RoomsIInv, Agreed
    <3>2. InOrder(d, c)' => InOrder(d, c)
      BY <2>1, <2>5 DEF InOrder
    <3> QED
      BY <1>1, <1>2, <2>1, <2>4, <2>5, <3>1, <3>2, AgreedStays
  <2>9. ~Hears(c)'
    BY <1>2 DEF Hears
  <2> QED
    BY <2>6, <2>7, <2>8, <2>9, Compose
<1>5. CASE world[c] # NoWorld
  <2>1. PICK m : m = Left(c, NoWorld)
    OBVIOUS
  <2>2. sends' = [sends EXCEPT ![Leaver(c)] = <<m>>]
        /\ crossed' = [Overlap(c, world[c], NoWorld) EXCEPT ![c] = {}]
    BY <1>5, <2>1
  <2>3. m \in Calls
    BY <1>5, <2>1, LeftIs
  <2>4. sends' \in [Threads -> Seq(Calls)]
        /\ \A u \in Threads \ {Leaver(c)} : sends'[u] = sends[u]
    <3>1. <<m>> \in Seq(Calls)
      BY <2>3
    <3> QED
      BY <2>2, <3>1, Names, SendsOf DEF RoomsIInv
  <2>5. crossed' \in [Clients -> SUBSET Clients]
    BY <2>2, OverlapIs DEF RoomsIInv
  <2>6. RoomsTypeOK'
    BY <1>1, <1>2, <2>4, <2>5 DEF RoomsIInv, RoomsTypeOK
  <2>7. PlayersAreOnVisits'
    <3>1. \A d \in Clients \ {c} : sends'[Leaver(d)] = sends[Leaver(d)]
      BY <2>4, Names
    <3> QED
      BY <1>1, <1>2, <3>1 DEF RoomsIInv, PlayersAreOnVisits, Begun, Visit, WorldOf
  <2>8. Forget(c) /\ full' = full \ {c}
    OBVIOUS
  <2> QED
    BY <1>1, <1>3, <1>5, <2>1, <2>2, <2>6, <2>7, <2>8, DepartIInv
<1> QED
  BY <1>4, <1>5

\* What c sends when it enters w: l to those it leaves, s to itself, and x to those
\* it meets.
EnterCalls(c, w, q, l, s, x) ==
  /\ q \in Seq(Calls) /\ sends' = [sends EXCEPT ![Reader(c)] = q]
  /\ l.kind = "left" /\ l.about = {Visit(c)}
  /\ s.kind = "snapshot"
  /\ \A u : u \in s.about <=> \E d \in Clients : d # c /\ world[d] = w /\ u = Visit(d)
  /\ x.kind = "state" /\ x.about = {<<c, Len(visits[c]) + 1>>}
  /\ \A d \in Clients : \A y : y \in For(ToSet(q), d) <=>
       \/ y = l /\ world[c] # NoWorld /\ world[d] = world[c] /\ d # c
       \/ y = s /\ d = c
       \/ y = x /\ d # c /\ world[d] = w

LEMMA EnterSends ==
  ASSUME RoomsIInv, NEW c \in Clients, NEW w \in Worlds, world[c] # w, Enter(c, w)
  PROVE  \E q, l, s, x : EnterCalls(c, w, q, l, s, x)
<1>a. PICK q : q = (IF world[c] = NoWorld THEN <<>> ELSE <<Left(c, w)>>)
                     \o <<Snapshot(c, w), State(c, <<c, Len(visits[c]) + 1>>, w)>>
  OBVIOUS
<1>b. PICK l : l = [kind |-> "left", about |-> {Visit(c)}]
  OBVIOUS
<1>c. PICK s : s = [kind |-> "snapshot", about |-> {Visit(d) : d \in Room(w) \ {c}}]
  OBVIOUS
<1>d. PICK x : x = [kind |-> "state", about |-> {<<c, Len(visits[c]) + 1>>}]
  OBVIOUS
<1>1. PICK a, b : a = Snapshot(c, w) /\ b = State(c, <<c, Len(visits[c]) + 1>>, w)
  OBVIOUS
<1>2. w # NoWorld
  BY RoomsConstants
<1>3. /\ a \in Calls /\ a.kind = "snapshot" /\ a.to = {c}
      /\ a.about = {Visit(d) : d \in Room(w) \ {c}}
  <2>1. {Visit(d) : d \in Room(w) \ {c}} \in SUBSET Visits
    BY VisitIs DEF RoomsIInv, Room
  <2>2. a = [kind |-> "snapshot", about |-> {Visit(d) : d \in Room(w) \ {c}}, to |-> {c}]
    BY <1>1 DEF Snapshot, Call
  <2>3. {c} \in SUBSET Clients
    OBVIOUS
  <2> QED
    BY <2>1, <2>2, <2>3 DEF Calls
<1>4. /\ b \in Calls /\ b.kind = "state" /\ b.about = {<<c, Len(visits[c]) + 1>>}
      /\ \A d \in Clients : d \in b.to <=> world[d] = w /\ d # c
  <2>1. {<<c, Len(visits[c]) + 1>>} \in SUBSET Visits
    BY VisitIs DEF RoomsIInv, Visits
  <2>2. b = [kind |-> "state", about |-> {<<c, Len(visits[c]) + 1>>}, to |-> Room(w) \ {c}]
    BY <1>1 DEF State, Call
  <2>3. Room(w) \ {c} \in SUBSET Clients
    BY DEF Room
  <2>4. b \in Calls /\ b.kind = "state" /\ b.about = {<<c, Len(visits[c]) + 1>>}
        /\ b.to = Room(w) \ {c}
    BY <2>1, <2>2, <2>3 DEF Calls
  <2> QED
    BY <1>2, <2>4 DEF Room
<1>5. <<a, b>> \in Seq(Calls) /\ ToSet(<<a, b>>) = {a, b}
  BY <1>3, <1>4, Literals
<1>6. ASSUME NEW d \in Clients
      PROVE  For({a, b}, d) = IF d = c THEN {s} ELSE IF world[d] = w THEN {x} ELSE {}
  <2>1. For({a} \cup {b}, d) = For({a}, d) \cup For({b}, d)
    BY ForMembers
  <2>2. For({a}, d) = IF d = c THEN {s} ELSE {}
    <3>1. For({a}, d) = IF d \in a.to THEN {[kind |-> a.kind, about |-> a.about]} ELSE {}
      BY ForMembers
    <3>2. [kind |-> a.kind, about |-> a.about] = s
      BY <1>3, <1>c
    <3>3. d \in a.to <=> d = c
      BY <1>3
    <3> QED
      BY <3>1, <3>2, <3>3
  <2>3. For({b}, d) = IF world[d] = w /\ d # c THEN {x} ELSE {}
    <3>1. For({b}, d) = IF d \in b.to THEN {[kind |-> b.kind, about |-> b.about]} ELSE {}
      BY ForMembers
    <3> QED
      BY <1>4, <1>d, <3>1
  <2>4. For({a, b}, d) = For({a}, d) \cup For({b}, d)
    <3>1. {a} \cup {b} = {a, b}
      OBVIOUS
    <3> QED
      BY <2>1, <3>1
  <2>5. CASE d = c
    BY <2>2, <2>3, <2>4, <2>5
  <2>6. CASE d # c
    BY <2>2, <2>3, <2>4, <2>6
  <2> QED
    BY <2>5, <2>6
<1>7. ASSUME world[c] = NoWorld
      PROVE  q \in Seq(Calls) /\ \A d \in Clients : For(ToSet(q), d) = For({a, b}, d)
  <2>1. q = <<a, b>>
    <3>1. PICK r \in Seq(Calls) : r = <<a, b>>
      BY <1>5
    <3>2. q = <<>> \o r
      BY <1>1, <1>7, <1>a, <3>1
    <3>3. <<>> \o r = r
      OBVIOUS
    <3> QED
      BY <3>1, <3>2, <3>3
  <2> QED
    BY <1>5, <1>6, <1>7, <2>1
<1>8. ASSUME world[c] # NoWorld
      PROVE  /\ q \in Seq(Calls)
             /\ \A d \in Clients : For(ToSet(q), d) =
                  (IF world[d] = world[c] /\ d # c THEN {l} ELSE {}) \cup For({a, b}, d)
  <2>1. PICK m : m = Left(c, w)
    OBVIOUS
  <2>2. /\ m \in Calls /\ m.kind = "left" /\ m.about = {Visit(c)}
        /\ \A d \in Clients : d \in m.to <=> world[d] = world[c] /\ d # c
    BY <1>8, <2>1, LeftIs
  <2>3. PICK r \in Seq(Calls) : r = <<a, b>>
    BY <1>5
  <2>4. q = <<m>> \o r
    BY <1>1, <1>8, <1>a, <2>1, <2>3
  <2>5. q \in Seq(Calls) /\ ToSet(q) = {m} \cup {a, b}
    <3>1. ToSet(r) = {a, b} /\ m \in Calls
      BY <1>5, <2>2, <2>3
    <3>2. <<m>> \o r \in Seq(Calls) /\ ToSet(<<m>> \o r) = {m} \cup ToSet(r)
      BY <3>1, Put
    <3> QED
      BY <2>4, <3>1, <3>2
  <2>6. ASSUME NEW d \in Clients
        PROVE  For({m}, d) = IF world[d] = world[c] /\ d # c THEN {l} ELSE {}
    <3>1. For({m}, d) = IF d \in m.to THEN {[kind |-> m.kind, about |-> m.about]} ELSE {}
      BY ForMembers
    <3> QED
      BY <1>b, <2>2, <3>1
  <2>7. \A d : For({m} \cup {a, b}, d) = For({m}, d) \cup For({a, b}, d)
    BY ForMembers
  <2> QED
    BY <1>6, <1>8, <2>5, <2>6, <2>7
<1>9. /\ l.kind = "left" /\ l.about = {Visit(c)}
      /\ s.kind = "snapshot"
      /\ \A u : u \in s.about <=> \E d \in Clients : d # c /\ world[d] = w /\ u = Visit(d)
      /\ x.kind = "state" /\ x.about = {<<c, Len(visits[c]) + 1>>}
  BY <1>2, <1>b, <1>c, <1>d DEF Room
<1>10. ASSUME NEW d \in Clients, NEW y
       PROVE  y \in For(ToSet(q), d) <=>
                \/ y = l /\ world[c] # NoWorld /\ world[d] = world[c] /\ d # c
                \/ y = s /\ d = c
                \/ y = x /\ d # c /\ world[d] = w
  <2>1. CASE world[c] = NoWorld
    BY <1>6, <1>7, <2>1
  <2>2. CASE world[c] # NoWorld
    BY <1>6, <1>8, <2>2
  <2> QED
    BY <2>1, <2>2
<1>11. q \in Seq(Calls) /\ sends' = [sends EXCEPT ![Reader(c)] = q]
  BY <1>7, <1>8, <1>a DEF Enter
<1>12. EnterCalls(c, w, q, l, s, x)
  BY ONLY <1>9, <1>10, <1>11 DEF EnterCalls
<1> QED
  BY <1>12

LEMMA EnterIInv ==
  ASSUME RoomsIInv, NEW c \in Clients, NEW w \in Worlds, HandlePresence(c, w), world[c] # w
  PROVE  RoomsIInv'
<1>1. PICK k : k = Len(visits[c]) + 1
  OBVIOUS
<1>2. PICK v : v = <<c, k>>
  OBVIOUS
<1>3. PICK q, l, s, x : EnterCalls(c, w, q, l, s, x)
  <2>1. Enter(c, w)
    BY DEF HandlePresence
  <2> QED
    BY <2>1, EnterSends
<1>4. \A d \in Clients : \A y : y \in For(ToSet(q), d) <=>
        \/ y = l /\ world[c] # NoWorld /\ world[d] = world[c] /\ d # c
        \/ y = s /\ d = c
        \/ y = x /\ d # c /\ world[d] = w
  BY <1>3 DEF EnterCalls
<1>5. q \in Seq(Calls) /\ sends' = [sends EXCEPT ![Reader(c)] = q]
  BY <1>3 DEF EnterCalls
<1>6. /\ conn[c] = "in" /\ Free(c) /\ world' = [world EXCEPT ![c] = w]
      /\ visits' = [visits EXCEPT ![c] = Append(@, w)] /\ Forget(c)
      /\ crossed' = [Overlap(c, world[c], w) EXCEPT ![c] = LateLeavers(c, w)]
      /\ reports' = [reports EXCEPT ![c] = @ + 1] /\ UNCHANGED <<conn, full, cut>>
  BY DEF HandlePresence, Enter
<1>7. RoomsIInv /\ RoomsTypeOK
  BY DEF RoomsIInv
<1>8. /\ l.kind = "left" /\ l.about = {Visit(c)}
      /\ s.kind = "snapshot" /\ \A u : u \in s.about <=>
           \E d \in Clients : d # c /\ world[d] = w /\ u = Visit(d)
      /\ x.kind = "state" /\ x.about = {v}
      /\ w # NoWorld
  BY <1>1, <1>2, <1>3, RoomsConstants DEF EnterCalls
<1>10. /\ sends' \in [Threads -> Seq(Calls)]
       /\ \A u \in Threads \ {Reader(c)} : sends'[u] = sends[u]
       /\ \A u \in Threads \ {Reader(c)} : \A d : ToSend(u, d)' = ToSend(u, d)
       /\ \A d : ToSend(Reader(c), d)' = For(ToSet(q), d)
  BY <1>5, <1>7, Names, SendsOf
<1>11. /\ \A d : ToSend(Reader(c), d) = {}
       /\ \A d : ToSend(Leaver(c), d) = {} /\ ToSend(Leaver(c), d)' = {}
  BY <1>6, <1>10, Names, FreeSendsNothing, InIsNotLeaving
<1>12. /\ world' \in [Clients -> Worlds \cup {NoWorld}] /\ world'[c] = w
       /\ \A d \in Clients \ {c} : world'[d] = world[d]
       /\ \A d \in Clients \ {c} : visits'[d] = visits[d]
  BY <1>6 DEF RoomsIInv, RoomsTypeOK
<1>13. /\ visits' \in [Clients -> Seq(Worlds)] /\ k \in Nat \ {0}
       /\ DOMAIN visits'[c] = 1 .. k /\ Len(visits'[c]) = k /\ visits'[c][k] = w
       /\ DOMAIN visits[c] = 1 .. k - 1
       /\ \A n \in 1 .. k - 1 : visits'[c][n] = visits[c][n]
  <2>1. visits[c] \in Seq(Worlds) /\ Append(visits[c], w) \in Seq(Worlds)
    BY DEF RoomsIInv, RoomsTypeOK
  <2>2. visits'[c] = Append(visits[c], w) /\ visits' \in [Clients -> Seq(Worlds)]
    BY <1>6, <2>1 DEF RoomsIInv, RoomsTypeOK
  <2> QED
    BY <1>1, <2>1, <2>2
<1>14. Visit(c)' = v /\ Begun(v)' /\ WorldOf(v)' = w /\ v \in Visits
  BY <1>2, <1>13 DEF Visit, Begun, WorldOf, Visits
<1>15. VisitsGrow
  BY <1>12, <1>13 DEF VisitsGrow
<1>16. /\ \A d \in Clients \ {c} : told'[d] = told[d] /\ parted'[d] = parted[d]
                                   /\ shown'[d] = shown[d]
       /\ told'[c] = {} /\ parted'[c] = {} /\ shown'[c] = {}
       /\ told' \in [Clients -> SUBSET Visits] /\ parted' \in [Clients -> SUBSET Visits]
       /\ shown' \in [Clients -> SUBSET Visits]
  <2>1. /\ told \in [Clients -> SUBSET Visits] /\ parted \in [Clients -> SUBSET Visits]
        /\ shown \in [Clients -> SUBSET Visits]
    BY DEF RoomsIInv, RoomsTypeOK
  <2>2. /\ told' = [told EXCEPT ![c] = {}] /\ parted' = [parted EXCEPT ![c] = {}]
        /\ shown' = [shown EXCEPT ![c] = {}]
    BY <1>6 DEF Forget
  <2> QED
    BY ONLY <2>1, <2>2
<1>17. /\ crossed' \in [Clients -> SUBSET Clients]
       /\ \A d, p \in Clients \ {c} : p \in crossed'[d] <=> p \in crossed[d]
       /\ \A d \in Clients \ {c} : c \notin crossed'[d] =>
            IF world[d] \in {world[c], w} THEN ToSend(Reader(d), d) = {}
            ELSE c \notin crossed[d]
       /\ \A p \in Clients \ {c} : p \notin crossed'[c] => p \notin LateLeavers(c, w)
  <2>1. PICK o : o = Overlap(c, world[c], w)
    OBVIOUS
  <2>2. /\ o \in [Clients -> SUBSET Clients]
        /\ \A d, p \in Clients \ {c} : p \in o[d] <=> p \in crossed[d]
        /\ \A d \in Clients \ {c} : c \notin o[d] =>
             IF world[d] \in {world[c], w} THEN ToSend(Reader(d), d) = {}
             ELSE c \notin crossed[d]
    BY <2>1, OverlapIs DEF RoomsIInv
  <2>3. crossed' = [o EXCEPT ![c] = LateLeavers(c, w)]
    BY <1>6, <2>1
  <2>4. LateLeavers(c, w) \in SUBSET Clients
    BY DEF LateLeavers, Room
  <2> QED
    BY <2>2, <2>3, <2>4
<1>18. conn' = conn /\ full' = full /\ cut' = cut
  BY <1>6
<1>19. RoomsTypeOK'
  <2>1. reports' \in [Clients -> Nat]
    BY <1>6 DEF RoomsIInv, RoomsTypeOK
  <2> QED
    BY <1>10, <1>12, <1>13, <1>16, <1>17, <1>18, <2>1 DEF RoomsIInv, RoomsTypeOK
<1>20. PlayersAreOnVisits'
  <2>1. \A d \in Clients : sends'[Leaver(d)] = sends[Leaver(d)]
    BY <1>10, Names
  <2>2. ASSUME NEW d \in Clients, world'[d] # NoWorld
        PROVE  conn'[d] = "in" /\ Begun(Visit(d))' /\ WorldOf(Visit(d))' = world'[d]
    <3>1. CASE d = c
      BY <1>6, <1>12, <1>14, <1>18, <3>1 DEF Begun, WorldOf, Visit
    <3>2. CASE d # c
      BY <1>12, <1>18, <2>2, <3>2 DEF RoomsIInv, PlayersAreOnVisits, Begun, WorldOf, Visit
    <3> QED
      BY <3>1, <3>2
  <2> QED
    BY <1>18, <2>1, <2>2 DEF RoomsIInv, PlayersAreOnVisits
<1>21. \A p \in Clients \ {c} :
         /\ Visit(p)' = Visit(p) /\ Visit(p)[1] = p /\ Visit(p)[2] = Len(visits[p])
         /\ world[p] # NoWorld => /\ Begun(Visit(p))' /\ WorldOf(Visit(p)) = world[p]
                                  /\ WorldOf(Visit(p))' = world[p]
  BY <1>12, <1>20 DEF Visit, RoomsIInv, PlayersAreOnVisits
<1>22. HandlerOf(c)
  <2>1. ASSUME NEW d \in Clients \ {c}, NEW e \in Clients
        PROVE  /\ ToSend(Reader(d), e)' = ToSend(Reader(d), e)
               /\ ToSend(Leaver(d), e)' = ToSend(Leaver(d), e)
    BY <1>10, Names
  <2>2. ASSUME NEW u,
               u \in s.about \cup x.about \/ (u \in l.about /\ world[c] # NoWorld)
        PROVE  Begun(u)'
    <3>1. CASE u \in l.about /\ world[c] # NoWorld
      <4>1. u \in Visits /\ Begun(u)
        BY <1>8, <2>2, <3>1, LeftIs
      <4> QED
        BY <1>15, <4>1, BegunStays
    <3>2. CASE u \in s.about
      BY <1>8, <1>21, <3>2
    <3>3. CASE u \in x.about
      BY <1>8, <1>14, <3>3
    <3> QED
      BY <2>2, <3>1, <3>2, <3>3
  <2>3. \A d \in Clients : \A t \in {Reader(c), Leaver(c)} : \A y \in ToSend(t, d)' :
          \A u \in y.about : Begun(u)'
    <3>1. \A d \in Clients : \A y \in ToSend(Reader(c), d)' :
            y \in {s, x} \/ (y = l /\ world[c] # NoWorld)
      BY <1>4, <1>10
    <3>2. ASSUME NEW d \in Clients, NEW y \in ToSend(Reader(c), d)', NEW u \in y.about
          PROVE  Begun(u)'
      BY <2>2, <3>1, <3>2
    <3> QED
      BY <1>11, <3>2
  <2> QED
    BY <1>12, <1>15, <1>16, <1>17, <1>18, <1>19, <1>20, <2>1, <2>3 DEF HandlerOf
<1>23. ASSUME NEW d \in Clients
       PROVE  CallsAreOwn(c, d)'
  <2>1. \A y \in ToSend(Reader(c), d)' :
          \/ y = s /\ d = c
          \/ y = x /\ d # c
          \/ y = l /\ d # c
    BY <1>4, <1>10
  <2>2. \A u \in l.about : u[1] = c
    BY <1>8 DEF Visit
  <2> QED
    BY <1>8, <1>11, <1>12, <1>14, <2>1, <2>2 DEF CallsAreOwn
<1>24. ASSUME NEW d \in Clients \ {c}, Hears(d)
       PROVE  Agreed(d, c)'
  <2>1. Agreed(d, c) /\ world[d] # NoWorld /\ world'[d] = world[d]
    BY <1>12, <1>24 DEF RoomsIInv, Agreed, Hears
  <2>2. /\ \A y : y \in ToSend(Reader(c), d)' <=>
             (y = l /\ world[d] = world[c]) \/ (y = x /\ world[d] = w)
        /\ \A y : y \in PlayerSends(c, d)' <=>
             (y = l /\ world[d] = world[c]) \/ (y = x /\ world[d] = w)
        /\ PlayerSends(c, d) = {}
    <3>1. \A y : y \in ToSend(Reader(c), d)' <=>
             (y = l /\ world[d] = world[c]) \/ (y = x /\ world[d] = w)
      BY <1>4, <1>10, <2>1
    <3> QED
      BY <1>11, <3>1 DEF PlayerSends
  <2>3. ToSend(Reader(d), d)' = ToSend(Reader(d), d)
    BY <1>22 DEF HandlerOf
  <2>4. \A u : Announced(d, c, u)' => Announced(d, c, u) \/ (u = v /\ world[d] = w)
    BY <1>8, <1>16, <2>2, <2>3 DEF Announced
  <2>5. VisitsAreAnnounced(d, c)'
    BY <1>8, <1>12, <1>14, <2>1, <2>2 DEF VisitsAreAnnounced, Announced
  <2>6. EndsAreSent(d, c)'
    <3> SUFFICES ASSUME <<d, c>> \notin cut', NEW n \in DOMAIN visits'[c],
                        Announced(d, c, <<c, n>>)', visits'[c][n] = world[d],
                        n # Len(visits'[c]) \/ w # world[d]
                 PROVE  EndIsSent(d, c, <<c, n>>)'
      BY <1>12, <2>1 DEF EndsAreSent
    <3>1. n \in 1 .. k - 1 /\ visits[c][n] = world[d]
      BY <1>13
    <3>2. Announced(d, c, <<c, n>>)
      <4>1. <<c, n>> # v
        BY <1>2, <1>13, <3>1
      <4> QED
        BY <2>4, <4>1
    <3>3. CASE n # Len(visits[c]) \/ world[c] # world[d]
      <4>1. EndIsSent(d, c, <<c, n>>)
        BY <1>13, <1>18, <2>1, <3>1, <3>2, <3>3 DEF Agreed, EndsAreSent
      <4> QED
        BY <1>16, <2>2, <4>1 DEF EndIsSent
    <3>4. CASE n = Len(visits[c]) /\ world[c] = world[d]
      <4>1. <<c, n>> \in l.about
        BY <1>8, <3>4 DEF Visit
      <4> QED
        BY <1>8, <2>2, <3>4, <4>1 DEF EndIsSent
    <3> QED
      BY <3>3, <3>4
  <2>7. ShownInTheEnd(d, c)'
    <3> SUFFICES ASSUME InOrder(d, c)'
                 PROVE  /\ \A y \in ToSend(Reader(d), d)' :
                             y.kind = "snapshot" => Agrees(d, c, y.about)'
                        /\ \A m \in PlayerSends(c, d)' : m.kind = "left" => w # world[d]
                        /\ \/ \E y \in ToSend(Reader(d), d)' : y.kind = "snapshot"
                           \/ PlayerSends(c, d)' # {}
                           \/ Agrees(d, c, shown[d])'
      BY <1>12, <2>1 DEF ShownInTheEnd
    <3>1. \A m \in PlayerSends(c, d)' : m.kind = "left" => w # world[d]
      BY <1>8, <2>2
    <3>2. CASE world[d] \in {world[c], w}
      BY <1>17, <2>2, <2>3, <3>1, <3>2 DEF InOrder
    <3>3. CASE world[d] \notin {world[c], w}
      <4>1. InOrder(d, c)
        BY <1>17, <1>18, <3>3 DEF InOrder
      <4>2. world'[c] # world'[d] /\ shown'[d] = shown[d]
        BY <1>12, <1>16, <2>1, <3>3
      <4>3. \A u \in shown[d] : u \in Visits /\ Begun(u)
        BY DEF RoomsIInv, RoomsTypeOK, OnlyBegun
      <4>4. \A y \in ToSend(Reader(d), d) : \A u \in y.about : u \in Visits /\ Begun(u)
        BY Names, CallsAreTyped DEF RoomsIInv, OnlyBegun
      <4>5. Agrees(d, c, shown[d]) => Agrees(d, c, shown[d])'
        <5>1. PICK vs : vs = shown[d] /\ vs = shown'[d]
          BY <4>2
        <5>2. Agrees(d, c, vs) => Agrees(d, c, vs)'
          BY <1>15, <2>1, <3>3, <4>2, <4>3, <5>1, StillAway
        <5> QED
          BY <5>1, <5>2 DEF Agrees, Of, WorldOf
      <4>6. ASSUME NEW y \in ToSend(Reader(d), d), y.kind = "snapshot"
            PROVE  Agrees(d, c, y.about)'
        <5>1. Agrees(d, c, y.about)
          BY <2>1, <4>1, <4>6 DEF Agreed, ShownInTheEnd
        <5> QED
          BY <1>15, <2>1, <3>3, <4>2, <4>4, <5>1, StillAway
      <4> QED
        BY <2>1, <2>2, <2>3, <3>1, <4>1, <4>5, <4>6 DEF Agreed, ShownInTheEnd
    <3> QED
      BY <3>2, <3>3
  <2> QED
    BY <2>5, <2>6, <2>7 DEF Agreed
<1>25. ASSUME NEW p \in Clients \ {c}, Hears(c)'
       PROVE  Agreed(c, p)'
  <2>1. /\ ToSend(Reader(c), c)' = {s}
        /\ ToSend(Reader(p), c)' = ToSend(Reader(p), c)
        /\ ToSend(Leaver(p), c)' = ToSend(Leaver(p), c)
        /\ world'[p] = world[p] /\ world'[c] = w /\ visits'[p] = visits[p]
        /\ cut' = cut
    BY <1>4, <1>10, <1>12, <1>18, <1>22 DEF HandlerOf
  <2>2. VisitsAreAnnounced(c, p)'
    BY <1>8, <1>21, <2>1 DEF VisitsAreAnnounced, Announced
  <2>3. EndsAreSent(c, p)'
    <3> SUFFICES ASSUME <<c, p>> \notin cut, NEW n \in DOMAIN visits[p],
                        Announced(c, p, <<p, n>>)', visits[p][n] = w,
                        n # Len(visits[p]) \/ world[p] # w
                 PROVE  FALSE
      BY <2>1 DEF EndsAreSent
    <3>1. CASE <<p, n>> \in s.about
      <4>1. PICK e \in Clients : e # c /\ world[e] = w /\ <<p, n>> = Visit(e)
        BY <1>8, <3>1
      <4> QED
        BY <4>1 DEF Visit
    <3>2. CASE \E m \in ToSend(Reader(p), c) : m.kind = "state" /\ <<p, n>> \in m.about
      <4>1. <<p, n>> = Visit(p) /\ world[p] # NoWorld
        BY <3>2 DEF RoomsIInv, CallsAreOwn
      <4>2. n = Len(visits[p]) /\ world[p] = visits[p][n]
        BY <1>21, <4>1 DEF WorldOf, Visit
      <4> QED
        BY <4>2
    <3> QED
      BY <1>16, <2>1, <3>1, <3>2 DEF Announced
  <2>4. ShownInTheEnd(c, p)'
    <3> SUFFICES ASSUME InOrder(c, p)'
                 PROVE  /\ Agrees(c, p, s.about)'
                        /\ \A m \in PlayerSends(p, c)' : m.kind = "left" => world[p] # w
      BY <1>8, <2>1 DEF ShownInTheEnd
    <3>1. (\E u \in Of(p, s.about) : WorldOf(u)' = w) <=> world[p] = w
      <4>1. ASSUME world[p] = w
            PROVE  \E u \in Of(p, s.about) : WorldOf(u)' = w
        <5>1. Visit(p) \in s.about /\ Visit(p)[1] = p /\ WorldOf(Visit(p))' = w
          BY <1>8, <1>21, <4>1
        <5>2. Visit(p) \in Of(p, s.about)
          BY <5>1 DEF Of
        <5>3. PICK u : u = Visit(p)
          OBVIOUS
        <5>4. WorldOf(u)' = w
          BY <1>21, <5>1, <5>3 DEF WorldOf, Visit
        <5> QED
          BY <5>2, <5>3, <5>4
      <4>2. ASSUME NEW u \in Of(p, s.about), world[p] # w
            PROVE  FALSE
        BY <1>8, <4>2 DEF Of, Visit
      <4> QED
        BY <4>1, <4>2
    <3>2. Agrees(c, p, s.about)'
      BY <2>1, <3>1 DEF Agrees, Of
    <3>3. ASSUME NEW m \in PlayerSends(p, c)', m.kind = "left"
          PROVE  world[p] # w
      <4>1. CASE m \in ToSend(Leaver(p), c)
        <5>1. sends[Leaver(p)] # <<>>
          BY <4>1, NothingToSend
        <5> QED
          BY <1>8, <5>1 DEF RoomsIInv, PlayersAreOnVisits
      <4>2. CASE m \in ToSend(Reader(p), c)
        BY <1>8, <1>17, <3>3, <4>2 DEF InOrder, LateLeavers, Room
      <4> QED
        BY <2>1, <3>3, <4>1, <4>2 DEF PlayerSends
    <3> QED
      BY <3>2, <3>3
  <2> QED
    BY <2>2, <2>3, <2>4 DEF Agreed
<1> QED
  BY <1>22, <1>23, <1>24, <1>25, Compose


-----------------------------------------------------------------------------
(* The theorems *)

LEMMA RoomsInitIInv ==
  ASSUME RoomsInit
  PROVE  RoomsIInv
<1> USE DEF RoomsInit
<1>1. /\ \A c \in Clients : world[c] = NoWorld /\ visits[c] = <<>>
      /\ \A c \in Clients : told[c] = {} /\ shown[c] = {}
      /\ \A t \in Threads : sends[t] = <<>>
  OBVIOUS
<1>2. RoomsTypeOK
  BY DEF RoomsTypeOK
<1>3. PlayersAreOnVisits
  BY <1>1, Names DEF PlayersAreOnVisits
<1>4. \A t \in Threads : \A d : ToSend(t, d) = {}
  BY <1>1, NothingToSend
<1>5. \A d \in Clients : OnlyBegun(d)
  BY <1>1, <1>4 DEF OnlyBegun
<1>6. \A d, p \in Clients : CallsAreOwn(p, d)
  BY <1>4, Names DEF CallsAreOwn
<1>7. \A d \in Clients : ~Hears(d)
  BY <1>1 DEF Hears
<1> QED
  BY <1>2, <1>3, <1>5, <1>6, <1>7 DEF RoomsIInv

LEMMA StepIInv ==
  ASSUME RoomsIInv, [RoomsNext]_roomsVars
  PROVE  RoomsIInv'
<1>1. CASE UNCHANGED roomsVars
  <2>1. /\ conn' = conn /\ world' = world /\ sends' = sends /\ full' = full
        /\ reports' = reports /\ visits' = visits /\ told' = told
        /\ parted' = parted /\ shown' = shown /\ crossed' = crossed /\ cut' = cut
    BY <1>1 DEF roomsVars, ghosts
  <2>2. RoomsTypeOK'
    BY <2>1 DEF RoomsIInv, RoomsTypeOK
  <2>3. PlayersAreOnVisits'
    BY <2>1 DEF RoomsIInv, PlayersAreOnVisits, Begun, Visit, WorldOf
  <2>4. \A t \in Threads, d \in Clients : ToSend(t, d)' = ToSend(t, d)
    BY <2>1 DEF ToSend
  <2> QED
    BY <2>1, <2>2, <2>3, <2>4, Silence
<1>2. ASSUME NEW c \in Clients, NEW w \in Worlds, HandlePresence(c, w)
      PROVE  RoomsIInv'
  BY <1>2, ReportIInv, EnterIInv
<1>3. ASSUME NEW c \in Clients, Register(c) \/ LeaveWorld(c) \/ Unregister(c)
      PROVE  RoomsIInv'
  BY <1>3, RegisterIInv, LeaveWorldIInv, UnregisterIInv
<1>4. ASSUME NEW t \in Threads, DeliverNone(t) \/ \E d \in Clients : Deliver(t, d)
      PROVE  RoomsIInv'
  BY <1>4, DeliverNoneIInv, DeliverIInv
<1> QED
  BY <1>1, <1>2, <1>3, <1>4 DEF RoomsNext

\* What holds of every step of the handlers and of their fan-out: what is still to
\* be sent, with what was received, tells each player in a room of each visit of
\* the others there and of its end.
THEOREM RoomsInvariance == RoomsSpec => []RoomsIInv
BY RoomsInitIInv, StepIInv, PTL DEF RoomsSpec

\* Nothing is left to send for a player whose handlers are over.
LEMMA QuietSendsNothing ==
  ASSUME NEW c, Quiet(c)
  PROVE  \A d : ToSend(Reader(c), d) = {} /\ PlayerSends(c, d) = {}
BY NothingToSend DEF Quiet, Free, PlayerSends

LEMMA IInvTells ==
  ASSUME RoomsIInv
  PROVE  RoommatesAreTold
<1> SUFFICES ASSUME NEW d \in Clients, NEW p \in Clients, d # p, Watching(d), Quiet(p)
             PROVE  /\ world[p] = world[d] => Visit(p) \in told[d]
                    /\ \A v \in Of(p, told[d]) :
                         WorldOf(v) = world[d] /\ (v # Visit(p) \/ world[p] # world[d])
                           /\ <<d, p>> \notin cut => v \in parted[d]
  BY DEF RoommatesAreTold
<1>1. Hears(d) /\ Quiet(d)
  BY DEF Watching, Hears
<1>2. ToSend(Reader(d), d) = {} /\ ToSend(Reader(p), d) = {} /\ PlayerSends(p, d) = {}
  BY <1>1, QuietSendsNothing
<1>3. VisitsAreAnnounced(d, p) /\ EndsAreSent(d, p)
  BY <1>1 DEF RoomsIInv
<1>4. world[p] = world[d] => Visit(p) \in told[d]
  BY <1>2, <1>3 DEF VisitsAreAnnounced, Announced
<1>5. ASSUME NEW v \in Of(p, told[d]), WorldOf(v) = world[d],
             v # Visit(p) \/ world[p] # world[d], <<d, p>> \notin cut
      PROVE  v \in parted[d]
  <2>1. v \in told[d] /\ v[1] = p /\ v \in Visits /\ Begun(v)
    BY DEF Of, RoomsIInv, RoomsTypeOK, OnlyBegun
  <2>2. PICK n : n = v[2]
    OBVIOUS
  <2>3. v = <<p, n>> /\ n \in DOMAIN visits[p] /\ visits[p][n] = world[d]
    BY <1>5, <2>1, <2>2 DEF Visits, Begun, WorldOf
  <2>4. n # Len(visits[p]) \/ world[p] # world[d]
    BY <1>5, <2>3 DEF Visit
  <2>5. Announced(d, p, <<p, n>>)
    BY <2>1, <2>3 DEF Announced
  <2>6. EndIsSent(d, p, <<p, n>>)
    BY <1>3, <1>5, <2>3, <2>4, <2>5 DEF EndsAreSent
  <2> QED
    BY <1>2, <2>3, <2>6 DEF EndIsSent
<1> QED
  BY <1>4, <1>5

LEMMA IInvShows ==
  ASSUME RoomsIInv
  PROVE  RoomIsShown
<1> SUFFICES ASSUME NEW d \in Clients, NEW p \in Clients, d # p, Watching(d), Quiet(p),
                    InOrder(d, p)
             PROVE  world[p] = world[d] <=>
                      \E v \in Of(p, shown[d]) : WorldOf(v) = world[d]
  BY DEF RoomIsShown
<1>1. Hears(d) /\ Quiet(d)
  BY DEF Watching, Hears
<1>2. ToSend(Reader(d), d) = {} /\ PlayerSends(p, d) = {}
  BY <1>1, QuietSendsNothing
<1>3. ShownInTheEnd(d, p)
  BY <1>1 DEF RoomsIInv
<1> QED
  BY <1>2, <1>3 DEF ShownInTheEnd, Agrees

\* Between the snapshot and the list of recipients nobody is forgotten: a player
\* whose handlers are over has been told of every visit to its room that has
\* lasted into its own, and of the end of each (HandlePresence, leaveWorld and
\* Unregister send after they have released Hub.mu).
THEOREM NobodyInTheRoomIsMissed == RoomsSpec => []RoommatesAreTold
<1>1. RoomsIInv => RoommatesAreTold
  BY IInvTells
<1> QED
  BY <1>1, RoomsInvariance, PTL

\* What a player is left with, read in order, is who is there, unless a message of
\* the other player and its snapshot crossed, or Unregister overtook a state.
THEOREM TheRoomIsAsItIsShown == RoomsSpec => []RoomIsShown
<1>1. RoomsIInv => RoomIsShown
  BY IInvShows
<1> QED
  BY <1>1, RoomsInvariance, PTL

=============================================================================
