------------------------- MODULE ScriptEventsProofs -------------------------
(***************************************************************************)
(* Proofs about ScriptEvents.tla, for any number of connections, versions, *)
(* runs, effects and restarts.  The invariant has two halves: the rows     *)
(* (what is recorded, applied and still active) and the ownership of runs  *)
(* (which goroutine, connection and process a run belongs to).  KeepsRows, *)
(* FinishKeepsRows, GivesUp and EndsCall state what the steps of the       *)
(* handlers have in common.                                                *)
(***************************************************************************)
EXTENDS ScriptEvents, FiniteSetTheorems, TLAPS

-----------------------------------------------------------------------------
(* Records *)

LEMMA RunsFacts == NoRun \notin Runs /\ Runs \subseteq Nat
BY ConstantsAssumption DEF Runs, NoRun

LEMMA IdleFacts ==
  /\ Idle \in Work /\ Done \in Work
  /\ Idle.at = "idle" /\ Idle.call = "none" /\ Idle.run = NoRun
  /\ Done.at = "done" /\ Done.call = "none" /\ Done.run = NoRun
BY DEF Idle, Done, Work

LEMMA ThreadFacts ==
  /\ \A c \in Conns, side \in {"read", "leave"} :
       /\ <<c, side>> \in Threads
       /\ <<c, side>>[1] = c /\ <<c, side>>[2] = side
  /\ \A t \in Threads :
       /\ t = <<t[1], t[2]>> /\ t[1] \in Conns /\ t[2] \in {"read", "leave"}
BY DEF Threads

LEMMA WorkFields ==
  ASSUME TypeOK, NEW t \in Threads
  PROVE  /\ work[t] \in Work /\ work[t].run \in Runs \cup {NoRun}
         /\ work[t].snapshot \in Nat /\ work[t].excluded \in SUBSET Versions
         /\ work[t].call \in {"none", "start", "advance", "stop", "cancel"}
         /\ work[t].at \in {"idle", "resolve", "launch", "renew", "pump",
                            "cancel", "done"}
BY DEF TypeOK, Work

LEMMA RowFields ==
  ASSUME TypeOK, NEW r \in Runs
  PROVE  /\ rows[r] \in Row /\ rows[r].status \in Statuses
         /\ rows[r].effects \in Seq(Effects) /\ rows[r].revision \in Nat
         /\ rows[r].version \in Versions \cup {NoVersion}
         /\ session[r] \in Session /\ session[r].staged \in Seq(Effects)
         /\ session[r].open \in BOOLEAN /\ session[r].visible \in BOOLEAN
         /\ session[r].yen \in Nat
BY DEF TypeOK, Row, Session

LEMMA NoSessionFacts ==
  /\ NoSession \in Session /\ ~NoSession.open /\ ~NoSession.visible
  /\ NoSession.staged = <<>> /\ Len(NoSession.staged) = 0
BY DEF NoSession, Session

-----------------------------------------------------------------------------
(* The rows: what is recorded, applied and active *)

RowsInv == EffectsOnce /\ StoryIsFresh /\ RowsAreInOrder

\* A step that records no effects and starts no run keeps all of it: runs may
\* expire, be cancelled, fail or renew their lease.
LEMMA KeepsRows ==
  ASSUME TypeOK, RowsInv, UNCHANGED <<yen, progress, revision, elsewhere>>,
         rows' \in [Runs -> Row],
         \A q \in Runs :
           /\ rows'[q].effects = rows[q].effects
           /\ rows'[q].version = rows[q].version
           /\ rows'[q].status \in {"completed", "passed"} <=>
                rows[q].status \in {"completed", "passed"}
           /\ rows'[q].status = "none" <=> rows[q].status = "none"
           /\ rows'[q].status = "active" =>
                rows[q].status = "active" /\ rows'[q].revision = rows[q].revision
           /\ Len(session'[q].staged) <= MaxEffects
  PROVE  RowsInv' /\ Inserted' = Inserted
<1>1. Committed' = Committed /\ Inserted' = Inserted
  BY DEF Committed, Inserted
<1>2. ASSUME NEW e \in Effects PROVE Recorded(e)' = Recorded(e)
  BY DEF Recorded
<1>3. EffectsOnce'
  BY <1>1, <1>2 DEF RowsInv, EffectsOnce, Effects
<1>4. StoryIsFresh'
  BY DEF RowsInv, StoryIsFresh
<1>5. RowsAreInOrder'
  <2>1. Inserted \subseteq Runs
    BY DEF Inserted
  <2> QED
    BY <1>1, <2>1 DEF RowsInv, RowsAreInOrder, NumberOfRuns
<1> QED
  BY <1>1, <1>3, <1>4, <1>5 DEF RowsInv

LEMMA RowsUnchanged ==
  ASSUME TypeOK, RowsInv, UNCHANGED <<rows, yen, progress, revision, elsewhere>>,
         \A q \in Runs : Len(session'[q].staged) <= MaxEffects
  PROVE  RowsInv' /\ Inserted' = Inserted
BY KeepsRows DEF TypeOK

LEMMA StagedIsBounded ==
  ASSUME RowsInv, session' = session
  PROVE  \A q \in Runs : Len(session'[q].staged) <= MaxEffects
BY DEF RowsInv, RowsAreInOrder

\* WithStatus and Ended end an active run and keep the others.
LEMMA WithStatusFacts ==
  ASSUME TypeOK, NEW r \in Runs,
         NEW st \in {"cancelled", "failed"}
  PROVE  /\ WithStatus(r, st) \in [Runs -> Row]
         /\ \A q \in Runs \ {r} : WithStatus(r, st)[q] = rows[q]
         /\ WithStatus(r, st)[r].status = st
         /\ WithStatus(r, st)[r].effects = rows[r].effects
         /\ WithStatus(r, st)[r].version = rows[r].version
<1> DEFINE i == rows[r]
           w == [i EXCEPT !.status = st, !.expires = 0]
<1>1. w \in Row /\ w.status = st /\ w.effects = i.effects /\ w.version = i.version
  <2>1. i \in Row
    BY RowFields
  <2> HIDE DEF i
  <2> QED
    BY <2>1 DEF Row, Statuses
<1>2. WithStatus(r, st) = [rows EXCEPT ![r] = w]
  BY DEF WithStatus
<1> HIDE DEF w
<1> QED
  BY <1>1, <1>2 DEF TypeOK

LEMMA WithStatusKeepsRows ==
  ASSUME TypeOK, RowsInv, NEW r \in Runs, NEW st \in {"cancelled", "failed"},
         rows[r].status = "active", rows' = WithStatus(r, st),
         UNCHANGED <<yen, progress, revision, elsewhere>>,
         \A q \in Runs : Len(session'[q].staged) <= MaxEffects
  PROVE  rows' \in [Runs -> Row] /\ RowsInv' /\ Inserted' = Inserted
<1>1. \A q \in Runs :
         /\ rows'[q].effects = rows[q].effects
         /\ rows'[q].version = rows[q].version
         /\ rows'[q].status \in {"completed", "passed"} <=>
              rows[q].status \in {"completed", "passed"}
         /\ rows'[q].status = "none" <=> rows[q].status = "none"
         /\ rows'[q].status = "active" =>
              rows[q].status = "active" /\ rows'[q].revision = rows[q].revision
  BY WithStatusFacts
<1>2. rows' \in [Runs -> Row]
  BY WithStatusFacts
<1> QED
  BY <1>1, <1>2, KeepsRows

LEMMA EndedKeepsRows ==
  ASSUME TypeOK, RowsInv, NEW r \in Runs, rows' \in {Ended(r, "failed"), rows},
         UNCHANGED <<yen, progress, revision, elsewhere>>,
         \A q \in Runs : Len(session'[q].staged) <= MaxEffects
  PROVE  rows' \in [Runs -> Row] /\ RowsInv' /\ Inserted' = Inserted
<1>1. CASE rows' = rows
  BY <1>1, RowsUnchanged DEF TypeOK
<1>2. CASE rows[r].status = "active" /\ rows' = WithStatus(r, "failed")
  BY <1>2, WithStatusKeepsRows
<1> QED
  BY <1>1, <1>2 DEF Ended

\* The next run's number is free, because the runs are numbered from one.
LEMMA NextRunIsFree ==
  ASSUME TypeOK, RowsAreInOrder
  PROVE  /\ IsFiniteSet(Inserted) /\ NumberOfRuns \in Nat
         /\ NumberOfRuns + 1 \notin Inserted
         /\ NumberOfRuns < MaxRuns => NumberOfRuns + 1 \in Runs
<1>1. IsFiniteSet(Inserted)
  <2>1. MaxRuns \in Int /\ 1 \in Int
    BY ConstantsAssumption
  <2>2. IsFiniteSet(Runs)
    BY <2>1, FS_Interval DEF Runs
  <2>3. Inserted \in SUBSET Runs
    BY DEF Inserted
  <2> QED
    BY <2>2, <2>3, FS_Subset
<1>2. NumberOfRuns \in Nat
  BY <1>1, FS_CardinalityType DEF NumberOfRuns
<1>3. NumberOfRuns + 1 \notin 1 .. NumberOfRuns
  BY <1>2
<1>4. NumberOfRuns < MaxRuns => NumberOfRuns + 1 \in Runs
  BY <1>2, ConstantsAssumption DEF Runs
<1> QED
  BY <1>1, <1>2, <1>3, <1>4 DEF RowsAreInOrder

LEMMA ExpiredFacts ==
  ASSUME TypeOK, NEW q \in Runs
  PROVE  /\ Expired[q] \in Row /\ Expired[q].effects = rows[q].effects
         /\ Expired[q].version = rows[q].version
         /\ Expired[q].status \in {"completed", "passed"} <=>
              rows[q].status \in {"completed", "passed"}
         /\ Expired[q].status = "none" <=> rows[q].status = "none"
<1> DEFINE i == rows[q]
           w == [i EXCEPT !.status = "expired", !.expires = 0]
<1>1. i \in Row
  BY RowFields
<1>2. /\ w \in Row /\ w.status = "expired" /\ w.effects = i.effects
      /\ w.version = i.version
  <2> HIDE DEF i
  <2> QED
    BY <1>1 DEF Row, Statuses
<1>3. Expired[q] = IF i.status = "active" /\ i.expires <= now THEN w ELSE i
  BY DEF Expired
<1> HIDE DEF w
<1> QED
  BY <1>1, <1>2, <1>3

\* A run starts with the character's story revision, when no other is active.
LEMMA StartKeepsRows ==
  ASSUME TypeOK, RowsInv, NEW t \in Threads, NEW published \in SUBSET Versions,
         NEW v \in Versions, StartPublishedScriptEvent(t, published, v)
  PROVE  /\ rows' \in [Runs -> Row] /\ RowsInv'
         /\ NumberOfRuns + 1 \in Runs /\ NumberOfRuns + 1 \notin Inserted
         /\ Inserted' = Inserted \cup {NumberOfRuns + 1}
<1> DEFINE r == NumberOfRuns + 1
           w == [NoRow EXCEPT !.status = "active", !.version = v,
                              !.revision = revision, !.expires = now + Lease]
<1>1. NumberOfRuns \in Nat /\ r \in Runs /\ r \notin Inserted
      /\ IsFiniteSet(Inserted)
  BY NextRunIsFree DEF StartPublishedScriptEvent, RowsInv
<1>2. rows[r].status = "none" /\ rows[r].effects = <<>>
  BY <1>1 DEF Inserted, RowsInv, EffectsOnce, Committed
<1>3. /\ w \in Row /\ w.status = "active" /\ w.effects = <<>>
      /\ w.revision = revision /\ w.version = v
  <2>1. revision \in Nat /\ now + Lease \in Nat
    BY ConstantsAssumption DEF TypeOK
  <2>2. NoRow \in Row /\ NoRow.effects = <<>>
    BY DEF Row, NoRow, Statuses
  <2>3. ASSUME NEW i \in Row, i.effects = <<>>
        PROVE  LET z == [i EXCEPT !.status = "active", !.version = v,
                                  !.revision = revision, !.expires = now + Lease]
               IN /\ z \in Row /\ z.status = "active" /\ z.effects = <<>>
                  /\ z.revision = revision /\ z.version = v
    BY <2>1, <2>3 DEF Row, Statuses
  <2> QED
    BY <2>2, <2>3
<1>4. rows' = [Expired EXCEPT ![r] = w]
  BY DEF StartPublishedScriptEvent
<1>5. Expired \in [Runs -> Row]
  <2>1. Expired = [q \in Runs |-> Expired[q]]
    BY DEF Expired
  <2> QED
    BY <2>1, ExpiredFacts
<1> HIDE DEF w, r
<1>6. rows' \in [Runs -> Row] /\ rows'[r] = w
      /\ \A q \in Runs \ {r} : rows'[q] = Expired[q]
  BY <1>1, <1>3, <1>4, <1>5
<1>7. Inserted' = Inserted \cup {r}
  BY <1>1, <1>3, <1>6, ExpiredFacts DEF Inserted
<1>8. Committed' = Committed
  BY <1>2, <1>3, <1>6, ExpiredFacts DEF Committed
<1>9. \A q \in Runs : rows'[q].effects = rows[q].effects
  BY <1>2, <1>3, <1>6, ExpiredFacts
<1>10. UNCHANGED <<yen, progress, revision, elsewhere, session>>
  BY DEF StartPublishedScriptEvent
<1>11. EffectsOnce'
  <2>1. ASSUME NEW e \in Effects PROVE Recorded(e)' = Recorded(e)
    BY <1>9 DEF Recorded
  <2> QED
    BY <2>1, <1>8, <1>9, <1>10 DEF RowsInv, EffectsOnce, Effects
<1>12. \A q \in Runs : rows'[q].status = "active" => q = r
  BY <1>6 DEF StartPublishedScriptEvent
<1>13. StoryIsFresh'
  BY <1>12, <1>6, <1>3, <1>10 DEF StoryIsFresh
<1>14. RowsAreInOrder'
  <2>1. NumberOfRuns' = r
    BY <1>7, <1>1, FS_AddElement DEF NumberOfRuns, r
  <2>2. Inserted' = 1 .. r
    BY <1>1, <1>7 DEF RowsInv, RowsAreInOrder, r
  <2>3. \A q \in Inserted' : rows'[q].version \in Versions
    BY <1>3, <1>6, <1>7, ExpiredFacts DEF RowsInv, RowsAreInOrder, Inserted
  <2> QED
    BY <2>1, <2>2, <2>3, <1>12, <1>10 DEF RowsInv, RowsAreInOrder
<1> QED
  BY <1>1, <1>6, <1>7, <1>11, <1>13, <1>14 DEF RowsInv, r

\* Renew only moves the end of the lease.
LEMMA RenewKeepsRows ==
  ASSUME TypeOK, RowsInv, NEW r \in Runs,
         rows' = [rows EXCEPT ![r] = [rows[r] EXCEPT !.expires = now + Lease]],
         UNCHANGED <<yen, progress, revision, elsewhere, session>>
  PROVE  rows' \in [Runs -> Row] /\ RowsInv' /\ Inserted' = Inserted
<1> DEFINE i == rows[r]
           w == [i EXCEPT !.expires = now + Lease]
<1>1. /\ w \in Row /\ w.status = i.status /\ w.effects = i.effects
      /\ w.revision = i.revision /\ w.version = i.version
  <2>1. i \in Row /\ now + Lease \in Nat
    BY RowFields, ConstantsAssumption DEF TypeOK
  <2> HIDE DEF i
  <2> QED
    BY <2>1 DEF Row
<1>2. rows' = [rows EXCEPT ![r] = w]
  OBVIOUS
<1> HIDE DEF w
<1>3. /\ rows' \in [Runs -> Row] /\ rows'[r] = w
      /\ \A q \in Runs \ {r} : rows'[q] = rows[q]
  BY <1>1, <1>2 DEF TypeOK
<1>4. \A q \in Runs :
         /\ rows'[q].effects = rows[q].effects
         /\ rows'[q].version = rows[q].version
         /\ rows'[q].status = rows[q].status
         /\ rows'[q].revision = rows[q].revision
         /\ rows'[q].version = rows[q].version
  BY <1>1, <1>3
<1> QED
  BY <1>3, <1>4, KeepsRows, StagedIsBounded

\* The effects of a run, as pairs with its number.
Numbered(r, effects, e) == {r} \X {i \in DOMAIN effects : effects[i] = e}

LEMMA NumberedAreCounted ==
  ASSUME NEW r, NEW effects \in Seq(Effects), NEW e
  PROVE  /\ Count(effects, e) \in Nat
         /\ IsFiniteSet(Numbered(r, effects, e))
         /\ Cardinality(Numbered(r, effects, e)) = Count(effects, e)
<1> DEFINE I == {i \in DOMAIN effects : effects[i] = e}
           f == [i \in I |-> <<r, i>>]
<1>1. IsFiniteSet(I)
  <2>1. DOMAIN effects = 1 .. Len(effects) /\ Len(effects) \in Int /\ 1 \in Int
    OBVIOUS
  <2>2. IsFiniteSet(DOMAIN effects)
    BY <2>1, FS_Interval
  <2>3. I \in SUBSET DOMAIN effects
    OBVIOUS
  <2> QED
    BY <2>2, <2>3, FS_Subset
<1>2. Count(effects, e) = Cardinality(I)
  BY DEF Count
<1>3. f \in Bijection(I, Numbered(r, effects, e))
  BY DEF Bijection, Injection, Surjection, IsInjective, Numbered
<1>4. ExistsBijection(I, Numbered(r, effects, e))
  BY <1>3 DEF ExistsBijection
<1> HIDE DEF I
<1> QED
  BY <1>1, <1>2, <1>4, FS_Bijection, FS_CardinalityType

LEMMA RecordedIsFinite ==
  ASSUME NEW e
  PROVE  IsFiniteSet(Recorded(e)) /\ Cardinality(Recorded(e)) \in Nat
<1>1. MaxRuns \in Int /\ MaxEffects \in Int /\ 1 \in Int
  BY ConstantsAssumption
<1>2. IsFiniteSet(Runs) /\ IsFiniteSet(1 .. MaxEffects)
  BY <1>1, FS_Interval DEF Runs
<1>3. IsFiniteSet(Runs \X (1 .. MaxEffects))
  BY <1>2, FS_Product
<1>4. Recorded(e) \in SUBSET (Runs \X (1 .. MaxEffects))
  BY DEF Recorded
<1> QED
  BY <1>3, <1>4, FS_Subset, FS_CardinalityType

\* The transaction that ends a run records and applies its staged effects.
LEMMA FinishKeepsRows ==
  ASSUME TypeOK, RowsInv, NEW r \in Runs, NEW s \in {"completed", "passed"},
         MayFinish(r), FinishScriptEvent(r, s), elsewhere' = elsewhere,
         \A q \in Runs : Len(session'[q].staged) <= MaxEffects
  PROVE  /\ rows' \in [Runs -> Row] /\ yen' \in Nat /\ progress' \in Nat
         /\ revision' \in Nat
         /\ RowsInv' /\ Inserted' = Inserted
<1> DEFINE staged == session[r].staged
           i == rows[r]
           w == [i EXCEPT !.status = s, !.expires = 0, !.effects = staged]
<1>1. staged \in Seq(Effects) /\ Len(staged) <= MaxEffects /\ i \in Row
  BY RowFields DEF RowsInv, RowsAreInOrder
<1>2. i.status = "active" /\ i.effects = <<>>
  BY DEF MayFinish, RowsInv, EffectsOnce, Committed
<1>3. w \in Row /\ w.status = s /\ w.effects = staged /\ w.version = i.version
  <2> HIDE DEF i, staged
  <2> QED
    BY <1>1 DEF Row, Statuses
<1>4. rows' = [rows EXCEPT ![r] = w]
  BY DEF FinishScriptEvent
<1> HIDE DEF w
<1>5. rows' \in [Runs -> Row] /\ rows'[r] = w
      /\ \A q \in Runs \ {r} : rows'[q] = rows[q]
  BY <1>3, <1>4 DEF TypeOK
<1>6. Inserted' = Inserted /\ Committed' = Committed \cup {r}
  BY <1>2, <1>3, <1>5 DEF Inserted, Committed
<1>7. ASSUME NEW e \in Effects
      PROVE  /\ Count(staged, e) \in Nat
             /\ Cardinality(Recorded(e)) \in Nat
             /\ Cardinality(Recorded(e)') = Cardinality(Recorded(e)) + Count(staged, e)
  <2>1. Recorded(e)' = Recorded(e) \cup Numbered(r, staged, e)
    <3>1. DOMAIN staged \subseteq 1 .. MaxEffects
      BY <1>1, ConstantsAssumption
    <3> QED
      BY <3>1, <1>2, <1>3, <1>5 DEF Recorded, Numbered
  <2>2. Recorded(e) \cap Numbered(r, staged, e) = {}
    BY <1>2 DEF Recorded, Numbered
  <2>3. IsFiniteSet(Recorded(e)) /\ Cardinality(Recorded(e)) \in Nat
    BY RecordedIsFinite
  <2>4. /\ IsFiniteSet(Numbered(r, staged, e)) /\ Count(staged, e) \in Nat
        /\ Cardinality(Numbered(r, staged, e)) = Count(staged, e)
    BY <1>1, NumberedAreCounted
  <2>5. Cardinality({}) = 0
    BY FS_EmptySet
  <2>6. Cardinality(Recorded(e) \cup Numbered(r, staged, e))
          = Cardinality(Recorded(e)) + Cardinality(Numbered(r, staged, e)) - 0
    BY <2>2, <2>3, <2>4, <2>5, FS_Union
  <2> QED
    BY <2>1, <2>3, <2>4, <2>6
<1>8. /\ yen' = yen - Count(staged, "spend")
      /\ progress' = progress + Count(staged, "increment")
      /\ Count(staged, "spend") <= yen
  BY DEF FinishScriptEvent, MayFinish
<1>9. yen \in Nat /\ progress \in Nat /\ revision \in Nat /\ elsewhere \in Nat
  BY DEF TypeOK
<1>10. "spend" \in Effects /\ "increment" \in Effects
  BY DEF Effects
<1>11. revision' \in Nat
  BY <1>9 DEF FinishScriptEvent, RevisionAfter
<1>12. yen' \in Nat /\ progress' \in Nat
  BY <1>7, <1>8, <1>9, <1>10
<1>13. EffectsOnce'
  <2>1. \A q \in Runs \ Committed' : rows'[q].effects = <<>>
    BY <1>5, <1>6 DEF RowsInv, EffectsOnce
  <2>2. progress' = Cardinality(Recorded("increment")')
    BY <1>7, <1>8, <1>9, <1>10 DEF RowsInv, EffectsOnce
  <2>3. yen' + elsewhere' + Cardinality(Recorded("spend")') = InitYen
    BY <1>7, <1>8, <1>9, <1>10 DEF RowsInv, EffectsOnce
  <2> QED
    BY <2>1, <2>2, <2>3, <1>12 DEF EffectsOnce
<1>14. \A q \in Runs : rows'[q].status # "active"
  BY <1>2, <1>3, <1>5 DEF RowsInv, RowsAreInOrder
<1>15. StoryIsFresh'
  BY <1>14 DEF StoryIsFresh
<1>16. RowsAreInOrder'
  <2>1. \A q \in Runs : rows'[q].version = rows[q].version
    BY <1>3, <1>5
  <2> QED
    BY <2>1, <1>6, <1>14 DEF RowsInv, RowsAreInOrder, NumberOfRuns, Inserted
<1> QED
  BY <1>5, <1>6, <1>11, <1>12, <1>13, <1>15, <1>16 DEF RowsInv

LEMMA SpendKeepsRows ==
  ASSUME TypeOK, RowsInv, SpendElsewhere
  PROVE  TypeOK' /\ RowsInv' /\ Inserted' = Inserted
<1>1. TypeOK'
  BY DEF SpendElsewhere, TypeOK
<1>2. Inserted' = Inserted /\ Committed' = Committed
  BY DEF SpendElsewhere, Inserted, Committed
<1>3. \A e : Recorded(e)' = Recorded(e)
  BY DEF SpendElsewhere, Recorded
<1>4. EffectsOnce'
  <2>1. Cardinality(Recorded("spend")) \in Nat
    BY RecordedIsFinite
  <2>2. yen' + elsewhere' = yen + elsewhere /\ yen' >= 0
    BY DEF SpendElsewhere, TypeOK
  <2>3. yen' \in Nat /\ elsewhere' \in Nat /\ yen \in Nat /\ elsewhere \in Nat
    BY <1>1 DEF TypeOK
  <2>4. yen' + elsewhere' + Cardinality(Recorded("spend")') = InitYen
    BY <1>3, <2>1, <2>2, <2>3 DEF RowsInv, EffectsOnce
  <2>5. \A r \in Runs \ Committed' : rows'[r].effects = <<>>
    BY <1>2 DEF SpendElsewhere, RowsInv, EffectsOnce
  <2>6. progress' = Cardinality(Recorded("increment")')
    BY <1>3 DEF SpendElsewhere, RowsInv, EffectsOnce
  <2> QED
    BY <2>2, <2>4, <2>5, <2>6 DEF EffectsOnce
<1>5. StoryIsFresh' /\ RowsAreInOrder'
  BY <1>2 DEF SpendElsewhere, RowsInv, StoryIsFresh, RowsAreInOrder, NumberOfRuns
<1> QED
  BY <1>1, <1>2, <1>4, <1>5 DEF RowsInv


-----------------------------------------------------------------------------
(* Whose run it is *)

OwnInv == SessionIsKnown /\ CallsAreInOrder /\ RunsAreOwn /\ SessionsAreKept

LEMMA RegisterIInv ==
  ASSUME TypeOK, RowsInv, OwnInv, NEW c \in Conns, Register(c)
  PROVE  TypeOK' /\ RowsInv' /\ OwnInv'
<1>1. /\ conn[c] = "new" /\ conn' = [conn EXCEPT ![c] = "in"]
      /\ UNCHANGED <<now, scriptRun, work, rows, yen, progress, revision, active,
                     session, elsewhere, missed, crashes>>
  BY DEF Register, db
<1>2. TypeOK'
  BY <1>1 DEF TypeOK
<1>3. RowsInv' /\ Inserted' = Inserted
  BY <1>1, RowsUnchanged, StagedIsBounded
<1>4. CallsAreInOrder'
  BY <1>1, <1>3 DEF TypeOK, OwnInv, CallsAreInOrder
<1>5. SessionIsKnown' /\ RunsAreOwn' /\ SessionsAreKept'
  BY <1>1 DEF OwnInv, SessionIsKnown, RunsAreOwn, SessionsAreKept
<1> QED
  BY <1>2, <1>3, <1>4, <1>5 DEF OwnInv

LEMMA UnregisterIInv ==
  ASSUME TypeOK, RowsInv, OwnInv, NEW c \in Conns, Unregister(c)
  PROVE  TypeOK' /\ RowsInv' /\ OwnInv'
<1> DEFINE t == <<c, "leave">>
           w == [Idle EXCEPT !.at = "cancel", !.call = "cancel"]
<1>1. w \in Work /\ w.at = "cancel" /\ w.call = "cancel" /\ w.run = NoRun
  BY DEF Idle, Work
<1>2. /\ t \in Threads /\ t[1] = c /\ t[2] = "leave"
      /\ \A d \in Conns : t # <<d, "read">>
      /\ \A d \in Conns \ {c} : t # <<d, "leave">>
  BY ThreadFacts
<1>3. /\ conn[c] = "in" /\ conn' = [conn EXCEPT ![c] = "out"]
      /\ work' = [work EXCEPT ![t] = w]
      /\ UNCHANGED <<now, scriptRun, rows, yen, progress, revision, active,
                     session, elsewhere, missed, crashes>>
  BY DEF Unregister, db
<1>4. work[t].at = "idle"
  BY <1>3 DEF OwnInv, CallsAreInOrder
<1> HIDE DEF t, w
<1>5. work' \in [Threads -> Work] /\ work'[t] = w
      /\ \A u \in Threads \ {t} : work'[u] = work[u]
  BY <1>1, <1>2, <1>3 DEF TypeOK
<1>6. TypeOK'
  BY <1>3, <1>5 DEF TypeOK
<1>7. RowsInv' /\ Inserted' = Inserted
  BY <1>3, RowsUnchanged, StagedIsBounded
<1>8. work[t].run = NoRun
  BY <1>2, <1>4 DEF OwnInv, CallsAreInOrder
<1>9. CallsAreInOrder'
  <2>1. \A d \in Conns : conn'[d] # "out" => d # c /\ conn[d] # "out"
    BY <1>3 DEF TypeOK
  <2> QED
    BY <2>1, <1>1, <1>2, <1>3, <1>5, <1>7, ThreadFacts DEF OwnInv, CallsAreInOrder
<1>10. SessionIsKnown'
  BY <1>1, <1>2, <1>3, <1>5, <1>8, RunsFacts DEF OwnInv, SessionIsKnown
<1>11. RunsAreOwn'
  BY <1>1, <1>2, <1>3, <1>5, <1>8 DEF OwnInv, RunsAreOwn
<1>12. SessionsAreKept'
  BY <1>1, <1>2, <1>3, <1>5, <1>8, ThreadFacts, RunsFacts
  DEF TypeOK, OwnInv, SessionsAreKept
<1> QED
  BY <1>6, <1>7, <1>9, <1>10, <1>11, <1>12 DEF OwnInv

LEMMA StartRequestIInv ==
  ASSUME TypeOK, RowsInv, OwnInv, NEW c \in Conns, StartRequest(c)
  PROVE  TypeOK' /\ RowsInv' /\ OwnInv'
<1> DEFINE t == <<c, "read">>
           w == [Idle EXCEPT !.at = "resolve", !.call = "start"]
<1>1. w \in Work /\ w.at = "resolve" /\ w.call = "start" /\ w.run = NoRun
  BY DEF Idle, Work
<1>2. t \in Threads /\ t[1] = c /\ t[2] = "read" /\ t # <<c, "leave">>
  BY ThreadFacts
<1>3. /\ work[t].at = "idle" /\ scriptRun[c] = NoRun
      /\ work' = [work EXCEPT ![t] = w]
      /\ UNCHANGED <<now, conn, scriptRun, rows, yen, progress, revision, active,
                     session, elsewhere, missed, crashes>>
  BY DEF StartRequest, db
<1> HIDE DEF t, w
<1>4. work' \in [Threads -> Work] /\ work'[t] = w
      /\ \A u \in Threads \ {t} : work'[u] = work[u]
  BY <1>1, <1>2, <1>3 DEF TypeOK
<1>5. TypeOK'
  BY <1>3, <1>4 DEF TypeOK
<1>6. RowsInv' /\ Inserted' = Inserted
  BY <1>3, RowsUnchanged, StagedIsBounded
<1>7. work[t].run = NoRun
  BY <1>2, <1>3 DEF OwnInv, CallsAreInOrder
<1>8. CallsAreInOrder'
  BY <1>1, <1>2, <1>3, <1>4, <1>6, ThreadFacts DEF OwnInv, CallsAreInOrder
<1>9. SessionIsKnown'
  BY <1>1, <1>2, <1>3, <1>4, <1>7, RunsFacts DEF OwnInv, SessionIsKnown
<1>10. RunsAreOwn'
  BY <1>1, <1>2, <1>3, <1>4, <1>7 DEF OwnInv, RunsAreOwn
<1>11. SessionsAreKept'
  BY <1>1, <1>2, <1>3, <1>4, <1>7, ThreadFacts DEF OwnInv, SessionsAreKept
<1> QED
  BY <1>5, <1>6, <1>8, <1>9, <1>10, <1>11 DEF OwnInv

\* Calls that return.
LEMMA ReturnFacts ==
  ASSUME TypeOK, NEW t \in Threads, Return(t)
  PROVE  /\ work' \in [Threads -> Work]
         /\ work'[t].at = IF t[2] = "leave" THEN "done" ELSE "idle"
         /\ work'[t].call = "none" /\ work'[t].run = NoRun
         /\ \A u \in Threads \ {t} : work'[u] = work[u]
         /\ scriptRun' \in [Conns -> Runs \cup {NoRun}]
         /\ work[t].call \notin {"advance", "stop"} => scriptRun' = scriptRun
         /\ work[t].call \in {"advance", "stop"} =>
              /\ scriptRun'[t[1]] = NoRun
              /\ \A c \in Conns \ {t[1]} : scriptRun'[c] = scriptRun[c]
BY IdleFacts, ThreadFacts DEF Return, TypeOK

LEMMA CloseFacts ==
  ASSUME TypeOK, RowsInv, NEW r \in Runs, Close(r)
  PROVE  /\ active' = active \ {r}
         /\ session' \in [Runs -> Session] /\ ~session'[r].open
         /\ \A q \in Runs \ {r} : session'[q] = session[q]
         /\ \A q \in Runs : Len(session'[q].staged) <= MaxEffects
<1>1. active' = active \ {r} /\ session' = [session EXCEPT ![r] = NoSession]
  BY DEF Close, Removed
<1>2. session' \in [Runs -> Session] /\ session'[r] = NoSession
      /\ \A q \in Runs \ {r} : session'[q] = session[q]
  BY <1>1, NoSessionFacts DEF TypeOK
<1>3. 0 <= MaxEffects
  BY ConstantsAssumption
<1> QED
  BY <1>1, <1>2, <1>3, NoSessionFacts DEF RowsInv, RowsAreInOrder

LEMMA GivesUp ==
  ASSUME TypeOK, OwnInv, NEW t \in Threads, work[t].at \in {"resolve", "launch"},
         Return(t), UNCHANGED <<conn, active, session>>, Inserted' = Inserted
  PROVE  OwnInv'
<1>1. work[t].call = "start" /\ scriptRun' = scriptRun
  BY ReturnFacts DEF OwnInv, CallsAreInOrder
<1>2. \A q \in active : work[t].run # q
  BY RunsFacts DEF TypeOK, OwnInv, CallsAreInOrder, SessionsAreKept
<1>3. CallsAreInOrder'
  BY <1>1, ReturnFacts, ThreadFacts DEF OwnInv, CallsAreInOrder
<1>4. SessionIsKnown'
  BY <1>1, <1>2, ReturnFacts DEF OwnInv, SessionIsKnown, SessionsAreKept
<1>5. RunsAreOwn'
  BY <1>1, ReturnFacts DEF OwnInv, RunsAreOwn
<1>6. SessionsAreKept'
  <2>1. \A q \in Runs : q \in active' <=> session'[q].open
    BY DEF OwnInv, SessionsAreKept
  <2>2. \A u \in Threads : work'[u].at = "launch" => work'[u].run \notin active'
    BY ReturnFacts DEF OwnInv, SessionsAreKept
  <2>3. \A c \in Conns : scriptRun'[c] \in active' => session'[scriptRun'[c]].visible
    BY <1>1 DEF OwnInv, SessionsAreKept
  <2>4. ASSUME NEW u \in Threads,
               work'[u].call \in {"advance", "stop"}, work'[u].run # NoRun
        PROVE  /\ scriptRun'[u[1]] \in {work'[u].run, NoRun}
               /\ work'[u].run \in active' =>
                    /\ session'[work'[u].run].visible
                    /\ \/ scriptRun'[u[1]] = work'[u].run
                       \/ work'[<<u[1], "leave">>].run = work'[u].run
    <3>1. work'[u] = work[u] /\ <<u[1], "leave">> \in Threads
      BY <2>4, ReturnFacts, ThreadFacts
    <3>2. work[u].run \in active /\ work[<<u[1], "leave">>].run = work[u].run =>
            work'[<<u[1], "leave">>].run = work[u].run
      BY <1>2, <3>1, ReturnFacts
    <3> QED
      BY <1>1, <2>4, <3>1, <3>2 DEF OwnInv, SessionsAreKept
  <2> QED
    BY <2>1, <2>2, <2>3, <2>4 DEF SessionsAreKept
<1> QED
  BY <1>3, <1>4, <1>5, <1>6 DEF OwnInv


\* A call closes its run, and keeps it no longer; nor does the connection.
LEMMA LosesRun ==
  ASSUME TypeOK, RowsInv, OwnInv, NEW t \in Threads, NEW r \in Runs,
         work[t].run = r, Close(r), CallsAreInOrder',
         work'[t].run = NoRun, work'[t].call \notin {"advance", "stop"},
         work'[t].at # "launch",
         \A u \in Threads \ {t} : work'[u] = work[u],
         \A c \in Conns :
           \/ scriptRun'[c] = scriptRun[c]
           \/ scriptRun'[c] = NoRun /\ scriptRun[c] \in {r, NoRun}
  PROVE  OwnInv'
<1>1. /\ active' = active \ {r} /\ ~session'[r].open
      /\ \A q \in Runs \ {r} : session'[q] = session[q]
  BY CloseFacts
<1>2. SessionIsKnown'
  <2> SUFFICES ASSUME NEW q \in Runs, q \in active' \/ session'[q].open
               PROVE  \/ \E c \in Conns : scriptRun'[c] = q
                      \/ \E u \in Threads : work'[u].run = q
    BY DEF SessionIsKnown
  <2>1. q # r /\ q # NoRun /\ (q \in active \/ session[q].open)
    BY <1>1, RunsFacts
  <2>2. CASE \E c \in Conns : scriptRun[c] = q
    BY <2>1, <2>2
  <2>3. CASE \E u \in Threads : work[u].run = q
    BY <2>1, <2>3
  <2> QED
    BY <2>1, <2>2, <2>3 DEF OwnInv, SessionIsKnown
<1>3. RunsAreOwn'
  BY DEF OwnInv, RunsAreOwn
<1>4. SessionsAreKept'
  <2>1. \A q \in Runs : q \in active' <=> session'[q].open
    BY <1>1 DEF OwnInv, SessionsAreKept
  <2>2. \A u \in Threads : work'[u].at = "launch" => work'[u].run \notin active'
    BY <1>1 DEF OwnInv, SessionsAreKept
  <2>3. \A c \in Conns : scriptRun'[c] \in active' => session'[scriptRun'[c]].visible
    BY <1>1, RunsFacts DEF TypeOK, OwnInv, SessionsAreKept
  <2>4. ASSUME NEW u \in Threads,
               work'[u].call \in {"advance", "stop"}, work'[u].run # NoRun
        PROVE  /\ scriptRun'[u[1]] \in {work'[u].run, NoRun}
               /\ work'[u].run \in active' =>
                    /\ session'[work'[u].run].visible
                    /\ \/ scriptRun'[u[1]] = work'[u].run
                       \/ work'[<<u[1], "leave">>].run = work'[u].run
    <3>1. u # t /\ work'[u] = work[u]
      BY <2>4
    <3>2. u[1] \in Conns /\ <<u[1], "leave">> \in Threads
      BY ThreadFacts
    <3>3. scriptRun[u[1]] \in {work[u].run, NoRun}
      BY <2>4, <3>1 DEF OwnInv, SessionsAreKept
    <3>4. scriptRun'[u[1]] \in {work'[u].run, NoRun}
      BY <3>1, <3>2, <3>3
    <3>5. ASSUME work[u].run \in active'
          PROVE  /\ session'[work[u].run].visible
                 /\ \/ scriptRun'[u[1]] = work[u].run
                    \/ work'[<<u[1], "leave">>].run = work[u].run
      <4>1. work[u].run # r /\ work[u].run \in active /\ work[u].run \in Runs
        BY <3>5, <1>1 DEF TypeOK
      <4>2. session'[work[u].run].visible
        BY <4>1, <3>1, <2>4, <1>1 DEF OwnInv, SessionsAreKept
      <4>3. \/ scriptRun[u[1]] = work[u].run
            \/ work[<<u[1], "leave">>].run = work[u].run
        BY <4>1, <3>1, <2>4 DEF OwnInv, SessionsAreKept
      <4>4. scriptRun[u[1]] = work[u].run => scriptRun'[u[1]] = work[u].run
        BY <4>1, <3>1, <3>2, <2>4
      <4>5. work[<<u[1], "leave">>].run = work[u].run =>
              work'[<<u[1], "leave">>].run = work[u].run
        BY <4>1, <3>2
      <4> QED
        BY <4>2, <4>3, <4>4, <4>5
    <3> QED
      BY <3>1, <3>4, <3>5
  <2> QED
    BY <2>1, <2>2, <2>3, <2>4 DEF SessionsAreKept
<1> QED
  BY <1>2, <1>3, <1>4 DEF OwnInv

LEMMA EndsCall ==
  ASSUME TypeOK, RowsInv, OwnInv, NEW t \in Threads,
         work[t].at \in {"renew", "pump"},
         Close(work[t].run), Return(t), conn' = conn, Inserted' = Inserted
  PROVE  OwnInv'
<1> DEFINE r == work[t].run
<1>1. r \in Runs
  BY WorkFields DEF OwnInv, CallsAreInOrder
<1> HIDE DEF r
<1>2. \A c \in Conns :
        \/ scriptRun'[c] = scriptRun[c]
        \/ scriptRun'[c] = NoRun /\ scriptRun[c] \in {r, NoRun}
  <2>1. CASE work[t].call \in {"advance", "stop"}
    <3>1. scriptRun[t[1]] \in {r, NoRun}
      BY <1>1, <2>1, RunsFacts DEF OwnInv, SessionsAreKept, r
    <3> QED
      BY <2>1, <3>1, ReturnFacts
  <2>2. CASE work[t].call \notin {"advance", "stop"}
    BY <2>2, ReturnFacts
  <2> QED
    BY <2>1, <2>2
<1>3. CallsAreInOrder'
  BY <1>2, ReturnFacts, ThreadFacts DEF OwnInv, CallsAreInOrder
<1>4. /\ work'[t].run = NoRun /\ work'[t].call \notin {"advance", "stop"}
      /\ work'[t].at # "launch"
      /\ \A u \in Threads \ {t} : work'[u] = work[u]
  BY ReturnFacts
<1>5. work[t].run = r /\ Close(r)
  BY DEF r
<1> QED
  BY <1>1, <1>2, <1>3, <1>4, <1>5, LosesRun

-----------------------------------------------------------------------------
(* The handlers, step by step *)

LEMMA AdvanceRequestIInv ==
  ASSUME TypeOK, RowsInv, OwnInv, NEW c \in Conns, NEW call \in {"advance", "stop"},
         AdvanceRequest(c, call)
  PROVE  TypeOK' /\ RowsInv' /\ OwnInv'
<1> DEFINE t == <<c, "read">>
           r == scriptRun[c]
           w == [Idle EXCEPT !.at = "renew", !.call = call, !.run = r]
<1>1. t \in Threads /\ t[1] = c /\ t[2] = "read"
      /\ \A d \in Conns : t # <<d, "leave">>
  BY ThreadFacts
<1>2. r \in Runs
  BY DEF AdvanceRequest, TypeOK
<1>3. w \in Work /\ w.at = "renew" /\ w.call = call /\ w.run = r
  BY <1>2 DEF Idle, Work
<1>4. /\ work[t].at = "idle" /\ conn[c] # "new"
      /\ \/ r \in active /\ work' = [work EXCEPT ![t] = w] /\ scriptRun' = scriptRun
         \/ /\ r \notin active /\ work' = work
            /\ scriptRun' = [scriptRun EXCEPT ![c] = NoRun]
      /\ UNCHANGED <<now, conn, rows, yen, progress, revision, active,
                     session, elsewhere, missed, crashes>>
  BY DEF AdvanceRequest, db
<1>5. r = scriptRun[c]
  OBVIOUS
<1> HIDE DEF t, w, r
<1>6. RowsInv' /\ Inserted' = Inserted
  BY <1>4, RowsUnchanged, StagedIsBounded
<1>7. work[t].run = NoRun /\ work[t].call = "none"
  BY <1>1, <1>4 DEF OwnInv, CallsAreInOrder
<1>8. CASE r \in active
  <2>1. /\ work' \in [Threads -> Work] /\ work'[t] = w
        /\ \A u \in Threads \ {t} : work'[u] = work[u]
        /\ scriptRun' = scriptRun
    BY <1>8, <1>1, <1>3, <1>4 DEF TypeOK
  <2>2. TypeOK'
    BY <1>4, <2>1 DEF TypeOK
  <2>3. CallsAreInOrder'
    <3>1. r \in Inserted /\ r # NoRun
      BY <1>2, <1>5, RunsFacts DEF OwnInv, CallsAreInOrder
    <3>2. w.call \in {"advance", "stop"}
      BY <1>3
    <3>3. \A d \in Conns : work'[<<d, "leave">>] = work[<<d, "leave">>]
      BY <1>1, <2>1, ThreadFacts
    <3>4. \A d \in Conns : work'[<<d, "read">>].call = "start" =>
            work[<<d, "read">>].call = "start"
      BY <1>3, <2>1, <3>2, ThreadFacts
    <3> QED
      BY <1>1, <1>3, <1>4, <1>6, <2>1, <3>1, <3>2, <3>3, <3>4
      DEF OwnInv, CallsAreInOrder
  <2>4. SessionIsKnown'
    BY <1>4, <1>7, <2>1, RunsFacts DEF OwnInv, SessionIsKnown
  <2>5. RunsAreOwn'
    BY <1>1, <1>2, <1>3, <1>5, <2>1, RunsFacts DEF OwnInv, RunsAreOwn
  <2>6. SessionsAreKept'
    BY <1>1, <1>3, <1>4, <1>5, <1>8, <2>1, ThreadFacts DEF OwnInv, SessionsAreKept
  <2> QED
    BY <1>6, <2>2, <2>3, <2>4, <2>5, <2>6 DEF OwnInv
<1>9. CASE r \notin active
  <2>1. /\ scriptRun' \in [Conns -> Runs \cup {NoRun}] /\ scriptRun'[c] = NoRun
        /\ \A d \in Conns \ {c} : scriptRun'[d] = scriptRun[d]
        /\ work' = work
    BY <1>4, <1>9 DEF TypeOK
  <2>2. TypeOK'
    BY <1>4, <2>1 DEF TypeOK
  <2>3. CallsAreInOrder'
    BY <1>4, <1>6, <2>1 DEF OwnInv, CallsAreInOrder
  <2>4. SessionIsKnown'
    BY <1>4, <1>5, <1>9, <2>1 DEF OwnInv, SessionIsKnown, SessionsAreKept
  <2>5. RunsAreOwn'
    BY <2>1 DEF OwnInv, RunsAreOwn
  <2>6. ASSUME NEW u \in Threads, work[u].call \in {"advance", "stop"}
        PROVE  u[1] \in Conns \ {c}
    BY <2>6, <1>1, <1>7, ThreadFacts DEF OwnInv, CallsAreInOrder, t
  <2>7. SessionsAreKept'
    BY <1>4, <2>1, <2>6, RunsFacts DEF TypeOK, OwnInv, SessionsAreKept
  <2> QED
    BY <1>6, <2>2, <2>3, <2>4, <2>5, <2>7 DEF OwnInv
<1> QED
  BY <1>8, <1>9

LEMMA CancelClientScriptIInv ==
  ASSUME TypeOK, RowsInv, OwnInv, NEW c \in Conns, CancelClientScript(c)
  PROVE  TypeOK' /\ RowsInv' /\ OwnInv'
<1> DEFINE t == <<c, "leave">>
           r == scriptRun[c]
           i == work[t]
           w == IF r \in active THEN [i EXCEPT !.at = "renew", !.run = r] ELSE Done
<1>1. /\ t \in Threads /\ t[1] = c /\ t[2] = "leave"
      /\ \A d \in Conns : t # <<d, "read">>
      /\ \A d \in Conns \ {c} : t # <<d, "leave">>
  BY ThreadFacts
<1>2. i.at = "cancel" /\ i.call = "cancel" /\ i.run = NoRun /\ i \in Work
  BY <1>1, WorkFields DEF CancelClientScript, OwnInv, CallsAreInOrder
<1>3. /\ w \in Work /\ w.call \in {"none", "cancel"}
      /\ r \in active => w.at = "renew" /\ w.call = "cancel" /\ w.run = r
      /\ r \notin active => w.at = "done" /\ w.call = "none" /\ w.run = NoRun
  <2>1. CASE r \in active
    <3>1. r \in Runs
      BY <2>1 DEF TypeOK
    <3> HIDE DEF i, r
    <3> QED
      BY <2>1, <3>1, <1>2 DEF Work
  <2>2. CASE r \notin active
    BY <2>2, IdleFacts
  <2> QED
    BY <2>1, <2>2
<1>4. /\ work' = [work EXCEPT ![t] = w]
      /\ scriptRun' = [scriptRun EXCEPT ![c] = NoRun]
      /\ UNCHANGED <<now, conn, rows, yen, progress, revision, active,
                     session, elsewhere, crashes>>
      /\ missed' \in {missed, missed \cup {c}}
  BY DEF CancelClientScript, db
<1>5. r = scriptRun[c] /\ work[t] = i
  OBVIOUS
<1> HIDE DEF t, r, i, w
<1>6. /\ work' \in [Threads -> Work] /\ work'[t] = w
      /\ \A u \in Threads \ {t} : work'[u] = work[u]
      /\ scriptRun' \in [Conns -> Runs \cup {NoRun}] /\ scriptRun'[c] = NoRun
      /\ \A d \in Conns \ {c} : scriptRun'[d] = scriptRun[d]
  BY <1>1, <1>3, <1>4 DEF TypeOK
<1>7. TypeOK'
  BY <1>4, <1>6 DEF TypeOK
<1>8. RowsInv' /\ Inserted' = Inserted
  BY <1>4, RowsUnchanged, StagedIsBounded
<1>9. CallsAreInOrder'
  <2>1. r \in active => r \in Inserted /\ r # NoRun
    BY <1>5, RunsFacts DEF TypeOK, OwnInv, CallsAreInOrder
  <2>2. \A d \in Conns : work'[<<d, "read">>] = work[<<d, "read">>]
    BY <1>1, <1>6, ThreadFacts
  <2>3. \A d \in Conns : conn'[d] # "out" => d # c
    BY <1>1, <1>2, <1>4, <1>5 DEF OwnInv, CallsAreInOrder, t
  <2>4. \A d \in Conns \ {c} : work'[<<d, "leave">>] = work[<<d, "leave">>]
    BY <1>1, <1>6, ThreadFacts
  <2> QED
    BY <1>1, <1>3, <1>4, <1>6, <1>8, <2>1, <2>2, <2>3, <2>4
    DEF OwnInv, CallsAreInOrder
<1>10. SessionIsKnown'
  <2> SUFFICES ASSUME NEW q \in Runs, q \in active' \/ session'[q].open
               PROVE  \/ \E d \in Conns : scriptRun'[d] = q
                      \/ \E u \in Threads : work'[u].run = q
    BY DEF SessionIsKnown
  <2>1. q \in active /\ q # NoRun
    BY <1>4, RunsFacts DEF OwnInv, SessionsAreKept
  <2>2. CASE q = r
    BY <2>1, <2>2, <1>1, <1>3, <1>6
  <2>3. CASE q # r /\ \E d \in Conns : scriptRun[d] = q
    BY <2>3, <1>5, <1>6
  <2>4. CASE \E u \in Threads : work[u].run = q
    BY <2>1, <2>4, <1>2, <1>5, <1>6
  <2> QED
    BY <2>1, <2>2, <2>3, <2>4 DEF OwnInv, SessionIsKnown
<1>11. RunsAreOwn'
  BY <1>1, <1>3, <1>5, <1>6 DEF OwnInv, RunsAreOwn
<1>12. SessionsAreKept'
  <2>1. \A u \in Threads : work'[u].at = "launch" => work'[u].run \notin active'
    BY <1>3, <1>4, <1>6 DEF OwnInv, SessionsAreKept
  <2>2. \A d \in Conns : scriptRun'[d] \in active' => session'[scriptRun'[d]].visible
    BY <1>4, <1>6, RunsFacts DEF TypeOK, OwnInv, SessionsAreKept
  <2>3. ASSUME NEW u \in Threads,
               work'[u].call \in {"advance", "stop"}, work'[u].run # NoRun
        PROVE  /\ scriptRun'[u[1]] \in {work'[u].run, NoRun}
               /\ work'[u].run \in active' =>
                    /\ session'[work'[u].run].visible
                    /\ \/ scriptRun'[u[1]] = work'[u].run
                       \/ work'[<<u[1], "leave">>].run = work'[u].run
    <3>1. u # t /\ work'[u] = work[u] /\ u[1] \in Conns
      BY <2>3, <1>3, <1>6, ThreadFacts
    <3>2. CASE u[1] # c
      <4>1. work'[<<u[1], "leave">>] = work[<<u[1], "leave">>]
        BY <3>1, <3>2, <1>1, <1>6, ThreadFacts
      <4> QED
        BY <2>3, <3>1, <3>2, <4>1, <1>4, <1>6 DEF OwnInv, SessionsAreKept
    <3>3. CASE u[1] = c
      <4>1. scriptRun'[u[1]] = NoRun
        BY <3>3, <1>6
      <4>2. ASSUME work[u].run \in active
            PROVE  session[work[u].run].visible /\ work'[t].run = work[u].run
        <5>1. scriptRun[c] = work[u].run \/ work[t].run = work[u].run
          BY <4>2, <2>3, <3>1, <3>3 DEF OwnInv, SessionsAreKept, t
        <5>2. work[u].run = r
          BY <5>1, <2>3, <3>1, <1>2, <1>5
        <5> QED
          BY <4>2, <5>2, <2>3, <3>1, <1>3, <1>6 DEF OwnInv, SessionsAreKept
      <4> QED
        BY <4>1, <4>2, <3>1, <3>3, <1>4 DEF t
    <3> QED
      BY <3>2, <3>3
  <2> QED
    BY <2>1, <2>2, <2>3, <1>4 DEF OwnInv, SessionsAreKept
<1> QED
  BY <1>7, <1>8, <1>9, <1>10, <1>11, <1>12 DEF OwnInv

LEMMA StartIInv ==
  ASSUME TypeOK, RowsInv, OwnInv, NEW t \in Threads,
         NEW published \in SUBSET Versions, NEW v \in Versions,
         StartPublishedScriptEvent(t, published, v)
  PROVE  TypeOK' /\ RowsInv' /\ OwnInv'
<1> DEFINE r == NumberOfRuns + 1
           i == work[t]
           w == [i EXCEPT !.at = "launch", !.run = r, !.snapshot = yen]
<1>1. /\ rows' \in [Runs -> Row] /\ RowsInv' /\ r \in Runs /\ r \notin Inserted
      /\ Inserted' = Inserted \cup {r}
  BY StartKeepsRows
<1>2. i \in Work /\ i.at = "resolve" /\ i.run = NoRun /\ i.call = "start"
  BY WorkFields DEF StartPublishedScriptEvent, OwnInv, CallsAreInOrder
<1>3. work' = [work EXCEPT ![t] = w]
      /\ UNCHANGED <<now, conn, scriptRun, yen, progress, revision, active, session,
                     elsewhere, missed, crashes>>
  BY DEF StartPublishedScriptEvent
<1>4. yen \in Nat
  BY DEF TypeOK
<1>5. work[t] = i
  OBVIOUS
<1> HIDE DEF r, i
<1>6. w \in Work /\ w.at = "launch" /\ w.run = r /\ w.call = "start"
  BY <1>1, <1>2, <1>4 DEF Work
<1> HIDE DEF w
<1>7. /\ work' \in [Threads -> Work] /\ work'[t] = w
      /\ \A u \in Threads \ {t} : work'[u] = work[u]
  BY <1>3, <1>6 DEF TypeOK
<1>8. TypeOK'
  BY <1>1, <1>3, <1>7 DEF TypeOK
<1>9. r # NoRun
  BY <1>1, RunsFacts
<1>10. /\ t[2] = "read"
       /\ \A u \in Threads : work[u].run # r
       /\ \A c \in Conns : scriptRun[c] # r
  <2>1. t[2] = "read"
    BY <1>2, <1>5, ThreadFacts DEF OwnInv, CallsAreInOrder
  <2>2. \A u \in Threads : work[u].run # NoRun => work[u].run \in Inserted
    BY DEF OwnInv, CallsAreInOrder
  <2>3. \A c \in Conns : scriptRun[c] # NoRun => scriptRun[c] \in Inserted
    BY DEF OwnInv, CallsAreInOrder
  <2> QED
    BY <2>1, <2>2, <2>3, <1>1, <1>9
<1>11. r \notin active
  BY <1>1, <1>10 DEF OwnInv, SessionIsKnown
<1>12. CallsAreInOrder'
  <2>1. \A c \in Conns : <<c, "leave">> # t
    BY <1>10, ThreadFacts
  <2>2. \A c \in Conns : /\ work'[<<c, "leave">>] = work[<<c, "leave">>]
                        /\ work'[<<c, "read">>].call = "start" =>
                             work[<<c, "read">>].call = "start"
    BY <2>1, <1>2, <1>5, <1>7, ThreadFacts
  <2> QED
    BY <2>2, <1>1, <1>3, <1>6, <1>7, <1>9, <1>10 DEF OwnInv, CallsAreInOrder
<1>13. SessionIsKnown'
  BY <1>2, <1>3, <1>5, <1>7, RunsFacts DEF OwnInv, SessionIsKnown
<1>14. RunsAreOwn'
  <2>1. \A u \in Threads : u # t => work'[u] = work[u] /\ work[u].run # w.run
    BY <1>6, <1>7, <1>10
  <2>2. \A c \in Conns : scriptRun'[c] = scriptRun[c] /\ scriptRun[c] # w.run
    BY <1>3, <1>6, <1>10
  <2> QED
    BY <2>1, <2>2, <1>7 DEF OwnInv, RunsAreOwn
<1>15. SessionsAreKept'
  <2>1. \A u \in Threads : <<u[1], "leave">> \in Threads \ {t}
    BY <1>10, ThreadFacts
  <2> QED
    BY <2>1, <1>3, <1>6, <1>7, <1>11 DEF OwnInv, SessionsAreKept
<1> QED
  BY <1>1, <1>8, <1>12, <1>13, <1>14, <1>15 DEF OwnInv

LEMMA LaunchIInv ==
  ASSUME TypeOK, RowsInv, OwnInv, NEW t \in Threads, Launch(t)
  PROVE  TypeOK' /\ RowsInv' /\ OwnInv'
<1> DEFINE i == work[t]
           r == i.run
           w == [i EXCEPT !.at = "pump", !.snapshot = 0]
           z == [NoSession EXCEPT !.open = TRUE, !.yen = i.snapshot]
<1>1. i \in Work /\ i.at = "launch" /\ r \in Runs /\ r \in Inserted
      /\ i.call = "start" /\ i.snapshot \in Nat
  BY WorkFields DEF Launch, OwnInv, CallsAreInOrder
<1>2. /\ active' = active \cup {r} /\ session' = [session EXCEPT ![r] = z]
      /\ work' = [work EXCEPT ![t] = w]
      /\ UNCHANGED <<now, conn, scriptRun, rows, yen, progress, revision,
                     elsewhere, missed, crashes>>
  BY DEF Launch, db
<1>3. z \in Session /\ z.open /\ z.staged = <<>> /\ ~z.visible
  <2>1. NoSession \in Session /\ NoSession.staged = <<>> /\ ~NoSession.visible
    BY NoSessionFacts
  <2>2. ASSUME NEW s \in Session, NEW n \in Nat, s.staged = <<>>, ~s.visible
        PROVE  LET y == [s EXCEPT !.open = TRUE, !.yen = n]
               IN y \in Session /\ y.open /\ y.staged = <<>> /\ ~y.visible
    BY <2>2 DEF Session
  <2> QED
    BY <1>1, <2>1, <2>2
<1>4. work[t] = i /\ i.run = r
  OBVIOUS
<1> HIDE DEF i
<1>5. w \in Work /\ w.at = "pump" /\ w.run = r /\ w.call = "start"
  BY <1>1 DEF Work
<1> HIDE DEF w, z, r
<1>6. /\ work' \in [Threads -> Work] /\ work'[t] = w
      /\ \A u \in Threads \ {t} : work'[u] = work[u]
      /\ session' \in [Runs -> Session] /\ session'[r] = z
      /\ \A q \in Runs \ {r} : session'[q] = session[q]
  BY <1>1, <1>2, <1>3, <1>5 DEF TypeOK
<1>7. TypeOK'
  BY <1>1, <1>2, <1>6 DEF TypeOK
<1>8. RowsInv' /\ Inserted' = Inserted
  <2>1. Len(<<>>) <= MaxEffects
    BY ConstantsAssumption
  <2>2. \A q \in Runs : Len(session'[q].staged) <= MaxEffects
    BY <2>1, <1>3, <1>6 DEF RowsInv, RowsAreInOrder
  <2> QED
    BY <2>2, <1>2, RowsUnchanged
<1>9. r # NoRun /\ t[2] = "read"
  BY <1>1, <1>4, RunsFacts, ThreadFacts DEF OwnInv, CallsAreInOrder
<1>10. \A c \in Conns : scriptRun[c] # r
  BY <1>1, <1>4, <1>9 DEF OwnInv, RunsAreOwn
<1>11. \A u \in Threads \ {t} : work[u].run # r
  BY <1>1, <1>4, <1>9 DEF OwnInv, RunsAreOwn
<1>12. CallsAreInOrder'
  <2>1. \A c \in Conns :
          /\ work'[<<c, "leave">>] = work[<<c, "leave">>]
          /\ work'[<<c, "read">>].call = work[<<c, "read">>].call
    <3>1. \A c \in Conns : <<c, "leave">> \in Threads \ {t} /\ <<c, "read">> \in Threads
      BY <1>9, ThreadFacts
    <3>2. \A u \in Threads : work'[u].call = work[u].call
      BY <1>1, <1>4, <1>5, <1>6
    <3> QED
      BY <3>1, <3>2, <1>6
  <2>2. \A u \in Threads :
          LET x == work'[u]
          IN /\ x.at \in {"idle", "resolve", "cancel", "done"} <=> x.run = NoRun
             /\ x.run # NoRun => x.run \in Inserted'
             /\ x.at \in {"idle", "done"} <=> x.call = "none"
             /\ x.at \in {"resolve", "launch"} => x.call = "start"
             /\ u[2] = "read" => x.call # "cancel" /\ x.at # "cancel"
             /\ u[2] = "leave" => x.call \in {"none", "cancel"}
    BY <1>1, <1>5, <1>6, <1>8, <1>9 DEF OwnInv, CallsAreInOrder
  <2> QED
    BY <2>1, <2>2, <1>2, <1>8 DEF OwnInv, CallsAreInOrder
<1>13. SessionIsKnown'
  BY <1>2, <1>4, <1>5, <1>6 DEF OwnInv, SessionIsKnown
<1>14. RunsAreOwn'
  BY <1>2, <1>5, <1>6, <1>10, <1>11 DEF OwnInv, RunsAreOwn
<1>15. SessionsAreKept'
  <2>1. \A q \in Runs : q \in active' <=> session'[q].open
    BY <1>2, <1>3, <1>6 DEF OwnInv, SessionsAreKept
  <2>2. \A u \in Threads : work'[u].at = "launch" => work'[u].run \notin active'
    BY <1>2, <1>5, <1>6, <1>11 DEF OwnInv, SessionsAreKept
  <2>3. \A c \in Conns : scriptRun'[c] \in active' => session'[scriptRun'[c]].visible
    BY <1>2, <1>6, <1>10 DEF TypeOK, OwnInv, SessionsAreKept
  <2>4. ASSUME NEW u \in Threads,
               work'[u].call \in {"advance", "stop"}, work'[u].run # NoRun
        PROVE  /\ scriptRun'[u[1]] \in {work'[u].run, NoRun}
               /\ work'[u].run \in active' =>
                    /\ session'[work'[u].run].visible
                    /\ \/ scriptRun'[u[1]] = work'[u].run
                       \/ work'[<<u[1], "leave">>].run = work'[u].run
    <3>1. u # t /\ work'[u] = work[u] /\ work[u].run # r /\ work[u].run \in Runs
      BY <2>4, <1>5, <1>6, <1>11, WorkFields
    <3>2. work'[<<u[1], "leave">>] = work[<<u[1], "leave">>]
      BY <1>6, <1>9, ThreadFacts
    <3> QED
      BY <2>4, <3>1, <3>2, <1>2, <1>6 DEF OwnInv, SessionsAreKept
  <2> QED
    BY <2>1, <2>2, <2>3, <2>4 DEF SessionsAreKept
<1> QED
  BY <1>7, <1>8, <1>12, <1>13, <1>14, <1>15 DEF OwnInv


LEMMA StartRefusedIInv ==
  ASSUME TypeOK, RowsInv, OwnInv, NEW t \in Threads, StartRefused(t)
  PROVE  TypeOK' /\ RowsInv' /\ OwnInv'
<1>1. /\ work[t].at = "resolve" /\ Return(t)
      /\ UNCHANGED <<now, conn, rows, yen, progress, revision, active, session,
                     elsewhere, missed, crashes>>
  BY DEF StartRefused, db
<1>2. TypeOK'
  BY <1>1, ReturnFacts DEF TypeOK
<1>3. RowsInv' /\ Inserted' = Inserted
  BY <1>1, RowsUnchanged, StagedIsBounded
<1>4. OwnInv'
  BY <1>1, <1>3, GivesUp
<1> QED
  BY <1>2, <1>3, <1>4

LEMMA LaunchFailedIInv ==
  ASSUME TypeOK, RowsInv, OwnInv, NEW t \in Threads, LaunchFailed(t)
  PROVE  TypeOK' /\ RowsInv' /\ OwnInv'
<1>1. /\ work[t].at = "launch" /\ Return(t)
      /\ rows' \in {Ended(work[t].run, "failed"), rows}
      /\ UNCHANGED <<now, conn, yen, progress, revision, active, session,
                     elsewhere, missed, crashes>>
  BY DEF LaunchFailed
<1>2. work[t].run \in Runs
  BY <1>1, WorkFields DEF OwnInv, CallsAreInOrder
<1>3. rows' \in [Runs -> Row] /\ RowsInv' /\ Inserted' = Inserted
  BY <1>1, <1>2, EndedKeepsRows, StagedIsBounded
<1>4. TypeOK'
  BY <1>1, <1>3, ReturnFacts DEF TypeOK
<1>5. OwnInv'
  BY <1>1, <1>3, GivesUp
<1> QED
  BY <1>3, <1>4, <1>5

LEMMA RenewIInv ==
  ASSUME TypeOK, RowsInv, OwnInv, NEW t \in Threads, Renew(t)
  PROVE  TypeOK' /\ RowsInv' /\ OwnInv'
<1> DEFINE i == work[t]
           w == [i EXCEPT !.at = "pump"]
           r == i.run
<1>1. i \in Work /\ i.at = "renew" /\ r \in Runs
  BY WorkFields DEF Renew, OwnInv, CallsAreInOrder
<1>2. /\ rows' = [rows EXCEPT ![r] = [rows[r] EXCEPT !.expires = now + Lease]]
      /\ work' = [work EXCEPT ![t] = w]
      /\ UNCHANGED <<now, conn, scriptRun, yen, progress, revision, active, session,
                     elsewhere, missed, crashes>>
  BY DEF Renew
<1>3. work[t] = i
  OBVIOUS
<1> HIDE DEF i
<1>4. w \in Work /\ w.at = "pump" /\ w.run = i.run /\ w.call = i.call
  BY <1>1 DEF Work
<1> HIDE DEF w
<1>5. /\ work' \in [Threads -> Work] /\ work'[t] = w
      /\ \A u \in Threads : /\ work'[u].run = work[u].run
                            /\ work'[u].call = work[u].call
                            /\ u # t => work'[u] = work[u]
  BY <1>2, <1>3, <1>4 DEF TypeOK
<1>6. rows' \in [Runs -> Row] /\ RowsInv' /\ Inserted' = Inserted
  BY <1>1, <1>2, RenewKeepsRows
<1>7. TypeOK'
  BY <1>2, <1>5, <1>6 DEF TypeOK
<1>8. CallsAreInOrder'
  <2>1. \A c \in Conns : work[<<c, "leave">>].at = "idle" =>
          work'[<<c, "leave">>].at = "idle"
    BY <1>1, <1>3, <1>5, ThreadFacts
  <2>2. \A c \in Conns : work'[<<c, "read">>].call = work[<<c, "read">>].call
    BY <1>5, ThreadFacts
  <2> QED
    BY <2>1, <2>2, <1>1, <1>2, <1>3, <1>4, <1>5, <1>6 DEF OwnInv, CallsAreInOrder
<1>9. SessionIsKnown'
  BY <1>2, <1>5 DEF OwnInv, SessionIsKnown
<1>10. \A u \in Threads : work'[u].at = "launch" => work[u].at = "launch"
  BY <1>4, <1>5
<1>11. RunsAreOwn'
  BY <1>2, <1>5, <1>10 DEF OwnInv, RunsAreOwn
<1>12. SessionsAreKept'
  <2>1. \A u \in Threads : work'[<<u[1], "leave">>].run = work[<<u[1], "leave">>].run
    BY <1>5, ThreadFacts
  <2> QED
    BY <2>1, <1>2, <1>5, <1>10 DEF OwnInv, SessionsAreKept
<1> QED
  BY <1>6, <1>7, <1>8, <1>9, <1>11, <1>12 DEF OwnInv

LEMMA NotRenewedIInv ==
  ASSUME TypeOK, RowsInv, OwnInv, NEW t \in Threads, NotRenewed(t)
  PROVE  TypeOK' /\ RowsInv' /\ OwnInv'
<1>1. /\ work[t].at = "renew" /\ Close(work[t].run) /\ Return(t)
      /\ UNCHANGED <<now, conn, rows, yen, progress, revision, elsewhere, missed, crashes>>
  BY DEF NotRenewed, db
<1>2. work[t].run \in Runs
  BY <1>1, WorkFields DEF OwnInv, CallsAreInOrder
<1>3. TypeOK'
  BY <1>1, <1>2, ReturnFacts, CloseFacts DEF TypeOK
<1>4. RowsInv' /\ Inserted' = Inserted
  BY <1>1, <1>2, RowsUnchanged, CloseFacts
<1>5. OwnInv'
  BY <1>1, <1>4, EndsCall
<1> QED
  BY <1>3, <1>4, <1>5

LEMMA StageIInv ==
  ASSUME TypeOK, RowsInv, OwnInv, NEW t \in Threads, NEW e \in Effects, Stage(t, e)
  PROVE  TypeOK' /\ RowsInv' /\ OwnInv'
<1> DEFINE r == work[t].run
           s == session[r]
           n == IF e = "spend" THEN s.yen - 1 ELSE s.yen
           z == [s EXCEPT !.staged = Append(s.staged, e), !.yen = n]
<1>1. r \in Runs
  BY WorkFields DEF Stage, Exchanged, Exchanging, OwnInv, CallsAreInOrder
<1>2. /\ session' = [session EXCEPT ![r] = z] /\ Len(s.staged) < MaxEffects
      /\ e = "spend" => s.yen > 0
      /\ UNCHANGED <<now, conn, scriptRun, work, rows, yen, progress, revision, active,
                     elsewhere, missed, crashes>>
  BY DEF Stage, db
<1>3. s \in Session /\ n \in Nat /\ s.staged \in Seq(Effects)
  BY <1>1, <1>2, RowFields
<1>4. Append(s.staged, e) \in Seq(Effects)
      /\ Len(Append(s.staged, e)) = Len(s.staged) + 1
  BY <1>3
<1>5. s = session[r]
  OBVIOUS
<1> HIDE DEF s, r, n
<1>6. /\ z \in Session /\ z.open = s.open /\ z.visible = s.visible
      /\ z.staged = Append(s.staged, e)
  BY <1>3, <1>4 DEF Session
<1> HIDE DEF z
<1>7. /\ session' \in [Runs -> Session] /\ session'[r] = z
      /\ \A q \in Runs \ {r} : session'[q] = session[q]
  BY <1>1, <1>2, <1>6 DEF TypeOK
<1>8. TypeOK'
  BY <1>2, <1>7 DEF TypeOK
<1>9. \A q \in Runs : Len(session'[q].staged) <= MaxEffects
  <2>1. Len(z.staged) <= MaxEffects
    BY <1>2, <1>3, <1>4, <1>6, ConstantsAssumption
  <2> QED
    BY <2>1, <1>7 DEF RowsInv, RowsAreInOrder
<1>10. RowsInv' /\ Inserted' = Inserted
  BY <1>2, <1>9, RowsUnchanged
<1>11. \A q \in Runs : /\ session'[q].open = session[q].open
                       /\ session'[q].visible = session[q].visible
  BY <1>5, <1>6, <1>7
<1>12. CallsAreInOrder' /\ RunsAreOwn'
  BY <1>2, <1>10 DEF OwnInv, CallsAreInOrder, RunsAreOwn
<1>13. SessionIsKnown'
  BY <1>2, <1>11 DEF OwnInv, SessionIsKnown
<1>14. SessionsAreKept'
  BY <1>2, <1>11 DEF TypeOK, OwnInv, SessionsAreKept
<1> QED
  BY <1>8, <1>10, <1>12, <1>13, <1>14 DEF OwnInv

LEMMA YieldIInv ==
  ASSUME TypeOK, RowsInv, OwnInv, NEW t \in Threads, Yield(t)
  PROVE  TypeOK' /\ RowsInv' /\ OwnInv'
<1> DEFINE c == t[1]
           r == work[t].run
           s == session[r]
           z == [s EXCEPT !.visible = TRUE]
<1>1. /\ r \in Runs /\ r \in Inserted /\ r # NoRun /\ work[t].at = "pump"
      /\ work[t].call \in {"start", "advance"} /\ s.open
      /\ t \in Threads /\ c \in Conns /\ t[2] = "read" /\ t = <<c, "read">>
      /\ s \in Session /\ s.staged \in Seq(Effects)
  <2>1. /\ work[t].at = "pump" /\ work[t].call \in {"start", "advance"} /\ s.open
    BY DEF Yield, Exchanged, Exchanging, RunsOn
  <2>2. r \in Runs /\ r \in Inserted /\ r # NoRun
    BY <2>1, WorkFields DEF OwnInv, CallsAreInOrder
  <2>3. t[2] = "read"
    BY <2>1, ThreadFacts DEF OwnInv, CallsAreInOrder
  <2> QED
    BY <2>1, <2>2, <2>3, RowFields, ThreadFacts
<1>2. /\ session' = [session EXCEPT ![r] = z]
      /\ work' = [work EXCEPT ![t] = Idle]
      /\ scriptRun' = IF work[t].call = "start" THEN [scriptRun EXCEPT ![c] = r]
                                                ELSE scriptRun
      /\ UNCHANGED <<now, conn, rows, yen, progress, revision, active,
                     elsewhere, missed, crashes>>
  BY DEF Yield, Remembered, db
<1>3. s = session[r] /\ work[t].run = r
  OBVIOUS
<1> HIDE DEF s, r, c
<1>4. z \in Session /\ z.open = s.open /\ z.visible /\ z.staged = s.staged
  BY <1>1 DEF Session
<1> HIDE DEF z
<1>5. /\ session' \in [Runs -> Session] /\ session'[r] = z
      /\ \A q \in Runs \ {r} : session'[q] = session[q]
      /\ work' \in [Threads -> Work] /\ work'[t] = Idle
      /\ \A u \in Threads \ {t} : work'[u] = work[u]
      /\ scriptRun' \in [Conns -> Runs \cup {NoRun}]
      /\ \A d \in Conns \ {c} : scriptRun'[d] = scriptRun[d]
      /\ scriptRun'[c] = IF work[t].call = "start" THEN r ELSE scriptRun[c]
  BY <1>1, <1>2, <1>4, IdleFacts DEF TypeOK
<1>6. TypeOK'
  BY <1>2, <1>5 DEF TypeOK
<1>7. \A q \in Runs : /\ session'[q].open = session[q].open
                      /\ session[q].visible => session'[q].visible
                      /\ session'[q].staged = session[q].staged
  BY <1>3, <1>4, <1>5
<1>8. RowsInv' /\ Inserted' = Inserted
  <2>1. \A q \in Runs : Len(session'[q].staged) <= MaxEffects
    BY <1>7 DEF RowsInv, RowsAreInOrder
  <2> QED
    BY <2>1, <1>2, RowsUnchanged
<1>9. work[t].call = "start" => scriptRun[c] = NoRun
  BY <1>1 DEF OwnInv, CallsAreInOrder
<1>10. \A u \in Threads : u # t => u # <<c, "read">>
  BY <1>1
<1>11. \A d \in Conns : /\ <<d, "leave">> \in Threads \ {t}
                        /\ <<d, "read">> = t <=> d = c
                        /\ <<d, "read">> \in Threads
  BY <1>1, ThreadFacts
<1>12. CallsAreInOrder'
  BY <1>1, <1>2, <1>5, <1>8, <1>11, IdleFacts DEF OwnInv, CallsAreInOrder
<1>13. SessionIsKnown'
  <2> SUFFICES ASSUME NEW q \in Runs, q \in active' \/ session'[q].open
               PROVE  \/ \E d \in Conns : scriptRun'[d] = q
                      \/ \E u \in Threads : work'[u].run = q
    BY DEF SessionIsKnown
  <2>1. q \in active /\ q # NoRun
    BY <1>2, <1>7, RunsFacts DEF OwnInv, SessionsAreKept
  <2>2. CASE q = r
    <3>1. CASE work[t].call = "start"
      BY <2>2, <3>1, <1>1, <1>5
    <3>2. CASE work[t].call = "advance"
      <4>1. scriptRun[c] = r \/ work[<<c, "leave">>].run = r
        BY <2>1, <2>2, <3>2, <1>1, <1>3 DEF OwnInv, SessionsAreKept, c
      <4> QED
        BY <4>1, <2>2, <3>2, <1>1, <1>5, <1>11
    <3> QED
      BY <3>1, <3>2, <1>1
  <2>3. CASE \E u \in Threads : work[u].run = q /\ q # r
    BY <2>3, <1>3, <1>5
  <2>4. CASE q # r /\ \E d \in Conns : scriptRun[d] = q
    <3>1. PICK d \in Conns : scriptRun[d] = q
      BY <2>4
    <3>2. scriptRun'[d] = q
      BY <3>1, <2>1, <1>5, <1>9
    <3> QED
      BY <3>2
  <2> QED
    BY <2>1, <2>2, <2>3, <2>4 DEF OwnInv, SessionIsKnown
<1>14. RunsAreOwn'
  <2>1. \A u \in Threads : work[u].run = r => u[1] = c /\ (u # t => work[u].at # "launch")
    BY <1>1, <1>3 DEF OwnInv, RunsAreOwn, c
  <2>2. \A d \in Conns : scriptRun[d] = r => d = c
    BY <1>1, <1>3 DEF OwnInv, RunsAreOwn, c
  <2>3. \A u \in Threads : work'[u].run # NoRun => u # t /\ work'[u] = work[u]
    BY <1>5, IdleFacts
  <2>4. \A d \in Conns : scriptRun'[d] = scriptRun[d] \/ (d = c /\ scriptRun'[d] = r)
    BY <1>5
  <2>5. \A u, x \in Threads : work'[u].run # NoRun /\ work'[u].run = work'[x].run =>
          u[1] = x[1] /\ (work'[u].at = "launch" => u = x)
    BY <2>3 DEF OwnInv, RunsAreOwn
  <2>6. \A d, x \in Conns : scriptRun'[d] # NoRun /\ scriptRun'[d] = scriptRun'[x] => d = x
    BY <2>2, <2>4 DEF OwnInv, RunsAreOwn
  <2>7. \A d \in Conns, u \in Threads :
          scriptRun'[d] # NoRun /\ work'[u].run = scriptRun'[d] =>
            u[1] = d /\ work'[u].at # "launch"
    BY <2>1, <2>3, <2>4 DEF OwnInv, RunsAreOwn
  <2> QED
    BY <2>5, <2>6, <2>7 DEF RunsAreOwn
<1>15. SessionsAreKept'
  <2>1. \A q \in Runs : q \in active' <=> session'[q].open
    BY <1>2, <1>7 DEF OwnInv, SessionsAreKept
  <2>2. \A u \in Threads : work'[u].at = "launch" => work'[u].run \notin active'
    BY <1>2, <1>5, IdleFacts DEF OwnInv, SessionsAreKept
  <2>3. \A d \in Conns : scriptRun'[d] \in active' => session'[scriptRun'[d]].visible
    <3>1. \A q \in active : q \in Runs
      BY DEF TypeOK
    <3>2. \A d \in Conns : scriptRun[d] \in active => session'[scriptRun[d]].visible
      BY <3>1, <1>7 DEF OwnInv, SessionsAreKept
    <3> QED
      BY <3>2, <1>2, <1>4, <1>5
  <2>4. ASSUME NEW u \in Threads,
               work'[u].call \in {"advance", "stop"}, work'[u].run # NoRun
        PROVE  /\ scriptRun'[u[1]] \in {work'[u].run, NoRun}
               /\ work'[u].run \in active' =>
                    /\ session'[work'[u].run].visible
                    /\ \/ scriptRun'[u[1]] = work'[u].run
                       \/ work'[<<u[1], "leave">>].run = work'[u].run
    <3>1. u # t /\ work'[u] = work[u] /\ work[u].run \in Runs
      BY <2>4, <1>5, IdleFacts, WorkFields
    <3>2. u[2] = "read"
      BY <2>4, <3>1, ThreadFacts DEF OwnInv, CallsAreInOrder
    <3>3. u[1] \in Conns /\ u[1] # c
      BY <3>1, <3>2, <1>10, ThreadFacts
    <3>4. scriptRun'[u[1]] = scriptRun[u[1]]
          /\ work'[<<u[1], "leave">>] = work[<<u[1], "leave">>]
      BY <3>3, <1>5, <1>11
    <3> QED
      <4>1. scriptRun[u[1]] \in {work[u].run, NoRun}
        BY <2>4, <3>1 DEF OwnInv, SessionsAreKept
      <4>2. work[u].run \in active =>
              /\ session'[work[u].run].visible
              /\ \/ scriptRun[u[1]] = work[u].run
                 \/ work[<<u[1], "leave">>].run = work[u].run
        BY <2>4, <3>1, <1>7 DEF OwnInv, SessionsAreKept
      <4> QED
        BY <3>1, <3>4, <4>1, <4>2, <1>2
  <2> QED
    BY <2>1, <2>2, <2>3, <2>4 DEF SessionsAreKept
<1> QED
  BY <1>6, <1>8, <1>12, <1>13, <1>14, <1>15 DEF OwnInv


\* The gate has passed: its run is over, and the call goes on with the next
\* candidate.
LEMMA PassTriggerIInv ==
  ASSUME TypeOK, RowsInv, OwnInv, NEW t \in Threads, PassTrigger(t)
  PROVE  TypeOK' /\ RowsInv' /\ OwnInv'
<1> DEFINE i == work[t]
           r == i.run
           x == i.excluded \cup {rows[r].version}
           w == [i EXCEPT !.at = "resolve", !.run = NoRun, !.excluded = x]
<1>1. /\ i \in Work /\ i.at = "pump" /\ r \in Runs /\ session[r].open
      /\ i.call \in {"start", "advance"} /\ ~session[r].visible
  <2>1. /\ i.at = "pump" /\ session[r].open /\ ~session[r].visible
        /\ i.call \in {"start", "advance"}
    BY DEF PassTrigger, Exchanging, RunsOn
  <2> QED
    BY <2>1, WorkFields DEF OwnInv, CallsAreInOrder
<1>2. /\ MayFinish(r) /\ FinishScriptEvent(r, "passed") /\ Close(r)
      /\ work' = [work EXCEPT ![t] = w]
      /\ UNCHANGED <<now, conn, scriptRun, elsewhere, missed, crashes>>
  BY DEF PassTrigger
\* Only a start can pass: what an answer advances has been shown.
<1>3. i.call = "start"
  <2>1. r \in active /\ r # NoRun
    BY <1>1, RunsFacts DEF OwnInv, SessionsAreKept
  <2> QED
    BY <1>1, <2>1 DEF OwnInv, SessionsAreKept
<1>4. x \in SUBSET Versions
  <2>1. r \in Inserted
    BY <1>1, RunsFacts DEF OwnInv, CallsAreInOrder
  <2> QED
    BY <2>1, WorkFields DEF RowsInv, RowsAreInOrder
<1>5. work[t] = i /\ i.run = r
  OBVIOUS
<1> HIDE DEF i, x
<1>6. w \in Work /\ w.at = "resolve" /\ w.run = NoRun /\ w.call = "start"
  BY <1>1, <1>3, <1>4 DEF Work
<1> HIDE DEF w, r
<1>7. /\ work' \in [Threads -> Work] /\ work'[t] = w
      /\ \A u \in Threads \ {t} : work'[u] = work[u]
  BY <1>2, <1>6 DEF TypeOK
<1>8. /\ rows' \in [Runs -> Row] /\ yen' \in Nat /\ progress' \in Nat
      /\ revision' \in Nat /\ RowsInv' /\ Inserted' = Inserted
  BY <1>1, <1>2, CloseFacts, FinishKeepsRows
<1>9. TypeOK'
  BY <1>1, <1>2, <1>7, <1>8, CloseFacts DEF TypeOK
<1>10. CallsAreInOrder'
  <2>1. t[2] = "read"
    BY <1>1, <1>3, <1>5, ThreadFacts DEF OwnInv, CallsAreInOrder
  <2>2. \A c \in Conns :
          <<c, "leave">> \in Threads \ {t} /\ <<c, "read">> \in Threads
    BY <2>1, ThreadFacts
  <2>3. \A u \in Threads : work'[u].call = work[u].call
    BY <1>3, <1>5, <1>6, <1>7
  <2>4. \A u \in Threads :
          LET y == work'[u]
          IN /\ y.at \in {"idle", "resolve", "cancel", "done"} <=> y.run = NoRun
             /\ y.run # NoRun => y.run \in Inserted'
             /\ y.at \in {"idle", "done"} <=> y.call = "none"
             /\ y.at \in {"resolve", "launch"} => y.call = "start"
             /\ u[2] = "read" => y.call # "cancel" /\ y.at # "cancel"
             /\ u[2] = "leave" => y.call \in {"none", "cancel"}
    BY <1>6, <1>7, <1>8, <2>1 DEF OwnInv, CallsAreInOrder
  <2> QED
    BY <2>2, <2>3, <2>4, <1>2, <1>7, <1>8 DEF OwnInv, CallsAreInOrder
<1>11. work[t].run = r
  BY <1>5
<1>12. work'[t].call \notin {"advance", "stop"} /\ work'[t].at # "launch"
       /\ work'[t].run = NoRun
  BY <1>6, <1>7
<1>13. OwnInv'
  BY <1>1, <1>2, <1>7, <1>10, <1>11, <1>12, LosesRun
<1> QED
  BY <1>8, <1>9, <1>13

LEMMA CompleteIInv ==
  ASSUME TypeOK, RowsInv, OwnInv, NEW t \in Threads, Complete(t)
  PROVE  TypeOK' /\ RowsInv' /\ OwnInv'
<1> DEFINE r == work[t].run
<1>1. /\ work[t].at = "pump" /\ MayFinish(r) /\ FinishScriptEvent(r, "completed")
      /\ Close(r) /\ Return(t) /\ UNCHANGED <<now, conn, elsewhere, missed, crashes>>
  BY DEF Complete, Exchanging
<1>2. r \in Runs
  BY <1>1, WorkFields DEF OwnInv, CallsAreInOrder
<1>3. /\ rows' \in [Runs -> Row] /\ yen' \in Nat /\ progress' \in Nat
      /\ revision' \in Nat /\ RowsInv' /\ Inserted' = Inserted
  <2> HIDE DEF r
  <2> QED
    BY <1>1, <1>2, CloseFacts, FinishKeepsRows
<1>4. TypeOK'
  BY <1>1, <1>2, <1>3, ReturnFacts, CloseFacts DEF TypeOK
<1>5. OwnInv'
  BY <1>1, <1>3, EndsCall
<1> QED
  BY <1>3, <1>4, <1>5

LEMMA CancelledIInv ==
  ASSUME TypeOK, RowsInv, OwnInv, NEW t \in Threads, Cancelled(t)
  PROVE  TypeOK' /\ RowsInv' /\ OwnInv'
<1> DEFINE r == work[t].run
<1>1. /\ work[t].at = "pump" /\ rows[r].status = "active"
      /\ rows' = WithStatus(r, "cancelled") /\ Close(r) /\ Return(t)
      /\ UNCHANGED <<now, conn, yen, progress, revision, elsewhere, missed, crashes>>
  BY DEF Cancelled, Exchanging
<1>2. r \in Runs
  BY <1>1, WorkFields DEF OwnInv, CallsAreInOrder
<1>3. rows' \in [Runs -> Row] /\ RowsInv' /\ Inserted' = Inserted
  <2> HIDE DEF r
  <2> QED
    BY <1>1, <1>2, CloseFacts, WithStatusKeepsRows
<1>4. TypeOK'
  BY <1>1, <1>2, <1>3, ReturnFacts, CloseFacts DEF TypeOK
<1>5. OwnInv'
  BY <1>1, <1>3, EndsCall
<1> QED
  BY <1>3, <1>4, <1>5

LEMMA FailIInv ==
  ASSUME TypeOK, RowsInv, OwnInv, NEW t \in Threads, Fail(t)
  PROVE  TypeOK' /\ RowsInv' /\ OwnInv'
<1> DEFINE r == work[t].run
<1>1. /\ work[t].at = "pump" /\ rows' \in {Ended(r, "failed"), rows}
      /\ Close(r) /\ Return(t)
      /\ UNCHANGED <<now, conn, yen, progress, revision, elsewhere, missed, crashes>>
  BY DEF Fail
<1>2. r \in Runs
  BY <1>1, WorkFields DEF OwnInv, CallsAreInOrder
<1>3. rows' \in [Runs -> Row] /\ RowsInv' /\ Inserted' = Inserted
  <2> HIDE DEF r
  <2> QED
    BY <1>1, <1>2, CloseFacts, EndedKeepsRows
<1>4. TypeOK'
  BY <1>1, <1>2, <1>3, ReturnFacts, CloseFacts DEF TypeOK
<1>5. OwnInv'
  BY <1>1, <1>3, EndsCall
<1> QED
  BY <1>3, <1>4, <1>5

\* Steps that leave calls and processes alone.
LEMMA OwnUnchanged ==
  ASSUME OwnInv, Inserted' = Inserted,
         UNCHANGED <<conn, scriptRun, work, active, session>>
  PROVE  OwnInv'
BY DEF OwnInv, SessionIsKnown, CallsAreInOrder, RunsAreOwn, SessionsAreKept

LEMMA RestartIInv ==
  ASSUME TypeOK, RowsInv, Restart
  PROVE  TypeOK' /\ RowsInv' /\ OwnInv'
<1>1. /\ conn' = [c \in Conns |-> "new"] /\ scriptRun' = [c \in Conns |-> NoRun]
      /\ work' = [t \in Threads |-> Idle] /\ active' = {}
      /\ session' = [r \in Runs |-> NoSession]
      /\ crashes' = crashes + 1
      /\ UNCHANGED <<now, rows, yen, progress, revision, elsewhere>>
      /\ missed' = {}
  BY DEF Restart, db
<1>2. TypeOK'
  BY <1>1, IdleFacts, NoSessionFacts DEF TypeOK
<1>3. \A r \in Runs : Len(session'[r].staged) <= MaxEffects
  BY <1>1, NoSessionFacts, ConstantsAssumption
<1>4. RowsInv'
  BY <1>1, <1>3, RowsUnchanged
<1>5. CallsAreInOrder'
  BY <1>1, IdleFacts, ThreadFacts DEF CallsAreInOrder
<1>6. SessionIsKnown' /\ RunsAreOwn' /\ SessionsAreKept'
  BY <1>1, IdleFacts, ThreadFacts, NoSessionFacts
  DEF SessionIsKnown, RunsAreOwn, SessionsAreKept
<1> QED
  BY <1>2, <1>4, <1>5, <1>6 DEF OwnInv

-----------------------------------------------------------------------------
(* Connections without a run *)

\* A call that goes on or returns gives a run to its own connection only, and
\* only if it is a start; and it starts none.
LEMMA CallKeepsClean ==
  ASSUME OthersAreClean, NEW t \in Threads,
         UNCHANGED <<conn, missed>>,
         work[t].at # "cancel",
         work'[t].call = "start" => work[t].call = "start",
         \A u \in Threads \ {t} : work'[u] = work[u],
         \A c \in Conns :
           \/ scriptRun'[c] \in {scriptRun[c], NoRun}
           \/ t = <<c, "read">> /\ work[t].call = "start"
  PROVE  OthersAreClean'
<1> SUFFICES ASSUME NEW c \in Conns,
                    conn[c] # "in", c \notin missed, work'[<<c, "leave">>].at # "cancel"
             PROVE  scriptRun'[c] = NoRun /\ work'[<<c, "read">>].call # "start"
  BY DEF OthersAreClean
<1>1. <<c, "leave">> \in Threads /\ <<c, "read">> \in Threads
  BY ThreadFacts
<1>2. work[<<c, "leave">>].at # "cancel"
  BY <1>1
<1>3. scriptRun[c] = NoRun /\ work[<<c, "read">>].call # "start"
  BY <1>2 DEF OthersAreClean
<1> QED
  BY <1>1, <1>3

LEMMA ReturnKeepsClean ==
  ASSUME TypeOK, OthersAreClean, NEW t \in Threads, Return(t), work[t].at # "cancel",
         UNCHANGED <<conn, missed>>
  PROVE  OthersAreClean'
<1>1. /\ work'[t].call = "none"
      /\ \A u \in Threads \ {t} : work'[u] = work[u]
      /\ work[t].call \notin {"advance", "stop"} => scriptRun' = scriptRun
      /\ work[t].call \in {"advance", "stop"} =>
           /\ scriptRun'[t[1]] = NoRun
           /\ \A c \in Conns \ {t[1]} : scriptRun'[c] = scriptRun[c]
  BY ReturnFacts
<1>2. \A c \in Conns : scriptRun'[c] \in {scriptRun[c], NoRun}
  BY <1>1
<1> QED
  BY <1>1, <1>2, CallKeepsClean

LEMMA StepKeepsClean ==
  ASSUME TypeOK, OthersAreClean, NEW t \in Threads, NEW w,
         work' = [work EXCEPT ![t] = w], w.call = work[t].call,
         work[t].at # "cancel", UNCHANGED <<conn, missed, scriptRun>>
  PROVE  OthersAreClean'
<1>1. work'[t] = w /\ \A u \in Threads \ {t} : work'[u] = work[u]
  BY DEF TypeOK
<1> QED
  BY <1>1, CallKeepsClean

LEMMA RequestsKeepClean ==
  ASSUME TypeOK, CallsAreInOrder, OthersAreClean, NEW c \in Conns,
         \/ Register(c) \/ Unregister(c) \/ StartRequest(c)
         \/ \E call \in {"advance", "stop"} : AdvanceRequest(c, call)
         \/ CancelClientScript(c)
  PROVE  OthersAreClean'
<1> DEFINE r == <<c, "read">>
           l == <<c, "leave">>
<1>1. /\ r \in Threads /\ l \in Threads /\ r # l
      /\ \A d \in Conns \ {c} : <<d, "read">> \notin {r, l} /\ <<d, "leave">> \notin {r, l}
      /\ \A d \in Conns : <<d, "read">> \in Threads /\ <<d, "leave">> \in Threads
  BY ThreadFacts
<1> HIDE DEF r, l
<1>2. CASE Register(c)
  <2>1. conn' = [conn EXCEPT ![c] = "in"] /\ UNCHANGED <<scriptRun, work, missed>>
    BY <1>2 DEF Register
  <2> QED
    BY <2>1 DEF TypeOK, OthersAreClean
<1>3. CASE Unregister(c)
  <2>1. /\ conn' = [conn EXCEPT ![c] = "out"] /\ UNCHANGED <<scriptRun, missed>>
        /\ work' = [work EXCEPT ![l] = [Idle EXCEPT !.at = "cancel", !.call = "cancel"]]
    BY <1>3 DEF Unregister, l
  <2>2. work'[l].at = "cancel" /\ \A u \in Threads \ {l} : work'[u] = work[u]
    BY <1>1, <2>1 DEF TypeOK, Idle
  <2>3. ASSUME NEW d \in Conns
        PROVE  \/ conn'[d] = "in" \/ work'[<<d, "leave">>].at = "cancel" \/ d \in missed'
               \/ scriptRun'[d] = NoRun /\ work'[<<d, "read">>].call # "start"
    <3>1. CASE d = c
      BY <2>2, <3>1 DEF l
    <3>2. CASE d # c
      BY <1>1, <2>1, <2>2, <3>2 DEF TypeOK, OthersAreClean
    <3> QED
      BY <3>1, <3>2
  <2> QED
    BY <2>3 DEF OthersAreClean
<1>4. CASE StartRequest(c)
  <2>1. /\ conn[c] = "in" /\ UNCHANGED <<conn, scriptRun, missed>>
        /\ work' = [work EXCEPT ![r] = [Idle EXCEPT !.at = "resolve", !.call = "start"]]
    BY <1>4 DEF StartRequest, r
  <2>2. \A u \in Threads \ {r} : work'[u] = work[u]
    BY <1>1, <2>1 DEF TypeOK
  <2> QED
    BY <1>1, <2>1, <2>2 DEF OthersAreClean
<1>5. CASE \E call \in {"advance", "stop"} : AdvanceRequest(c, call)
  <2>1. PICK call \in {"advance", "stop"} : AdvanceRequest(c, call)
    BY <1>5
  <2>2. /\ work[r].at = "idle" /\ UNCHANGED <<conn, missed>>
        /\ \/ /\ work' = [work EXCEPT ![r] =
                    [Idle EXCEPT !.at = "renew", !.call = call, !.run = scriptRun[c]]]
              /\ UNCHANGED scriptRun
           \/ scriptRun' = [scriptRun EXCEPT ![c] = NoRun] /\ UNCHANGED work
    BY <2>1 DEF AdvanceRequest, r
  <2>3. /\ \A u \in Threads \ {r} : work'[u] = work[u]
        /\ work'[r].call = "start" => work[r].call = "start"
    BY <1>1, <2>2 DEF TypeOK, Idle
  <2>4. \A d \in Conns : scriptRun'[d] \in {scriptRun[d], NoRun}
    BY <2>2 DEF TypeOK
  <2> QED
    BY <1>1, <2>2, <2>3, <2>4, CallKeepsClean
<1>6. CASE CancelClientScript(c)
  <2>1. /\ UNCHANGED conn
        /\ scriptRun' = [scriptRun EXCEPT ![c] = NoRun]
        /\ missed' = IF work[r].call = "start" THEN missed \cup {c} ELSE missed
        /\ \E w : work' = [work EXCEPT ![l] = w]
    BY <1>6 DEF CancelClientScript, r, l
  <2>2. \A u \in Threads \ {l} : work'[u] = work[u]
    BY <1>1, <2>1 DEF TypeOK
  <2>3. /\ scriptRun'[c] = NoRun
        /\ \A d \in Conns \ {c} : scriptRun'[d] = scriptRun[d]
        /\ missed \subseteq missed'
    BY <2>1 DEF TypeOK
  <2>4. ASSUME NEW d \in Conns
        PROVE  \/ conn'[d] = "in" \/ work'[<<d, "leave">>].at = "cancel" \/ d \in missed'
               \/ scriptRun'[d] = NoRun /\ work'[<<d, "read">>].call # "start"
    <3>1. CASE d = c
      <4>1. work'[r] = work[r]
        BY <1>1, <2>2
      <4> QED
        BY <2>1, <2>3, <3>1, <4>1 DEF r
    <3>2. CASE d # c
      BY <1>1, <2>1, <2>2, <2>3, <3>2 DEF OthersAreClean
    <3> QED
      BY <3>1, <3>2
  <2> QED
    BY <2>4 DEF OthersAreClean
<1> QED
  BY <1>2, <1>3, <1>4, <1>5, <1>6

LEMMA CallsKeepClean ==
  ASSUME TypeOK, CallsAreInOrder, OthersAreClean, NEW t \in Threads,
         \/ \E published \in SUBSET Versions, v \in Versions :
              StartPublishedScriptEvent(t, published, v)
         \/ StartRefused(t)
         \/ Launch(t) \/ LaunchFailed(t)
         \/ Renew(t) \/ NotRenewed(t)
         \/ \E e \in Effects : Stage(t, e)
         \/ Yield(t) \/ PassTrigger(t) \/ Complete(t)
         \/ Cancelled(t) \/ Fail(t)
  PROVE  OthersAreClean'
<1>1. CASE \/ StartRefused(t) \/ LaunchFailed(t) \/ NotRenewed(t) \/ Complete(t)
           \/ Cancelled(t) \/ Fail(t)
  <2>1. Return(t) /\ work[t].at # "cancel" /\ UNCHANGED <<conn, missed>>
    BY <1>1 DEF StartRefused, LaunchFailed, NotRenewed, Complete, Cancelled, Fail,
                Exchanging
  <2> QED
    BY <2>1, ReturnKeepsClean
<1>2. CASE \E published \in SUBSET Versions, v \in Versions :
             StartPublishedScriptEvent(t, published, v)
  <2> DEFINE w == [work[t] EXCEPT !.at = "launch", !.run = NumberOfRuns + 1,
                                 !.snapshot = yen]
  <2>1. w.call = work[t].call
    BY WorkFields DEF Work
  <2>2. /\ work[t].at # "cancel" /\ UNCHANGED <<conn, missed, scriptRun>>
        /\ work' = [work EXCEPT ![t] = w]
    BY <1>2 DEF StartPublishedScriptEvent
  <2> HIDE DEF w
  <2> QED
    BY <2>1, <2>2, StepKeepsClean
<1>3. CASE Launch(t)
  <2> DEFINE w == [work[t] EXCEPT !.at = "pump", !.snapshot = 0]
  <2>1. w.call = work[t].call
    BY WorkFields DEF Work
  <2>2. /\ work[t].at # "cancel" /\ UNCHANGED <<conn, missed, scriptRun>>
        /\ work' = [work EXCEPT ![t] = w]
    BY <1>3 DEF Launch
  <2> HIDE DEF w
  <2> QED
    BY <2>1, <2>2, StepKeepsClean
<1>4. CASE Renew(t)
  <2> DEFINE w == [work[t] EXCEPT !.at = "pump"]
  <2>1. w.call = work[t].call
    BY WorkFields DEF Work
  <2>2. /\ work[t].at # "cancel" /\ UNCHANGED <<conn, missed, scriptRun>>
        /\ work' = [work EXCEPT ![t] = w]
    BY <1>4 DEF Renew
  <2> HIDE DEF w
  <2> QED
    BY <2>1, <2>2, StepKeepsClean
<1>5. CASE PassTrigger(t)
  <2> DEFINE w == [work[t] EXCEPT !.at = "resolve", !.run = NoRun,
      !.excluded = work[t].excluded \cup {rows[work[t].run].version}]
  <2>1. w.call = work[t].call
    BY WorkFields DEF Work
  <2>2. /\ work[t].at # "cancel" /\ UNCHANGED <<conn, missed, scriptRun>>
        /\ work' = [work EXCEPT ![t] = w]
    BY <1>5 DEF PassTrigger, Exchanging
  <2> HIDE DEF w
  <2> QED
    BY <2>1, <2>2, StepKeepsClean
<1>6. CASE \E e \in Effects : Stage(t, e)
  <2>1. UNCHANGED <<conn, missed, scriptRun, work>>
    BY <1>6 DEF Stage
  <2> QED
    BY <2>1 DEF OthersAreClean
<1>7. CASE Yield(t)
  <2>1. /\ work[t].at = "pump" /\ UNCHANGED <<conn, missed>>
        /\ work' = [work EXCEPT ![t] = Idle] /\ scriptRun' = Remembered(t)
    BY <1>7 DEF Yield, Exchanged, Exchanging
  <2>2. work'[t].call = "none" /\ \A u \in Threads \ {t} : work'[u] = work[u]
    BY <2>1 DEF TypeOK, Idle
  <2>3. work[t].call = "start" => t = <<t[1], "read">>
    BY ThreadFacts DEF CallsAreInOrder
  <2>4. ASSUME NEW c \in Conns
        PROVE  \/ scriptRun'[c] \in {scriptRun[c], NoRun}
               \/ t = <<c, "read">> /\ work[t].call = "start"
    <3>1. CASE work[t].call = "start" /\ t[1] = c
      BY <2>3, <3>1
    <3>2. CASE ~(work[t].call = "start" /\ t[1] = c)
      BY <2>1, <3>2 DEF TypeOK, Remembered
    <3> QED
      BY <3>1, <3>2
  <2> QED
    BY <2>1, <2>2, <2>4, CallKeepsClean
<1> QED
  BY <1>1, <1>2, <1>3, <1>4, <1>5, <1>6, <1>7

LEMMA OthersStayClean ==
  ASSUME TypeOK, CallsAreInOrder, OthersAreClean, [Next]_vars
  PROVE  OthersAreClean'
<1>1. CASE Restart
  <2>1. /\ conn' = [c \in Conns |-> "new"] /\ scriptRun' = [c \in Conns |-> NoRun]
        /\ work' = [t \in Threads |-> Idle]
    BY <1>1 DEF Restart
  <2> QED
    BY <2>1, IdleFacts, ThreadFacts DEF OthersAreClean
<1>2. CASE SpendElsewhere \/ Tick \/ UNCHANGED vars
  <2>1. UNCHANGED <<conn, scriptRun, work, missed>>
    BY <1>2 DEF SpendElsewhere, Tick, vars
  <2> QED
    BY <2>1 DEF OthersAreClean
<1> QED
  BY <1>1, <1>2, RequestsKeepClean, CallsKeepClean DEF Next

\* The run of a connection that is known belongs to one that may have a run.
LEMMA KnownIsOwned == IInv => SessionIsOwned
<1> SUFFICES ASSUME IInv, NEW q \in Runs, q \in active \/ session[q].open
             PROVE  \/ \E t \in Threads : work[t].run = q
                    \/ \E c \in Conns : scriptRun[c] = q /\
                         (conn[c] = "in" \/ work[<<c, "leave">>].at = "cancel"
                          \/ c \in missed)
  BY DEF SessionIsOwned
<1>1. CASE \E c \in Conns : scriptRun[c] = q
  <2>1. PICK c \in Conns : scriptRun[c] = q
    BY <1>1
  <2>2. scriptRun[c] # NoRun
    BY <2>1, RunsFacts
  <2> QED
    BY <2>1, <2>2 DEF IInv, OthersAreClean
<1> QED
  BY <1>1 DEF IInv, SessionIsKnown

-----------------------------------------------------------------------------
(* The theorems *)

LEMMA InitIInv == Init => IInv
<1> SUFFICES ASSUME Init PROVE IInv
  OBVIOUS
<1> USE DEF Init
<1>1. NoRow \in Row /\ NoRow.status = "none" /\ NoRow.effects = <<>>
  BY DEF NoRow, Row, Statuses
<1>2. TypeOK
  BY <1>1, IdleFacts, NoSessionFacts, ConstantsAssumption DEF TypeOK
<1>3. Inserted = {} /\ Committed = {} /\ NumberOfRuns = 0
  BY <1>1, FS_EmptySet DEF Inserted, Committed, NumberOfRuns
<1>4. EffectsOnce
  <2>1. \A e : Recorded(e) = {}
    BY <1>1 DEF Recorded
  <2> QED
    <3>1. Cardinality(Recorded("increment")) = 0 /\ Cardinality(Recorded("spend")) = 0
      BY <2>1, FS_EmptySet
    <3>2. \A r \in Runs : rows[r].effects = <<>>
      BY <1>1
    <3>3. progress = 0 /\ yen = InitYen /\ elsewhere = 0 /\ InitYen \in Nat
      BY ConstantsAssumption
    <3> HIDE DEF Init
    <3> QED
      BY <3>1, <3>2, <3>3 DEF EffectsOnce
<1>5. StoryIsFresh
  BY <1>1 DEF StoryIsFresh
<1>6. RowsAreInOrder
  <2>1. \A r \in Runs : Len(session[r].staged) <= MaxEffects
    BY NoSessionFacts, ConstantsAssumption
  <2> QED
    BY <1>1, <1>3, <2>1 DEF RowsAreInOrder
<1>7. CallsAreInOrder
  BY IdleFacts, ThreadFacts DEF CallsAreInOrder
<1>8. SessionIsKnown /\ RunsAreOwn /\ SessionsAreKept
  BY IdleFacts, ThreadFacts, NoSessionFacts
  DEF SessionIsKnown, RunsAreOwn, SessionsAreKept
<1>9. OthersAreClean
  BY IdleFacts, ThreadFacts DEF OthersAreClean
<1> QED
  BY <1>2, <1>4, <1>5, <1>6, <1>7, <1>8, <1>9 DEF IInv

LEMMA NextIInv == IInv /\ [Next]_vars => IInv'
<1> SUFFICES ASSUME IInv, [Next]_vars PROVE IInv'
  OBVIOUS
<1>1. TypeOK /\ RowsInv /\ OwnInv
  BY DEF IInv, RowsInv, OwnInv
<1>2. OthersAreClean'
  BY OthersStayClean DEF IInv
<1> SUFFICES TypeOK' /\ RowsInv' /\ OwnInv'
  BY <1>2 DEF IInv, RowsInv, OwnInv
<1>3. ASSUME NEW c \in Conns,
             \/ Register(c) \/ Unregister(c) \/ StartRequest(c)
             \/ CancelClientScript(c)
      PROVE  TypeOK' /\ RowsInv' /\ OwnInv'
  BY <1>1, <1>3, RegisterIInv, UnregisterIInv, StartRequestIInv,
     CancelClientScriptIInv
<1>4. ASSUME NEW c \in Conns, NEW call \in {"advance", "stop"},
             AdvanceRequest(c, call)
      PROVE  TypeOK' /\ RowsInv' /\ OwnInv'
  BY <1>1, <1>4, AdvanceRequestIInv
<1>5. ASSUME NEW t \in Threads, NEW published \in SUBSET Versions,
             NEW v \in Versions, StartPublishedScriptEvent(t, published, v)
      PROVE  TypeOK' /\ RowsInv' /\ OwnInv'
  BY <1>1, <1>5, StartIInv
<1>6. ASSUME NEW t \in Threads,
             \/ StartRefused(t) \/ Launch(t) \/ LaunchFailed(t)
             \/ Renew(t) \/ NotRenewed(t)
      PROVE  TypeOK' /\ RowsInv' /\ OwnInv'
  BY <1>1, <1>6, StartRefusedIInv, LaunchIInv, LaunchFailedIInv, RenewIInv,
     NotRenewedIInv
<1>7. ASSUME NEW t \in Threads, NEW e \in Effects, Stage(t, e)
      PROVE  TypeOK' /\ RowsInv' /\ OwnInv'
  BY <1>1, <1>7, StageIInv
<1>8. ASSUME NEW t \in Threads,
             \/ Yield(t) \/ PassTrigger(t) \/ Complete(t)
             \/ Cancelled(t) \/ Fail(t)
      PROVE  TypeOK' /\ RowsInv' /\ OwnInv'
  BY <1>1, <1>8, YieldIInv, PassTriggerIInv, CompleteIInv, CancelledIInv, FailIInv
<1>9. CASE SpendElsewhere
  <2>1. TypeOK' /\ RowsInv' /\ Inserted' = Inserted
    BY <1>1, <1>9, SpendKeepsRows
  <2>2. UNCHANGED <<conn, scriptRun, work, active, session>>
    BY <1>9 DEF SpendElsewhere
  <2> QED
    BY <1>1, <2>1, <2>2, OwnUnchanged
<1>10. CASE Tick \/ UNCHANGED vars
  <2>1. /\ now' \in Nat
        /\ UNCHANGED <<conn, scriptRun, work, rows, yen, progress, revision, active,
                       session, elsewhere, missed, crashes>>
    BY <1>1, <1>10 DEF Tick, db, vars, TypeOK
  <2>2. TypeOK'
    BY <1>1, <2>1 DEF TypeOK
  <2>3. RowsInv' /\ Inserted' = Inserted
    BY <1>1, <2>1, RowsUnchanged, StagedIsBounded
  <2> QED
    BY <1>1, <2>1, <2>2, <2>3, OwnUnchanged
<1>11. CASE Restart
  BY <1>1, <1>11, RestartIInv
<1> QED
  BY <1>3, <1>4, <1>5, <1>6, <1>7, <1>8, <1>9, <1>10, <1>11 DEF Next

\* The inductive invariant of the runs and of the calls that drive them holds in
\* every reachable state.
THEOREM Invariance == Spec => []IInv
BY InitIInv, NextIInv, PTL DEF Spec

\* Every variable keeps its type.
THEOREM TypeCorrect == Spec => []TypeOK
BY Invariance, PTL DEF IInv

\* finishScriptEvent applies the effects of a run exactly once, whatever the two
\* goroutines, the other connection of the character, an expired lease, a context
\* that ends or a restart do in the meantime; and the balance is never overdrawn.
THEOREM EffectsApplyOnce == Spec => []EffectsOnce
BY Invariance, PTL DEF IInv

\* The revision an active run started from is the character's: ErrRevisionConflict
\* in finishScriptEvent is unreachable.
THEOREM StoriesAreFresh == Spec => []StoryIsFresh
BY Invariance, PTL DEF IInv

\* Engine.active holds no run that nobody can advance or cancel: each belongs to
\* a call, to a connection that plays, to one whose run is about to be cancelled,
\* or to one that left while its reader was still starting the event.
THEOREM SessionsAreOwned == Spec => []SessionIsOwned
BY Invariance, KnownIsOwned, PTL

\* script_event_runs is numbered without a gap and has one active run at most.
THEOREM RowsStayInOrder == Spec => []RowsAreInOrder
BY Invariance, PTL DEF IInv

\* No run is driven by two connections, and none is advanced before its process
\* has been launched.
THEOREM RunsStayOwn == Spec => []RunsAreOwn
BY Invariance, PTL DEF IInv

=============================================================================
