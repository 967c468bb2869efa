------------------------ MODULE CharacterStoreProofs ------------------------
(***************************************************************************)
(* Proofs about CharacterStore.tla, for any number of calls, any operations *)
(* the callers may ask for, any items, limits and starting point.  The      *)
(* argument: a running call holds the row locks of all it has read and      *)
(* changed (CallOK), so a commit by another call leaves these alone         *)
(* (CommitOthers), and its own commit writes what it would have written     *)
(* alone.  Then the ledger follows from the statements of each method: what *)
(* they change adds up to the events they insert (EventsAccount), and the   *)
(* sum over the committed events grows by just these (TotalOfInserted).     *)
(***************************************************************************)
EXTENDS CharacterStore, FiniteSetTheorems, TLAPS

-----------------------------------------------------------------------------
(* Sums *)

Pick(S) == CHOOSE x \in S : TRUE
\* h[S] is the sum of g over S, for the subsets S of T.
Sums(h, g, T) ==
    h = [S \in SUBSET T |-> IF S = {} THEN 0 ELSE g[Pick(S)] + h[S \ {Pick(S)}]]

\* A property of the subsets of a finite set that fails for one fails for a
\* smallest one.
LEMMA Smallest ==
  ASSUME NEW T, IsFiniteSet(T), NEW F \in SUBSET SUBSET T, F # {}
  PROVE  \E S \in F : \A U \in F : U \subseteq S => U = S
<1>1. IsWellFoundedOn(StrictSubsetOrdering(T), FiniteSubsetsOf(T))
  BY FS_StrictSubsetOrderingWellFounded
<1>2. F \subseteq FiniteSubsetsOf(T)
  BY FS_Subset DEF FiniteSubsetsOf
<1>3. PICK S \in F : \A U \in F : <<U, S>> \notin StrictSubsetOrdering(T)
  BY <1>1, <1>2, WFMin
<1> QED
  BY <1>3 DEF StrictSubsetOrdering

\* The sums over the subsets of T are those over the subsets of any larger set.
LEMMA SumsAgree ==
  ASSUME NEW T, NEW U, T \subseteq U, IsFiniteSet(T), NEW f, NEW g, NEW h, NEW k,
         \A x \in T : f[x] = g[x], Sums(h, f, T), Sums(k, g, U)
  PROVE  \A S \in SUBSET T : h[S] = k[S]
<1> DEFINE F == {S \in SUBSET T : h[S] # k[S]}
<1> SUFFICES ASSUME F # {} PROVE FALSE
  OBVIOUS
<1>0. F \in SUBSET SUBSET T
  OBVIOUS
<1>1. PICK S \in F : \A R \in F : R \subseteq S => R = S
  <2> HIDE DEF F
  <2> QED
    BY <1>0, Smallest
<1>2. S # {} /\ S \subseteq T
  BY DEF Sums
<1>3. Pick(S) \in S
  BY <1>2 DEF Pick
<1>4. h[S \ {Pick(S)}] = k[S \ {Pick(S)}]
  BY <1>1, <1>2, <1>3
<1>5. h[S] = f[Pick(S)] + h[S \ {Pick(S)}]
  BY <1>2 DEF Sums
<1>6. k[S] = g[Pick(S)] + k[S \ {Pick(S)}]
  BY <1>2 DEF Sums
<1> QED
  BY <1>2, <1>3, <1>4, <1>5, <1>6

\* Every finite set has sums.
LEMMA SumsExist ==
  ASSUME NEW T, IsFiniteSet(T), NEW g
  PROVE  \E h : Sums(h, g, T)
<1> DEFINE F == {S \in SUBSET T : ~ \E h : Sums(h, g, S)}
<1> SUFFICES ASSUME F # {} PROVE FALSE
  OBVIOUS
<1>0. F \in SUBSET SUBSET T
  OBVIOUS
<1>1. PICK S \in F : \A R \in F : R \subseteq S => R = S
  <2> HIDE DEF F
  <2> QED
    BY <1>0, Smallest
<1> DEFINE k == [R \in SUBSET S |-> CHOOSE h : Sums(h, g, R)]
           less(R) == R \ {Pick(R)}
           h == [R \in SUBSET S |-> IF R = {} THEN 0
                                    ELSE g[Pick(R)] + k[less(R)][less(R)]]
<1>2. \A R \in SUBSET S : R # S => Sums(k[R], g, R)
  <2> SUFFICES ASSUME NEW R \in SUBSET S, R # S PROVE Sums(CHOOSE x : Sums(x, g, R), g, R)
    OBVIOUS
  <2>1. \E x : Sums(x, g, R)
    BY <1>1
  <2> QED
    BY <2>1
<1>3. \A R \in SUBSET S : R # {} => Pick(R) \in R /\ less(R) \in SUBSET S /\ less(R) # S
  <2> SUFFICES ASSUME NEW R \in SUBSET S, R # {} PROVE Pick(R) \in R
    OBVIOUS
  <2> QED
    BY DEF Pick
<1>4. \A R \in SUBSET S :
        h[R] = IF R = {} THEN 0 ELSE g[Pick(R)] + k[less(R)][less(R)]
  BY DEF h
<1>5. \A R \in SUBSET S : R # {} => h[less(R)] = k[less(R)][less(R)]
  <2> SUFFICES ASSUME NEW R \in SUBSET S, R # {}
               PROVE  h[less(R)] = k[less(R)][less(R)]
    OBVIOUS
  <2>1. PICK Q \in SUBSET S : Q = less(R)
    BY <1>3
  <2>2. Q # S /\ Sums(k[Q], g, Q)
    BY <1>2, <1>3, <2>1
  <2>3. ASSUME Q = {}
        PROVE  h[Q] = k[Q][Q]
    <3>1. k[Q][Q] = 0
      BY <2>2, <2>3 DEF Sums
    <3> QED
      BY <2>3, <3>1, <1>4
  <2>4. ASSUME Q # {}
        PROVE  h[Q] = k[Q][Q]
    <3>1. PICK P \in SUBSET S : P = less(Q)
      BY <2>4, <1>3
    <3>2. P # S /\ P \subseteq Q /\ Sums(k[P], g, P) /\ IsFiniteSet(P)
      BY <2>4, <3>1, <1>2, <1>3, FS_Subset
    <3>4. k[P][P] = k[Q][P]
      <4>1. ASSUME NEW a, NEW b, Sums(a, g, P), Sums(b, g, Q)
            PROVE  a[P] = b[P]
        <5>1. \A x \in P : g[x] = g[x]
          OBVIOUS
        <5>2. \A V \in SUBSET P : a[V] = b[V]
          BY ONLY <3>2, <4>1, <5>1, SumsAgree
        <5> QED
          BY <5>2
      <4> HIDE DEF k
      <4> QED
        BY <3>2, <2>2, <4>1
    <3>5. k[Q][Q] = g[Pick(Q)] + k[Q][P]
      BY <2>2, <2>4, <3>1 DEF Sums
    <3>6. h[Q] = g[Pick(Q)] + k[P][P]
      BY <2>4, <3>1, <1>4
    <3> QED
      BY <3>4, <3>5, <3>6
  <2> QED
    BY <2>1, <2>3, <2>4
<1>6. h = [R \in SUBSET S |-> IF R = {} THEN 0 ELSE g[Pick(R)] + h[less(R)]]
  <2> DEFINE e == [R \in SUBSET S |-> IF R = {} THEN 0 ELSE g[Pick(R)] + h[less(R)]]
  <2>1. \A R \in SUBSET S : h[R] = e[R]
    <3> HIDE DEF h
    <3> QED
      BY <1>4, <1>5
  <2>2. DOMAIN h = SUBSET S /\ DOMAIN e = SUBSET S
    OBVIOUS
  <2>3. h = [R \in DOMAIN h |-> h[R]]
    OBVIOUS
  <2> QED
    BY <2>1, <2>2, <2>3
<1>7. Sums(h, g, S)
  BY <1>6 DEF Sums
<1> QED
  BY <1>7, <1>1

\* A sum does not depend on the order in which its terms are picked.
LEMMA SumsTakeOut ==
  ASSUME NEW T, IsFiniteSet(T), NEW g, NEW h, Sums(h, g, T), \A x \in T : g[x] \in Int
  PROVE  /\ \A S \in SUBSET T : h[S] \in Int
         /\ \A S \in SUBSET T : \A x \in S : h[S] = g[x] + h[S \ {x}]
<1>1. \A S \in SUBSET T : S # {} =>
        /\ Pick(S) \in S /\ g[Pick(S)] \in Int
        /\ h[S] = g[Pick(S)] + h[S \ {Pick(S)}]
  <2> SUFFICES ASSUME NEW S \in SUBSET T, S # {}
               PROVE  Pick(S) \in S /\ h[S] = g[Pick(S)] + h[S \ {Pick(S)}]
    OBVIOUS
  <2>1. Pick(S) \in S
    BY DEF Pick
  <2> QED
    BY <2>1 DEF Sums
<1>2. h[{}] = 0
  BY DEF Sums
<1>3. \A S \in SUBSET T : h[S] \in Int
  <2> DEFINE F == {S \in SUBSET T : h[S] \notin Int}
  <2> SUFFICES ASSUME F # {} PROVE FALSE
    OBVIOUS
  <2>1. F \in SUBSET SUBSET T
    OBVIOUS
  <2>2. PICK S \in F : \A R \in F : R \subseteq S => R = S
    <3> HIDE DEF F
    <3> QED
      BY <2>1, Smallest
  <2>3. S # {} /\ S \in SUBSET T
    BY <1>2
  <2>4. S \ {Pick(S)} \in SUBSET T /\ S \ {Pick(S)} # S
    BY <2>3, <1>1
  <2>5. h[S \ {Pick(S)}] \in Int
    BY <2>2, <2>4
  <2> QED
    BY <2>3, <2>5, <1>1
<1>4. \A S \in SUBSET T : \A x \in S : h[S] = g[x] + h[S \ {x}]
  <2> DEFINE F == {S \in SUBSET T : ~ \A x \in S : h[S] = g[x] + h[S \ {x}]}
  <2> SUFFICES ASSUME F # {} PROVE FALSE
    OBVIOUS
  <2>1. F \in SUBSET SUBSET T
    OBVIOUS
  <2>2. PICK S \in F : \A R \in F : R \subseteq S => R = S
    <3> HIDE DEF F
    <3> QED
      BY <2>1, Smallest
  <2>3. PICK x \in S : h[S] # g[x] + h[S \ {x}]
    BY <2>2
  <2>4. PICK p \in S : p = Pick(S) /\ h[S] = g[p] + h[S \ {p}]
    BY <2>2, <1>1
  <2>5. PICK A \in SUBSET T, B \in SUBSET T, C \in SUBSET T :
          A = S \ {p} /\ B = S \ {x} /\ C = S \ {p, x}
    BY <2>2
  <2>6. p # x
    BY <2>3, <2>4
  <2>7. /\ x \in A /\ A # S /\ A \subseteq S /\ C = A \ {x}
        /\ p \in B /\ B # S /\ B \subseteq S /\ C = B \ {p}
    BY <2>5, <2>6
  <2>8. h[A] = g[x] + h[C] /\ h[B] = g[p] + h[C]
    BY <2>2, <2>7
  <2>9. h[A] \in Int /\ h[B] \in Int /\ h[C] \in Int /\ g[p] \in Int /\ g[x] \in Int
    BY <2>2, <1>3
  <2> QED
    BY <2>3, <2>4, <2>5, <2>8, <2>9
<1> QED
  BY <1>3, <1>4

\* SumFunction is defined by choice; this is what it chooses.
LEMMA SumIsSums ==
  ASSUME NEW T, IsFiniteSet(T), NEW g, DOMAIN g = T
  PROVE  \E h : Sums(h, g, T) /\ SumFunction(g) = h[T]
<1>1. SumFunction(g) = (CHOOSE h : Sums(h, g, T))[T]
  BY DEF SumFunction, SumFunctionOnSet, FoldFunctionOnSet, MapThenFoldSet, Sums, Pick
<1>2. \E h : Sums(h, g, T)
  BY SumsExist
<1>3. Sums(CHOOSE h : Sums(h, g, T), g, T)
  BY <1>2
<1> QED
  BY <1>1, <1>3

\* Change, of any set of rows.
Total(R, c) == SumFunction([r \in R |-> Amount(r, c)])

\* No rows change nothing.
LEMMA TotalOfNone == \A c : Total({}, c) = 0
<1> TAKE c
<1>1. PICK g : g = [r \in {} |-> Amount(r, c)]
  OBVIOUS
<1>2. IsFiniteSet({}) /\ DOMAIN g = {}
  BY <1>1, FS_EmptySet
<1>3. PICK h : Sums(h, g, {}) /\ SumFunction(g) = h[{}]
  BY ONLY <1>2, SumIsSums
<1>4. h[{}] = 0
  BY <1>3 DEF Sums
<1> QED
  BY <1>1, <1>3, <1>4 DEF Total

\* A row inserted adds its amount.
LEMMA TotalOfOneMore ==
  ASSUME NEW R, IsFiniteSet(R), NEW x, x \notin R, NEW c,
         \A r \in R \cup {x} : Amount(r, c) \in Int
  PROVE  Total(R, c) \in Int /\ Total(R \cup {x}, c) = Total(R, c) + Amount(x, c)
<1>1. PICK U : U = R \cup {x}
  OBVIOUS
<1>2. PICK f : f = [r \in R |-> Amount(r, c)]
  OBVIOUS
<1>3. PICK g : g = [r \in U |-> Amount(r, c)]
  OBVIOUS
<1>4. /\ IsFiniteSet(U) /\ R \subseteq U /\ x \in U /\ U \ {x} = R
      /\ R \in SUBSET R /\ R \in SUBSET U /\ U \in SUBSET U
  BY <1>1, FS_AddElement
<1>5. /\ DOMAIN f = R /\ DOMAIN g = U
      /\ \A r \in R : f[r] = g[r]
      /\ \A r \in R : f[r] \in Int
      /\ \A r \in U : g[r] \in Int
      /\ g[x] = Amount(x, c)
  BY <1>1, <1>2, <1>3, <1>4
<1>6. PICK h : Sums(h, f, R) /\ SumFunction(f) = h[R]
  BY ONLY IsFiniteSet(R), <1>5, SumIsSums
<1>7. PICK k : Sums(k, g, U) /\ SumFunction(g) = k[U]
  BY ONLY <1>4, <1>5, SumIsSums
<1>8. h[R] = k[R]
  <2>1. Sums(h, f, R) /\ Sums(k, g, U) /\ R \subseteq U /\ R \in SUBSET R
    BY <1>4, <1>6, <1>7
  <2>2. \A r \in R : f[r] = g[r]
    BY <1>5
  <2> QED
    BY ONLY IsFiniteSet(R), <2>1, <2>2, SumsAgree
<1>9. h[R] \in Int
  <2>1. Sums(h, f, R) /\ R \in SUBSET R
    BY <1>4, <1>6
  <2>2. \A r \in R : f[r] \in Int
    BY <1>5
  <2>3. \A S \in SUBSET R : h[S] \in Int
    BY ONLY IsFiniteSet(R), <2>1, <2>2, SumsTakeOut
  <2> QED
    BY <2>1, <2>3
<1>10. k[U] = g[x] + k[U \ {x}]
  <2>1. Sums(k, g, U) /\ IsFiniteSet(U) /\ U \in SUBSET U /\ x \in U
    BY <1>4, <1>7
  <2>2. \A r \in U : g[r] \in Int
    BY <1>5
  <2> QED
    BY ONLY <2>1, <2>2, SumsTakeOut
<1>11. k[U] = h[R] + Amount(x, c)
  <2>1. Amount(x, c) \in Int
    BY <1>1, <1>4
  <2>2. k[U] = Amount(x, c) + h[R]
    BY <1>4, <1>5, <1>8, <1>10
  <2> QED
    BY <1>9, <2>1, <2>2
<1>12. Total(R, c) = h[R]
  BY <1>2, <1>6 DEF Total
<1>13. Total(R \cup {x}, c) = k[U]
  BY <1>1, <1>3, <1>7 DEF Total
<1> QED
  BY <1>9, <1>11, <1>12, <1>13

-----------------------------------------------------------------------------
(* The statements of the methods, and their order. *)

Kinds == {"credit", "spend", "grant", "consume", "award", "change", "use", "buy",
          "arcade", "talk", "delete"}
\* The statements before the i-th.
Before(kind, i) == {Program[kind][j] : j \in 1..(i - 1)}

\* The methods as the statements they send.
LEMMA Programs ==
  /\ Program["credit"] = <<"key", "economy", "pay">>
  /\ Program["spend"] = <<"pay", "key", "economy">>
  /\ Program["grant"] = <<"key", "economy", "stack">>
  /\ Program["consume"] = <<"take", "store", "economy">>
  /\ Program["award"] = <<"key", "progress", "lock", "xp">>
  /\ Program["change"] = <<"lock", "hp", "key", "progress">>
  /\ Program["use"] = <<"take", "full", "store", "economy", "lock", "hp", "progress">>
  /\ Program["buy"] = <<"lookup", "pay", "prize", "sale", "key", "economy">>
  /\ Program["arcade"] = <<"best", "score">>
  /\ Program["talk"] = <<"dialogue">>
  /\ Program["delete"] = <<"hide">>
BY DEF Program, CreditYen, SpendYen, GrantItem, ConsumeItem, AwardExperience, ChangeHP,
       UseHealingItem, PurchaseVendingDrink, SubmitArcadeScore, SaveDialogueState,
       SoftDeleteCharacter

\* How many statements they are.
LEMMA StatementCounts ==
  /\ \A kind \in Kinds : Len(Program[kind]) \in Nat /\ Len(Program[kind]) >= 1
  /\ Len(Program["buy"]) = 6 /\ Len(PurchaseVendingDrink) = 6
<1>0. Len(Program["buy"]) = 6 /\ Len(PurchaseVendingDrink) = 6
  BY Programs DEF PurchaseVendingDrink
<1> SUFFICES ASSUME NEW kind \in Kinds
             PROVE  Len(Program[kind]) \in Nat /\ Len(Program[kind]) >= 1
  BY <1>0
<1>1. CASE kind = "credit"
  BY <1>1, Programs
<1>2. CASE kind = "spend"
  BY <1>2, Programs
<1>3. CASE kind = "grant"
  BY <1>3, Programs
<1>4. CASE kind = "consume"
  BY <1>4, Programs
<1>5. CASE kind = "award"
  BY <1>5, Programs
<1>6. CASE kind = "change"
  BY <1>6, Programs
<1>7. CASE kind = "use"
  BY <1>7, Programs
<1>8. CASE kind = "buy"
  BY <1>8, Programs
<1>9. CASE kind = "arcade"
  BY <1>9, Programs
<1>10. CASE kind = "talk"
  BY <1>10, Programs
<1>11. CASE kind = "delete"
  BY <1>11, Programs
<1> QED
  BY <1>1, <1>2, <1>3, <1>4, <1>5, <1>6, <1>7, <1>8, <1>9, <1>10, <1>11 DEF Kinds

\* Which method sends which statement.
LEMMA StatementKinds ==
  ASSUME NEW kind \in Kinds, NEW i \in 1..Len(Program[kind]),
         NEW st, st = Program[kind][i]
  PROVE  /\ st = "pay" => kind \in {"credit", "spend", "buy"}
         /\ st = "economy" => kind \in {"credit", "spend", "grant", "consume", "use", "buy"}
         /\ st = "progress" => kind \in {"award", "change", "use"}
         /\ st = "stack" => kind = "grant"
         /\ st \in {"take", "store"} => kind \in {"consume", "use"}
         /\ st \in {"lookup", "prize", "sale"} => kind = "buy"
         /\ st = "lock" => kind \in {"award", "change", "use"}
         /\ st = "full" => kind = "use"
         /\ st = "xp" => kind = "award"
         /\ st = "hp" => kind \in {"change", "use"}
         /\ st \in {"best", "score"} => kind = "arcade"
         /\ st = "dialogue" => kind = "talk"
         /\ st = "hide" => kind = "delete"
         /\ st = "key" => kind \notin {"consume", "use"}
<1>1. CASE kind = "credit"
  BY <1>1, Programs
<1>2. CASE kind = "spend"
  BY <1>2, Programs
<1>3. CASE kind = "grant"
  BY <1>3, Programs
<1>4. CASE kind = "consume"
  BY <1>4, Programs
<1>5. CASE kind = "award"
  BY <1>5, Programs
<1>6. CASE kind = "change"
  BY <1>6, Programs
<1>7. CASE kind = "use"
  BY <1>7, Programs
<1>8. CASE kind = "buy"
  BY <1>8, Programs
<1>9. CASE kind = "arcade"
  BY <1>9, Programs
<1>10. CASE kind = "talk"
  BY <1>10, Programs
<1>11. CASE kind = "delete"
  BY <1>11, Programs
<1> QED
  BY <1>1, <1>2, <1>3, <1>4, <1>5, <1>6, <1>7, <1>8, <1>9, <1>10, <1>11 DEF Kinds

\* Which method has sent which statement.
LEMMA BeforeKinds ==
  ASSUME NEW kind \in Kinds, NEW i \in Nat, i <= Len(Program[kind]) + 1,
         NEW st, st \in Before(kind, i)
  PROVE  /\ st = "pay" => kind \in {"credit", "spend", "buy"}
         /\ st = "economy" => kind \in {"credit", "spend", "grant", "consume", "use", "buy"}
         /\ st = "progress" => kind \in {"award", "change", "use"}
         /\ st = "stack" => kind = "grant"
         /\ st \in {"take", "store"} => kind \in {"consume", "use"}
         /\ st \in {"lookup", "prize", "sale"} => kind = "buy"
         /\ st = "lock" => kind \in {"award", "change", "use"}
         /\ st = "full" => kind = "use"
         /\ st = "xp" => kind = "award"
         /\ st = "hp" => kind \in {"change", "use"}
         /\ st \in {"best", "score"} => kind = "arcade"
         /\ st = "dialogue" => kind = "talk"
         /\ st = "hide" => kind = "delete"
         /\ st = "key" => kind \notin {"consume", "use"}
<1>1. Len(Program[kind]) \in Nat
  BY StatementCounts
<1>2. PICK j \in 1..(i - 1) : st = Program[kind][j]
  BY DEF Before
<1>3. j \in 1..Len(Program[kind])
  BY <1>1
<1> QED
  BY <1>2, <1>3, StatementKinds

\* What a method has done before it sends a statement.
LEMMA StatementOrder ==
  ASSUME NEW kind \in Kinds, NEW i \in 1..Len(Program[kind]),
         NEW st, st = Program[kind][i], NEW B, B = Before(kind, i)
  PROVE  /\ st \notin B
         /\ st = "progress" /\ kind # "award" => "hp" \in B
         /\ st = "hp" => "lock" \in B
         /\ st = "hp" /\ kind = "use" => "full" \in B
         /\ st = "xp" => "lock" \in B
         /\ st = "store" => "take" \in B
         /\ st = "score" => "best" \in B
         /\ st \in {"hp", "lock", "full", "take", "best"} /\ kind # "award" => "progress" \notin B
         /\ st \in {"lock", "full"} => "hp" \notin B /\ "xp" \notin B
         /\ st = "prize" => "sale" \notin B /\ "economy" \notin B
         /\ st = "take" => "store" \notin B
         /\ st = "best" => "score" \notin B
         /\ st = "lookup" => B = {}
<1>1. CASE kind = "credit"
  BY <1>1, Programs DEF Before
<1>2. CASE kind = "spend"
  BY <1>2, Programs DEF Before
<1>3. CASE kind = "grant"
  BY <1>3, Programs DEF Before
<1>4. CASE kind = "consume"
  BY <1>4, Programs DEF Before
<1>5. CASE kind = "award"
  BY <1>5, Programs DEF Before
<1>6. CASE kind = "change"
  BY <1>6, Programs DEF Before
<1>7. CASE kind = "use"
  BY <1>7, Programs DEF Before
<1>8. CASE kind = "buy"
  BY <1>8, Programs DEF Before
<1>9. CASE kind = "arcade"
  BY <1>9, Programs DEF Before
<1>10. CASE kind = "talk"
  BY <1>10, Programs DEF Before
<1>11. CASE kind = "delete"
  BY <1>11, Programs DEF Before
<1> QED
  BY <1>1, <1>2, <1>3, <1>4, <1>5, <1>6, <1>7, <1>8, <1>9, <1>10, <1>11 DEF Kinds

\* What a method has done when it commits.
LEMMA StatementsAll ==
  ASSUME NEW kind \in Kinds, NEW B, B = Before(kind, Len(Program[kind]) + 1)
  PROVE  /\ kind \in {"credit", "spend", "buy"} => "pay" \in B
         /\ kind \in {"credit", "spend", "grant", "consume", "use", "buy"} => "economy" \in B
         /\ kind \in {"award", "change", "use"} => "progress" \in B
         /\ kind \in {"change", "use"} => "hp" \in B /\ "lock" \in B
         /\ kind = "award" => "xp" \in B
         /\ kind = "grant" => "stack" \in B
         /\ kind \in {"consume", "use"} => "store" \in B
         /\ kind = "buy" => "prize" \in B /\ "sale" \in B
         /\ kind = "arcade" => "score" \in B
         /\ kind = "talk" => "dialogue" \in B
         /\ kind \in {"credit", "spend", "grant", "award", "change", "buy"} => "key" \in B
<1>1. CASE kind = "credit"
  BY <1>1, Programs DEF Before
<1>2. CASE kind = "spend"
  BY <1>2, Programs DEF Before
<1>3. CASE kind = "grant"
  BY <1>3, Programs DEF Before
<1>4. CASE kind = "consume"
  BY <1>4, Programs DEF Before
<1>5. CASE kind = "award"
  BY <1>5, Programs DEF Before
<1>6. CASE kind = "change"
  BY <1>6, Programs DEF Before
<1>7. CASE kind = "use"
  BY <1>7, Programs DEF Before
<1>8. CASE kind = "buy"
  BY <1>8, Programs DEF Before
<1>9. CASE kind = "arcade"
  BY <1>9, Programs DEF Before
<1>10. CASE kind = "talk"
  BY <1>10, Programs DEF Before
<1>11. CASE kind = "delete"
  BY <1>11, Programs DEF Before
<1> QED
  BY <1>1, <1>2, <1>3, <1>4, <1>5, <1>6, <1>7, <1>8, <1>9, <1>10, <1>11 DEF Kinds

-----------------------------------------------------------------------------
(* A call that another one leaves alone *)

\* What a call has changed depends on the columns it has changed only.
LEMMA ChangesFrame ==
  ASSUME NEW k, NEW d, NEW e, \A c \in Changed(k) : d[c] = e[c], ChangesOK(k, d)
  PROVE  ChangesOK(k, e)
BY DEF ChangesOK

\* What a call has read depends on the columns it has read only.
LEMMA ReadsFrame ==
  ASSUME NEW k, NEW d, NEW e, \A c \in Known(k) : d[c] = e[c], ReadsOK(k, d)
  PROVE  ReadsOK(k, e)
BY DEF ReadsOK

\* A call stays as it was while others leave alone what it has locked.
LEMMA CallFrame ==
  ASSUME NEW t \in Calls, CallOK(t), tx'[t] = tx[t],
         \A c \in Changed(tx[t]) \cup Known(tx[t]) : db'[c] = db[c],
         \A l \in locks : l.by = t => l \in locks',
         rows \subseteq rows',
         "key" \in Past(tx[t]) /\ Op(t).key # Empty =>
            \A r \in rows' \ rows : ~(r.table = EventTable(Op(t)) /\ r.key = Op(t).key),
         "sale" \in Past(tx[t]) =>
            \A r \in rows' \ rows : ~(r.table = "purchases" /\ r.key = Op(t).key)
  PROVE  CallOK(t)'
<1> DEFINE k == tx[t]
<1>1. /\ k.at <= Len(Program[k.op.kind]) + 1 /\ ChangesOK(k, db) /\ ReadsOK(k, db)
      /\ k.rows = Inserted(t, k)
  BY DEF CallOK
<1>2. ChangesOK(k, db') /\ ReadsOK(k, db')
  <2>1. \A c \in Changed(k) : db[c] = db'[c]
    OBVIOUS
  <2>2. \A c \in Known(k) : db[c] = db'[c]
    OBVIOUS
  <2> QED
    BY <1>1, <2>1, <2>2, ChangesFrame, ReadsFrame
<1>3. \A row : Holds(t, row) => Holds(t, row)'
  BY DEF Holds
<1>4. \A c \in Changed(k) \cup Known(k) : Holds(t, Row(c))'
  BY <1>3 DEF CallOK
<1>5. "key" \in Past(k) /\ k.op.key # Empty =>
        Holds(t, <<EventTable(k.op), k.op.key>>)' /\ ~Taken(EventTable(k.op), k.op.key)'
  BY <1>3 DEF CallOK, Taken, Op
<1>6. "sale" \in Past(k) => Holds(t, <<"purchases", k.op.key>>)' /\ Sale(k.op)' = {}
  BY <1>3 DEF CallOK, Sale, Op
<1>7. Replayed(k) => \E r \in Sale(k.op)' : r.machine = k.op.machine /\ r.win = k.win
  BY DEF CallOK, Sale
<1> QED
  BY <1>1, <1>2, <1>4, <1>5, <1>6, <1>7 DEF CallOK

\* Calls that have not committed count for nothing.
LEMMA StoreFrame ==
  ASSUME IInv, TypeOK', db' = db, rows' = rows,
         \A t \in Calls : \/ tx'[t] = tx[t]
                          \/ /\ tx[t].answer \notin {"done", "lost"}
                             /\ tx'[t].answer \notin {"done", "lost"}
  PROVE  LedgerAgrees' /\ ChargedOnce' /\ SavesAreKept'
<1>1. \A r \in rows : tx'[r.by] = tx[r.by]
  BY DEF IInv, TypeOK
<1>2. LedgerAgrees'
  <2>1. WithinLimits'
    BY DEF IInv, LedgerAgrees, WithinLimits
  <2>2. ItemsHeal'
    BY <1>1 DEF IInv, LedgerAgrees, ItemsHeal, Op
  <2>3. \A c : Change(c)' = Change(c)
    BY DEF Change, Amount
  <2> QED
    BY <2>1, <2>2, <2>3 DEF IInv, LedgerAgrees
<1>3. ChargedOnce'
  <2>1. \A s \in Calls : tx'[s].answer = "done" => tx'[s] = tx[s]
    OBVIOUS
  <2>2. \A o : Sale(o)' = Sale(o)
    BY DEF Sale
  <2> QED
    BY <2>1, <2>2 DEF IInv, ChargedOnce, Op
<1>4. \A kind : Accepted(kind)' = Accepted(kind)
  BY DEF Accepted, Op
<1>5. SavesAreKept'
  <2>1. \A t \in Accepted("arcade") : tx'[t] = tx[t]
    BY DEF Accepted
  <2> QED
    BY <1>4, <2>1 DEF IInv, SavesAreKept, Op
<1> QED
  BY <1>2, <1>3, <1>5

-----------------------------------------------------------------------------
(* One call moves on, and nothing is committed *)

\* A step of one call that commits nothing.
LEMMA CallMoves ==
  ASSUME IInv, NEW s \in Calls, NEW k, tx' = [tx EXCEPT ![s] = k], db' = db, rows' = rows,
         CallType(s, k), k.answer \notin {"done", "lost"},
         tx[s].answer \notin {"done", "lost"},
         \A l \in locks : l.by # s => l \in locks',
         \A l \in locks' : l.by \in Calls /\ l.mode \in {"share", "nokey", "update"},
         Exclusive', Running(s)' => CallOK(s)'
  PROVE  IInv'
<1>1. tx'[s] = k /\ \A t \in Calls : t # s => tx'[t] = tx[t]
  BY DEF IInv, TypeOK
<1>2. TypeOK'
  BY <1>1 DEF IInv, TypeOK
<1>3. ASSUME NEW t \in Calls, Running(t)'
      PROVE  CallOK(t)'
  <2>1. CASE t = s
    BY <2>1, <1>3
  <2>2. CASE t # s
    <3>1. CallOK(t) /\ tx'[t] = tx[t]
      BY <2>2, <1>1, <1>3 DEF IInv, Running
    <3>2. \A l \in locks : l.by = t => l \in locks'
      BY <2>2
    <3>3. rows \subseteq rows' /\ rows' \ rows = {}
      OBVIOUS
    <3> QED
      BY <3>1, <3>2, <3>3, CallFrame
  <2> QED
    BY <2>1, <2>2
<1>4. \A t \in Calls : \/ tx'[t] = tx[t]
                       \/ /\ tx[t].answer \notin {"done", "lost"}
                          /\ tx'[t].answer \notin {"done", "lost"}
  BY <1>1
<1>5. LedgerAgrees' /\ ChargedOnce' /\ SavesAreKept'
  BY <1>2, <1>4, StoreFrame
<1> QED
  BY <1>2, <1>3, <1>5 DEF IInv

\* A call that was refused.
LEMMA RefusedCall == \A s : CallType(s, Refused) /\ Refused.answer = "refused"
<1>1. PICK k : k = Refused
  OBVIOUS
<1>2. k = Call([kind |-> "none"], 1, FALSE, "refused")
  BY <1>1 DEF Refused
<1>3. PICK w \in BOOLEAN : w = FALSE
  OBVIOUS
<1>4. k = Call([kind |-> "none"], 1, w, "refused")
  BY <1>2, <1>3
<1>5. /\ k = Fields(k)
      /\ k.op.kind = "none" /\ k.at = 1 /\ k.win = w /\ k.answer = "refused"
  BY <1>4 DEF Call, Fields
<1> QED
  BY <1>1, <1>5 DEF CallType

\* A rollback changes nothing but the call that ends.
LEMMA RollbackIInv ==
  ASSUME IInv, NEW s \in Calls, Running(s), Rollback(s)
  PROVE  IInv'
<1>1. CallType(s, Refused) /\ Refused.answer = "refused" /\ tx[s].answer = "open"
  BY RefusedCall DEF Running
<1>2. ~Running(s)'
  BY <1>1 DEF Rollback, IInv, TypeOK, Running
<1>3. locks' \subseteq locks /\ \A l \in locks : l.by # s => l \in locks'
  BY DEF Rollback, Released
<1>4. Exclusive'
  BY <1>3 DEF IInv, Exclusive
<1>5. \A l \in locks' : l.by \in Calls /\ l.mode \in {"share", "nokey", "update"}
  BY <1>3 DEF IInv, TypeOK
<1>6. tx' = [tx EXCEPT ![s] = Refused] /\ db' = db /\ rows' = rows
  BY DEF Rollback
<1>7. Refused.answer \notin {"done", "lost"} /\ tx[s].answer \notin {"done", "lost"}
  BY <1>1
<1> QED
  BY <1>1, <1>2, <1>3, <1>4, <1>5, <1>6, <1>7, CallMoves

\* The locks of a statement are those of its call.
LEMMA WantsType ==
  ASSUME NEW s
  PROVE  \A w \in Wants(s) : w.by = s /\ w.mode \in {"share", "nokey", "update"}
<1> SUFFICES ASSUME NEW w \in Wants(s)
             PROVE  w.by = s /\ w.mode \in {"share", "nokey", "update"}
  OBVIOUS
<1>1. \E row, mode : w = [by |-> s, row |-> row, mode |-> mode]
                    /\ mode \in {"share", "nokey", "update"}
  BY DEF Wants, ReadMode
<1> QED
  BY <1>1

\* A statement that does not wait takes its locks without conflict.
LEMMA LocksTaken ==
  ASSUME IInv, NEW s \in Calls, ~Waits(s), locks' = locks \cup Wants(s)
  PROVE  /\ Exclusive'
         /\ \A l \in locks' : l.by \in Calls /\ l.mode \in {"share", "nokey", "update"}
<1>1. \A w \in Wants(s) : w.by = s /\ w.mode \in {"share", "nokey", "update"}
  BY WantsType
<1>2. \A l \in locks : l.by \in Calls /\ l.mode \in {"share", "nokey", "update"}
  BY DEF IInv, TypeOK
<1>3. \A w \in Wants(s), l \in locks : l.row = w.row /\ Clash(l.mode, w.mode) => l.by = s
  BY <1>2 DEF Waits, WaitsFor
<1>4. \A m1, m2 : Clash(m1, m2) => Clash(m2, m1)
  BY DEF Clash
<1>5. Exclusive'
  BY <1>1, <1>3, <1>4 DEF IInv, Exclusive
<1> QED
  BY <1>1, <1>2, <1>5

\* Two calls never hold a row for writing.
LEMMA OneHolder ==
  ASSUME IInv, NEW s, NEW t, NEW row, Holds(s, row), Holds(t, row)
  PROVE  s = t
<1>1. PICK l1 \in locks : l1.by = s /\ l1.row = row /\ l1.mode # "share"
  BY DEF Holds
<1>2. PICK l2 \in locks : l2.by = t /\ l2.row = row /\ l2.mode # "share"
  BY DEF Holds
<1>3. l1.mode \in {"nokey", "update"} /\ l2.mode \in {"nokey", "update"}
  BY <1>1, <1>2 DEF IInv, TypeOK
<1> QED
  BY <1>1, <1>2, <1>3 DEF IInv, Exclusive, Clash

\* What is known of the operation of a call.
LEMMA OperationFacts ==
  ASSUME NEW s \in Calls, NEW o \in Ops[s]
  PROVE  /\ o \in Operation /\ o.kind \in Kinds /\ o.win \in BOOLEAN
         /\ o.amount \in Nat /\ o.yen \in Int /\ o.hp \in Int
         /\ o.kind \in {"grant", "consume", "use", "buy"} => o.item \in Items
         /\ o.kind \in {"grant", "consume", "use"} => o.amount > 0
         /\ o.kind \in {"credit", "spend"} => o.item = Empty
         /\ o.kind \notin {"credit", "spend", "buy"} => o.yen = 0
         /\ o.kind = "use" => o.hp > 0
         /\ o.kind = "consume" => o.key = Empty
         /\ o.kind = "buy" => o.key # Empty
<1>1. o \in Operation
  BY OpsAssumption
<1>2. /\ o.kind \in Kinds /\ o.win \in BOOLEAN
      /\ o.amount \in Nat /\ o.yen \in Int /\ o.hp \in Int
  BY <1>1 DEF Operation, Kinds
<1> QED
  BY <1>1, <1>2, OpsAssumption

\* The columns of the character are not items.
LEMMA ColumnFacts ==
  /\ \A c \in {"alive", "yen", "hp", "xp", "score", "dialogue"} :
        c \in Columns /\ c \notin Items /\ c # Empty
  /\ Items \subseteq Columns /\ Empty \notin Items
  /\ \A c \in Columns : c \notin {"alive", "yen", "hp", "xp", "score", "dialogue"} => c \in Items
BY ColumnsAssumption DEF Columns, Empty

\* A call that has just begun.
LEMMA NewCall ==
  ASSUME NEW s \in Calls, NEW o \in Ops[s], NEW k, k = Fields(k), k.op = o, k.at = 1,
         k.answer = "open", k.rows = {}, k.new = Nothing, k.seen = Nothing, k.win \in BOOLEAN
  PROVE  /\ CallType(s, k) /\ k.op = o /\ k.answer = "open"
         /\ k.at <= Len(Program[k.op.kind]) + 1
         /\ Past(k) = {} /\ ~Replayed(k) /\ Changed(k) = {} /\ Known(k) = {}
         /\ \A d : ChangesOK(k, d) /\ ReadsOK(k, d)
         /\ k.rows = Inserted(s, k)
<1>1. o.kind \in Kinds
  BY OperationFacts
<1>3. CallType(s, k)
  BY <1>1 DEF CallType
<1>4. Len(Program[o.kind]) >= 1
  BY <1>1, StatementCounts
<1>5. ~Replayed(k)
  BY DEF Replayed, PurchaseVendingDrink
<1>6. Past(k) = {}
  <2>1. \A i \in 1..(k.at - 1) : FALSE
    OBVIOUS
  <2> QED
    BY <1>5, <2>1 DEF Past
<1>7. Changed(k) = {} /\ Known(k) = {}
  BY <1>6 DEF Changed, Known
<1>8. Inserted(s, k) = {}
  BY <1>6 DEF Inserted
<1>9. \A d : ChangesOK(k, d) /\ ReadsOK(k, d)
  BY <1>6, <1>7 DEF ChangesOK, ReadsOK, Nothing
<1> QED
  BY <1>3, <1>4, <1>5, <1>6, <1>7, <1>8, <1>9

\* A call begins, or is refused by its handler.
LEMMA BeginIInv ==
  ASSUME IInv, NEW s \in Calls, NEW o \in Ops[s], Begin(s, o)
  PROVE  IInv'
<1>1. tx[s].answer = "open" /\ UNCHANGED <<db, rows, locks>>
  <2>1. tx[s] = NoCall /\ UNCHANGED <<db, rows, locks>>
    BY DEF IInv, TypeOK, CallType, Begin, HandleVendingPurchase, ArcadeScoreHandler,
           CharacterHandler, StoreCall, Free, Ask, Refuse
  <2> QED
    BY <2>1 DEF NoCall, Call
<1>0. PICK w \in BOOLEAN : w = o.win
  BY OperationFacts
<1>2. PICK k \in {Call(o, 1, w, "open"), Refused} : tx' = [tx EXCEPT ![s] = k]
  BY <1>0 DEF Begin, HandleVendingPurchase, ArcadeScoreHandler, CharacterHandler, StoreCall,
              Ask, Refuse
<1>3. /\ \A l \in locks : l.by # s => l \in locks'
      /\ \A l \in locks' : l.by \in Calls /\ l.mode \in {"share", "nokey", "update"}
  BY <1>1 DEF IInv, TypeOK
<1>4. Exclusive'
  BY <1>1 DEF IInv, Exclusive
<1>5. tx'[s] = k
  BY <1>2 DEF IInv, TypeOK
<1>6. CASE k = Refused
  <2>1. CallType(s, k) /\ k.answer = "refused" /\ ~Running(s)'
    BY <1>5, <1>6, RefusedCall DEF Running
  <2>2. k.answer \notin {"done", "lost"} /\ tx[s].answer \notin {"done", "lost"}
    BY <1>1, <2>1
  <2> QED
    BY <1>1, <1>2, <1>3, <1>4, <2>1, <2>2, CallMoves
<1>7. CASE k = Call(o, 1, w, "open")
  <2>0. /\ k = Fields(k) /\ k.op = o /\ k.at = 1 /\ k.answer = "open"
        /\ k.rows = {} /\ k.new = Nothing /\ k.seen = Nothing /\ k.win \in BOOLEAN
    BY <1>7 DEF Call, Fields
  <2>1. /\ CallType(s, k) /\ k.op = o /\ k.answer = "open"
        /\ k.at <= Len(Program[k.op.kind]) + 1
        /\ Past(k) = {} /\ ~Replayed(k) /\ Changed(k) = {} /\ Known(k) = {}
        /\ \A d : ChangesOK(k, d) /\ ReadsOK(k, d)
        /\ k.rows = Inserted(s, k)
    BY <2>0, NewCall
  <2>2. CallOK(s)'
    BY <1>5, <2>1 DEF CallOK
  <2>3. k.answer \notin {"done", "lost"} /\ tx[s].answer \notin {"done", "lost"}
    BY <1>1, <2>1
  <2> QED
    BY <1>1, <1>2, <1>3, <1>4, <2>1, <2>2, <2>3, CallMoves
<1> QED
  BY <1>6, <1>7

-----------------------------------------------------------------------------
(* The end of a call *)

\* A call at its end has sent everything, or was only answered again.
LEMMA PastAtEnd ==
  ASSUME IInv, NEW s \in Calls, Running(s), AtEnd(s), NEW k, k = tx[s]
  PROVE  /\ k.op \in Ops[s] /\ k.op.kind \in Kinds /\ k.win \in BOOLEAN
         /\ IF Replayed(k) THEN Past(k) = {}
            ELSE Past(k) = Before(k.op.kind, Len(Program[k.op.kind]) + 1)
<1>1. CallType(s, k) /\ CallOK(s)
  BY DEF IInv, TypeOK
<1>2. k.op \in Ops[s] /\ k.win \in BOOLEAN /\ k.at \in Nat
  BY <1>1 DEF CallType, Running
<1>3. k.op.kind \in Kinds /\ Len(Program[k.op.kind]) \in Nat
  BY <1>2, OperationFacts, StatementCounts
<1>4. k.at > Len(Program[k.op.kind]) /\ k.at <= Len(Program[k.op.kind]) + 1
  BY <1>1 DEF AtEnd, Op, CallOK
<1>5. k.at = Len(Program[k.op.kind]) + 1
  BY <1>2, <1>3, <1>4
<1> QED
  BY <1>2, <1>3, <1>5 DEF Past, Before

\* What the row of an economy event counts for in each column.
LEMMA EconomyAmount ==
  ASSUME NEW s, NEW k, NEW c
  PROVE  Amount(EconomyRow(s, k), c) = IF c = "yen" THEN k.op.yen
                                       ELSE IF c = k.op.item THEN Quantity(k) ELSE 0
<1> DEFINE delta == [x \in {"yen", k.op.item} |-> IF x = "yen" THEN k.op.yen ELSE Quantity(k)]
<1>1. EconomyRow(s, k).table = "economy" /\ EconomyRow(s, k).delta = delta
  BY DEF EconomyRow
<1>2. DOMAIN delta = {"yen", k.op.item}
  OBVIOUS
<1> QED
  BY <1>1, <1>2 DEF Amount

\* What the row of a progression event counts for in each column.
LEMMA ProgressionAmount ==
  ASSUME NEW s, NEW k, NEW c
  PROVE  Amount(ProgressionRow(s, k), c) =
           IF k.op.kind = "award" THEN IF c = "xp" THEN k.op.amount ELSE 0
           ELSE IF c = "hp" THEN k.new["hp"] - k.seen["hp"] ELSE 0
<1>1. /\ ProgressionRow(s, k).table = "progression"
      /\ ProgressionRow(s, k).delta = IF k.op.kind = "award" THEN [xp |-> k.op.amount]
                                      ELSE [hp |-> k.new["hp"] - k.seen["hp"]]
  BY DEF ProgressionRow
<1>2. CASE k.op.kind = "award"
  BY <1>1, <1>2 DEF Amount
<1>3. CASE k.op.kind # "award"
  BY <1>1, <1>3 DEF Amount
<1> QED
  BY <1>2, <1>3

\* A sale is not an event.
LEMMA SaleAmount == \A s, k, c : Amount(SaleRow(s, k), c) = 0
BY DEF Amount, SaleRow

\* The events of a call at its end account for what it changes.
EconomyPart(s, k, c) == IF "economy" \in Past(k) THEN Amount(EconomyRow(s, k), c) ELSE 0
ProgressionPart(s, k, c) == IF "progress" \in Past(k) THEN Amount(ProgressionRow(s, k), c) ELSE 0
After(k, d, c) == IF c \in Changed(k) THEN k.new[c] ELSE d[c]

\* A method changes each column by what the events it has inserted say.
LEMMA EventsAccount ==
  ASSUME NEW s \in Calls, NEW k, k.op \in Ops[s], k.win \in BOOLEAN,
         Past(k) = {} \/ Past(k) = Before(k.op.kind, Len(Program[k.op.kind]) + 1),
         NEW d \in [Columns -> Nat], ChangesOK(k, d), ReadsOK(k, d),
         NEW c \in {"yen", "hp", "xp"} \cup Items
  PROVE  After(k, d, c) = d[c] + EconomyPart(s, k, c) + ProgressionPart(s, k, c)
<1> DEFINE p == Past(k)
<1>0. /\ k.op.kind \in Kinds /\ k.op.yen \in Int /\ k.op.amount \in Nat
      /\ k.op.kind \in {"grant", "consume", "use", "buy"} => k.op.item \in Items
      /\ k.op.kind \in {"credit", "spend"} => k.op.item = Empty
      /\ k.op.kind \notin {"credit", "spend", "buy"} => k.op.yen = 0
  BY OperationFacts
<1>1. c \in Columns /\ d[c] \in Nat /\ Empty \notin Items
  BY ColumnFacts
<1>2. CASE p = {}
  <2>1. c \notin Changed(k)
    BY <1>2 DEF Changed
  <2> QED
    BY <1>1, <1>2, <2>1 DEF After, EconomyPart, ProgressionPart
<1>3. CASE p = Before(k.op.kind, Len(Program[k.op.kind]) + 1)
  <2>1. Len(Program[k.op.kind]) \in Nat
    BY <1>0, StatementCounts
  <2>2. /\ "pay" \in p <=> k.op.kind \in {"credit", "spend", "buy"}
        /\ "economy" \in p <=> k.op.kind \in {"credit", "spend", "grant", "consume", "use", "buy"}
        /\ "progress" \in p <=> k.op.kind \in {"award", "change", "use"}
        /\ "hp" \in p <=> k.op.kind \in {"change", "use"}
        /\ "xp" \in p <=> k.op.kind = "award"
        /\ "stack" \in p <=> k.op.kind = "grant"
        /\ "store" \in p <=> k.op.kind \in {"consume", "use"}
        /\ "prize" \in p <=> k.op.kind = "buy"
    <3>1. \A st \in p :
            /\ st = "pay" => k.op.kind \in {"credit", "spend", "buy"}
            /\ st = "economy" => k.op.kind \in {"credit", "spend", "grant", "consume", "use", "buy"}
            /\ st = "progress" => k.op.kind \in {"award", "change", "use"}
            /\ st = "hp" => k.op.kind \in {"change", "use"}
            /\ st = "xp" => k.op.kind = "award"
            /\ st = "stack" => k.op.kind = "grant"
            /\ st = "store" => k.op.kind \in {"consume", "use"}
            /\ st = "prize" => k.op.kind = "buy"
      BY <1>0, <1>3, <2>1, BeforeKinds
    <3> QED
      BY <1>0, <1>3, <3>1, StatementsAll
  <2>3. /\ EconomyPart(s, k, c) = IF "economy" \in p
                                  THEN IF c = "yen" THEN k.op.yen
                                       ELSE IF c = k.op.item THEN Quantity(k) ELSE 0
                                  ELSE 0
    BY EconomyAmount DEF EconomyPart
  <2>4. ProgressionPart(s, k, c) =
          IF "progress" \in p
          THEN IF k.op.kind = "award" THEN IF c = "xp" THEN k.op.amount ELSE 0
               ELSE IF c = "hp" THEN k.new["hp"] - k.seen["hp"] ELSE 0
          ELSE 0
    BY ProgressionAmount DEF ProgressionPart
  <2> HIDE DEF p
  <2>5. CASE c = "yen"
    <3>1. c \in Changed(k) <=> "pay" \in p
      BY <1>0, <2>5, <1>1, <2>2, ColumnFacts DEF Changed, p
    <3>2. c \in Changed(k) => k.new[c] = d[c] + k.op.yen
      BY <2>5 DEF ChangesOK
    <3> QED
      BY <1>0, <1>1, <2>2, <2>3, <2>4, <2>5, <3>1, <3>2 DEF After
  <2>6. CASE c = "xp"
    <3>1. c \in Changed(k) <=> "xp" \in p
      BY <1>0, <2>6, <1>1, <2>2, ColumnFacts DEF Changed, p
    <3>2. c \in Changed(k) => k.new[c] = d[c] + k.op.amount
      BY <2>6 DEF ChangesOK
    <3>3. "economy" \in p => c # k.op.item
      BY <1>0, <1>1, <2>2, <2>6, ColumnFacts
    <3> QED
      BY <1>0, <1>1, <2>2, <2>3, <2>4, <2>6, <3>1, <3>2, <3>3 DEF After
  <2>7. CASE c = "hp"
    <3>1. c \in Changed(k) <=> "hp" \in p
      BY <1>0, <2>7, <1>1, <2>2, ColumnFacts DEF Changed, p
    <3>2. c \in Changed(k) => k.new[c] \in Nat /\ k.seen[c] = d[c]
      <4>1. "hp" \in p => "lock" \in p
        BY <1>0, <1>3, <2>2, StatementsAll DEF p
      <4>2. c \in Changed(k) => c \in Known(k)
        BY <1>1, <2>7, <3>1, <4>1 DEF Known, p
      <4> QED
        BY <4>2 DEF ChangesOK, ReadsOK
    <3>3. "economy" \in p => c # k.op.item
      BY <1>0, <1>1, <2>2, <2>7, ColumnFacts
    <3> QED
      BY <1>0, <1>1, <2>2, <2>3, <2>4, <2>7, <3>1, <3>2, <3>3 DEF After
  <2>8. CASE c \in Items
    <3>1. c \in Changed(k) <=> /\ c = k.op.item
                               /\ "stack" \in p \/ "store" \in p \/ ("prize" \in p /\ k.win)
      BY <1>1, <2>8, ColumnFacts DEF Changed, p
    <3>2. c \in Changed(k) => k.new[c] = d[c] + Quantity(k)
      BY <2>8 DEF ChangesOK
    <3>3. c \notin {"yen", "xp", "hp"}
      BY <2>8, ColumnFacts
    <3>4. Quantity(k) \in Int
      BY <1>0 DEF Quantity
    <3>5. "economy" \in p /\ c = k.op.item /\ c \notin Changed(k) => Quantity(k) = 0
      BY <1>0, <1>1, <2>2, <2>8, <3>1 DEF Quantity
    <3>6. c \in Changed(k) => "economy" \in p /\ c = k.op.item
      BY <2>2, <3>1
    <3> QED
      BY <1>1, <2>3, <2>4, <3>2, <3>3, <3>4, <3>5, <3>6 DEF After
  <2> QED
    BY <2>5, <2>6, <2>7, <2>8
<1> QED
  BY <1>2, <1>3

\* Rows with integer amounts have an integer total.
LEMMA TotalIsInt ==
  ASSUME NEW R, IsFiniteSet(R), NEW c, \A r \in R : Amount(r, c) \in Int
  PROVE  Total(R, c) \in Int
<1>1. PICK f : f = [r \in R |-> Amount(r, c)]
  OBVIOUS
<1>2. DOMAIN f = R /\ \A r \in R : f[r] \in Int
  BY <1>1
<1>3. PICK h : Sums(h, f, R) /\ SumFunction(f) = h[R]
  BY ONLY IsFiniteSet(R), <1>2, SumIsSums
<1>4. R \in SUBSET R
  OBVIOUS
<1>5. h[R] \in Int
  BY ONLY IsFiniteSet(R), <1>2, <1>3, <1>4, SumsTakeOut
<1> QED
  BY <1>1, <1>3, <1>5 DEF Total

\* At most one row more.
LEMMA TotalOption ==
  ASSUME NEW R, IsFiniteSet(R), NEW x, x \notin R, NEW c, NEW S, S = {} \/ S = {x},
         \A r \in R : Amount(r, c) \in Int, x \in S => Amount(x, c) \in Int
  PROVE  /\ IsFiniteSet(R \cup S) /\ \A r \in R \cup S : Amount(r, c) \in Int
         /\ Total(R \cup S, c) = Total(R, c) + (IF x \in S THEN Amount(x, c) ELSE 0)
<1>1. CASE S = {x}
  <2>1. x \in S /\ \A r \in R \cup {x} : Amount(r, c) \in Int
    BY <1>1
  <2>2. Total(R \cup {x}, c) = Total(R, c) + Amount(x, c)
    BY ONLY IsFiniteSet(R), x \notin R, <2>1, TotalOfOneMore
  <2>3. IsFiniteSet(R \cup {x})
    BY FS_AddElement
  <2> QED
    BY <1>1, <2>1, <2>2, <2>3
<1>2. CASE S = {}
  <2>1. R \cup S = R
    BY <1>2
  <2>2. Total(R, c) \in Int
    BY TotalIsInt
  <2> QED
    BY <1>2, <2>1, <2>2
<1> QED
  BY <1>1, <1>2

\* The rows that a call inserts add what they say.
LEMMA TotalOfInserted ==
  ASSUME NEW R, IsFiniteSet(R), NEW s, NEW k, NEW c,
         \A r \in R : r.by # s /\ Amount(r, c) \in Int,
         EconomyPart(s, k, c) \in Int, ProgressionPart(s, k, c) \in Int
  PROVE  /\ IsFiniteSet(R \cup Inserted(s, k))
         /\ Total(R, c) \in Int
         /\ Total(R \cup Inserted(s, k), c)
              = Total(R, c) + EconomyPart(s, k, c) + ProgressionPart(s, k, c)
<1>1. PICK e, g, h : e = EconomyRow(s, k) /\ g = ProgressionRow(s, k) /\ h = SaleRow(s, k)
  OBVIOUS
<1>2. /\ e.by = s /\ g.by = s /\ h.by = s
      /\ e.table = "economy" /\ g.table = "progression" /\ h.table = "purchases"
  BY <1>1 DEF EconomyRow, ProgressionRow, SaleRow
<1>3. e \notin R /\ g \notin R /\ h \notin R /\ e # g /\ e # h /\ g # h
  BY <1>2
<1>4. PICK A : A = IF "economy" \in Past(k) THEN {e} ELSE {}
  OBVIOUS
<1>5. PICK B : B = IF "progress" \in Past(k) THEN {g} ELSE {}
  OBVIOUS
<1>6. PICK C : C = IF "sale" \in Past(k) THEN {h} ELSE {}
  OBVIOUS
<1>7. Total(R, c) \in Int
  BY TotalIsInt
<1>8. /\ IsFiniteSet(R \cup A) /\ \A r \in R \cup A : Amount(r, c) \in Int
      /\ Total(R \cup A, c) = Total(R, c) + EconomyPart(s, k, c)
  <2>1. \A r \in R : Amount(r, c) \in Int
    OBVIOUS
  <2>2. (A = {} \/ A = {e}) /\ (e \in A => Amount(e, c) \in Int)
    BY <1>1, <1>4 DEF EconomyPart
  <2>3. EconomyPart(s, k, c) = IF e \in A THEN Amount(e, c) ELSE 0
    BY <1>1, <1>4 DEF EconomyPart
  <2>4. /\ IsFiniteSet(R \cup A) /\ \A r \in R \cup A : Amount(r, c) \in Int
        /\ Total(R \cup A, c)
             = Total(R, c) + (IF e \in A THEN Amount(e, c) ELSE 0)
    BY ONLY IsFiniteSet(R), <1>3, <2>1, <2>2, TotalOption
  <2> QED
    BY <2>3, <2>4
<1>9. PICK T : T = R \cup A
  OBVIOUS
<1>10. g \notin T
  BY <1>3, <1>4, <1>9
<1>11. /\ IsFiniteSet(T \cup B) /\ \A r \in T \cup B : Amount(r, c) \in Int
       /\ Total(T \cup B, c) = Total(T, c) + ProgressionPart(s, k, c)
  <2>1. IsFiniteSet(T) /\ \A r \in T : Amount(r, c) \in Int
    BY <1>8, <1>9
  <2>2. (B = {} \/ B = {g}) /\ (g \in B => Amount(g, c) \in Int)
    BY <1>1, <1>5 DEF ProgressionPart
  <2>3. ProgressionPart(s, k, c) = IF g \in B THEN Amount(g, c) ELSE 0
    BY <1>1, <1>5 DEF ProgressionPart
  <2>4. /\ IsFiniteSet(T \cup B) /\ \A r \in T \cup B : Amount(r, c) \in Int
        /\ Total(T \cup B, c)
             = Total(T, c) + (IF g \in B THEN Amount(g, c) ELSE 0)
    BY ONLY <1>10, <2>1, <2>2, TotalOption
  <2> QED
    BY <2>3, <2>4
<1>12. PICK V : V = T \cup B
  OBVIOUS
<1>13. h \notin V
  BY <1>3, <1>4, <1>5, <1>9, <1>12
<1>14. IsFiniteSet(V \cup C) /\ Total(V \cup C, c) = Total(V, c)
  <2>1. IsFiniteSet(V) /\ \A r \in V : Amount(r, c) \in Int
    BY <1>11, <1>12
  <2>2. Amount(h, c) = 0 /\ Total(V, c) \in Int
    BY <1>1, <2>1, SaleAmount, TotalIsInt
  <2>3. (C = {} \/ C = {h}) /\ (h \in C => Amount(h, c) \in Int)
    BY <1>6, <2>2
  <2>4. /\ IsFiniteSet(V \cup C)
        /\ Total(V \cup C, c)
             = Total(V, c) + (IF h \in C THEN Amount(h, c) ELSE 0)
    BY ONLY <1>13, <2>1, <2>3, TotalOption
  <2> QED
    BY <2>2, <2>4
<1>15. V \cup C = R \cup Inserted(s, k)
  BY <1>1, <1>4, <1>5, <1>6, <1>9, <1>12 DEF Inserted
<1> QED
  BY <1>7, <1>8, <1>9, <1>11, <1>12, <1>14, <1>15

-----------------------------------------------------------------------------
(* Commit *)

\* The call that commits, and the others.
LEMMA CommitCalls ==
  ASSUME IInv, NEW s \in Calls, Commit(s)
  PROVE  /\ CallType(s, tx'[s])
         /\ tx'[s].op = tx[s].op /\ tx'[s].win = tx[s].win
         /\ tx'[s].answer \in {"done", "lost"}
         /\ DOMAIN tx' = Calls
         /\ \A t \in Calls : t # s => tx'[t] = tx[t]
<1>1. PICK answer \in {"done", "lost"} :
        tx' = [tx EXCEPT ![s] = Call(Op(s), 1, tx[s].win, answer)]
  BY DEF Commit
<1>2. DOMAIN tx = Calls /\ CallType(s, tx[s])
  BY DEF IInv, TypeOK
<1>3. /\ DOMAIN tx' = Calls /\ tx'[s] = Call(Op(s), 1, tx[s].win, answer)
      /\ \A t \in Calls : t # s => tx'[t] = tx[t]
  BY <1>1, <1>2
<1>4. /\ tx'[s] = Fields(tx'[s]) /\ tx'[s].op = Op(s) /\ tx'[s].at = 1
      /\ tx'[s].answer = answer
  BY <1>3 DEF Call, Fields
<1>5. tx'[s].win = tx[s].win
  BY <1>3 DEF Call
<1>6. Op(s) \in Ops[s] /\ tx[s].win \in BOOLEAN
  BY <1>2 DEF Commit, Running, CallType, Op
<1>7. tx'[s].win \in BOOLEAN
  BY <1>5, <1>6
<1>8. CallType(s, tx'[s])
  BY <1>4, <1>6, <1>7 DEF CallType
<1> QED
  BY <1>3, <1>4, <1>5, <1>8 DEF Op

\* The rows that a call inserts.
LEMMA InsertedRows ==
  ASSUME NEW s, NEW k, NEW r \in Inserted(s, k)
  PROVE  /\ r.by = s
         /\ \/ r = EconomyRow(s, k) /\ r.table = "economy" /\ "economy" \in Past(k)
            \/ r = ProgressionRow(s, k) /\ r.table = "progression" /\ "progress" \in Past(k)
            \/ r = SaleRow(s, k) /\ r.table = "purchases" /\ "sale" \in Past(k)
<1>1. \/ r = EconomyRow(s, k) /\ "economy" \in Past(k)
      \/ r = ProgressionRow(s, k) /\ "progress" \in Past(k)
      \/ r = SaleRow(s, k) /\ "sale" \in Past(k)
  BY DEF Inserted
<1> QED
  BY <1>1 DEF EconomyRow, ProgressionRow, SaleRow

\* The columns, the rows and the locks after a commit.
LEMMA CommitStore ==
  ASSUME IInv, NEW s \in Calls, Commit(s), NEW k, k = tx[s]
  PROVE  /\ Running(s) /\ AtEnd(s) /\ CallOK(s) /\ db \in [Columns -> Nat]
         /\ db' \in [Columns -> Nat]
         /\ \A c \in Columns : db'[c] = After(k, db, c)
         /\ ChangesOK(k, db) /\ ReadsOK(k, db)
         /\ rows' = rows \cup Inserted(s, k)
         /\ \A r \in rows : r.by # s
         /\ \A l \in locks' : l \in locks
         /\ \A l \in locks : l.by # s => l \in locks'
<1>1. Running(s) /\ AtEnd(s) /\ db' = Sees(s) /\ rows' = rows \cup k.rows /\ locks' = Released(s)
  BY DEF Commit
<1>2. CallOK(s) /\ db \in [Columns -> Nat]
  BY <1>1 DEF IInv, TypeOK
<1>3. ChangesOK(k, db) /\ ReadsOK(k, db) /\ k.rows = Inserted(s, k)
  BY <1>2 DEF CallOK
<1>4. \A c \in Columns : db'[c] = After(k, db, c)
  <2>1. DOMAIN k.new = Changed(k)
    BY <1>3 DEF ChangesOK
  <2> QED
    BY <1>1, <2>1 DEF Sees, After
<1>5. \A c \in Columns : After(k, db, c) \in Nat
  BY <1>2, <1>3 DEF After, ChangesOK
<1>6. db' \in [Columns -> Nat]
  <2>1. db' = [c \in Columns |-> db'[c]]
    BY <1>1 DEF Sees
  <2> QED
    BY <1>4, <1>5, <2>1
<1>7. \A r \in rows : r.by # s
  BY <1>1 DEF IInv, TypeOK, Running
<1> QED
  BY <1>1, <1>2, <1>3, <1>4, <1>6, <1>7 DEF Released

\* An event key or a request id is used under its lock, and nobody else's.
LEMMA CommitKeys ==
  ASSUME IInv, NEW s \in Calls, Commit(s), NEW k, k = tx[s], NEW r \in Inserted(s, k),
         r.key # Empty
  PROVE  /\ r.table # "purchases" =>
               /\ r.table = EventTable(k.op) /\ r.key = k.op.key
               /\ Holds(s, <<r.table, r.key>>) /\ ~Taken(r.table, r.key)
         /\ r.table = "purchases" =>
               /\ r.key = k.op.key /\ Sale(k.op) = {}
               /\ Holds(s, <<r.table, r.key>>)
<1>1. Running(s) /\ AtEnd(s) /\ CallOK(s)
  BY CommitStore
<1>2. /\ k.op \in Ops[s] /\ k.op.kind \in Kinds
      /\ IF Replayed(k) THEN Past(k) = {}
         ELSE Past(k) = Before(k.op.kind, Len(Program[k.op.kind]) + 1)
  BY <1>1, PastAtEnd
<1>3. k.op.kind = "consume" => k.op.key = Empty
  BY <1>2, OperationFacts
<1>4. CASE r.table # "purchases"
  <2>1. /\ "economy" \in Past(k) \/ "progress" \in Past(k)
        /\ r.key = IF k.op.kind = "use" THEN Empty ELSE k.op.key
        /\ r.table \in {"economy", "progression"}
        /\ r.table = "economy" => "economy" \in Past(k)
        /\ r.table = "progression" => "progress" \in Past(k)
    <3>1. \/ r = EconomyRow(s, k) /\ r.table = "economy" /\ "economy" \in Past(k)
          \/ r = ProgressionRow(s, k) /\ r.table = "progression" /\ "progress" \in Past(k)
      BY <1>4, InsertedRows
    <3>2. /\ EconomyRow(s, k).key = IF k.op.kind = "use" THEN Empty ELSE k.op.key
          /\ ProgressionRow(s, k).key = IF k.op.kind = "use" THEN Empty ELSE k.op.key
      BY DEF EconomyRow, ProgressionRow
    <3>3. r.key = IF k.op.kind = "use" THEN Empty ELSE k.op.key
      BY <3>1, <3>2
    <3> QED
      BY <3>1, <3>3
  <2>2. k.op.kind \notin {"use", "consume"} /\ k.op.key = r.key
    BY <1>3, <2>1
  <2>3. Past(k) = Before(k.op.kind, Len(Program[k.op.kind]) + 1)
    BY <1>2, <2>1
  <2>4. Len(Program[k.op.kind]) \in Nat
    BY <1>2, StatementCounts
  <2>5. \A st \in Past(k) :
          /\ st = "economy" => k.op.kind \in {"credit", "spend", "grant", "consume", "use", "buy"}
          /\ st = "progress" => k.op.kind \in {"award", "change", "use"}
    BY <1>2, <2>3, <2>4, BeforeKinds
  <2>6. "key" \in Past(k)
    BY <1>2, <2>1, <2>2, <2>3, <2>5, StatementsAll
  <2>7. r.table = EventTable(k.op)
    BY <2>1, <2>2, <2>5 DEF EventTable
  <2> QED
    BY <1>1, <1>4, <2>2, <2>6, <2>7 DEF CallOK
<1>5. CASE r.table = "purchases"
  <2>1. r = SaleRow(s, k) /\ "sale" \in Past(k)
    BY <1>5, InsertedRows
  <2> QED
    BY <1>1, <1>5, <2>1 DEF CallOK, SaleRow
<1> QED
  BY <1>4, <1>5

\* Amounts are integers.
LEMMA AmountIsInt ==
  ASSUME NEW r, NEW c, r.table # "purchases" => \A x \in DOMAIN r.delta : r.delta[x] \in Int
  PROVE  Amount(r, c) \in Int
BY DEF Amount

\* The rows that a commit adds keep their type.
LEMMA InsertedTypes ==
  ASSUME IInv, NEW s \in Calls, Commit(s), NEW k, k = tx[s], NEW r \in Inserted(s, k)
  PROVE  /\ r.table \in {"economy", "progression", "purchases"}
         /\ r.table # "purchases" => \A c \in DOMAIN r.delta : r.delta[c] \in Int
         /\ r.table = "purchases" => r.win \in BOOLEAN
<1>1. /\ Running(s) /\ AtEnd(s) /\ ChangesOK(k, db) /\ ReadsOK(k, db)
      /\ db \in [Columns -> Nat]
  BY CommitStore
<1>2. /\ k.op \in Ops[s] /\ k.op.kind \in Kinds
      /\ IF Replayed(k) THEN Past(k) = {}
         ELSE Past(k) = Before(k.op.kind, Len(Program[k.op.kind]) + 1)
  BY <1>1, PastAtEnd
<1>3. k.op.yen \in Int /\ k.op.amount \in Nat
  BY <1>2, OperationFacts
<1>4. CASE r = EconomyRow(s, k) /\ r.table = "economy"
  <2>1. r.delta = [x \in {"yen", k.op.item} |-> IF x = "yen" THEN k.op.yen ELSE Quantity(k)]
    BY <1>4 DEF EconomyRow
  <2>2. Quantity(k) \in Int
    BY <1>3 DEF Quantity
  <2> QED
    BY <1>3, <1>4, <2>1, <2>2
<1>5. CASE r = ProgressionRow(s, k) /\ r.table = "progression" /\ "progress" \in Past(k)
  <2>1. r.delta = IF k.op.kind = "award" THEN [xp |-> k.op.amount]
                  ELSE [hp |-> k.new["hp"] - k.seen["hp"]]
    BY <1>5 DEF ProgressionRow
  <2>2. Past(k) = Before(k.op.kind, Len(Program[k.op.kind]) + 1)
    BY <1>2, <1>5
  <2>3. k.op.kind \in {"award", "change", "use"}
    <3>1. Len(Program[k.op.kind]) \in Nat
      BY <1>2, StatementCounts
    <3>2. \A st \in Past(k) : st = "progress" => k.op.kind \in {"award", "change", "use"}
      BY <1>2, <2>2, <3>1, BeforeKinds
    <3> QED
      BY <1>5, <3>2
  <2>4. CASE k.op.kind = "award"
    BY <1>3, <1>5, <2>1, <2>4
  <2>5. CASE k.op.kind # "award"
    <3>1. "hp" \in Past(k) /\ "lock" \in Past(k)
      BY <1>2, <2>2, <2>3, <2>5, StatementsAll
    <3>2. "hp" \in Changed(k) /\ "hp" \in Known(k)
      BY <3>1, ColumnFacts DEF Changed, Known
    <3>3. k.new["hp"] \in Nat /\ k.seen["hp"] = db["hp"] /\ db["hp"] \in Nat
      BY <1>1, <3>2, ColumnFacts DEF ChangesOK, ReadsOK
    <3>4. k.new["hp"] - k.seen["hp"] \in Int
      BY <3>3
    <3> QED
      BY <1>5, <2>1, <2>5, <3>4
  <2> QED
    BY <2>4, <2>5
<1>6. CASE r = SaleRow(s, k) /\ r.table = "purchases"
  <2>1. k.win \in BOOLEAN
    BY DEF IInv, TypeOK, CallType
  <2>2. r.win \in BOOLEAN
    BY <1>6, <2>1 DEF SaleRow
  <2> QED
    BY <1>6, <2>2
<1> QED
  BY <1>4, <1>5, <1>6, InsertedRows

\* After a commit the ledger agrees.
LEMMA CommitLedger ==
  ASSUME IInv, NEW s \in Calls, Commit(s)
  PROVE  /\ IsFiniteSet(rows')
         /\ \A c \in {"yen", "hp", "xp"} \cup Items : db'[c] = Start[c] + Change(c)'
<1>1. PICK k : k = tx[s]
  OBVIOUS
<1>2. /\ Running(s) /\ AtEnd(s) /\ ChangesOK(k, db) /\ ReadsOK(k, db)
      /\ db \in [Columns -> Nat] /\ \A c \in Columns : db'[c] = After(k, db, c)
      /\ rows' = rows \cup Inserted(s, k) /\ \A r \in rows : r.by # s
  BY <1>1, CommitStore
<1>3. /\ k.op \in Ops[s] /\ k.win \in BOOLEAN
      /\ Past(k) = {} \/ Past(k) = Before(k.op.kind, Len(Program[k.op.kind]) + 1)
  BY <1>1, <1>2, PastAtEnd
<1>4. ASSUME NEW c \in {"yen", "hp", "xp"} \cup Items
      PROVE  IsFiniteSet(rows') /\ db'[c] = Start[c] + Change(c)'
  <2>1. c \in Columns /\ db[c] \in Nat /\ Start[c] \in Nat
    BY <1>2, ColumnFacts, StartAssumption
  <2>2. After(k, db, c) = db[c] + EconomyPart(s, k, c) + ProgressionPart(s, k, c)
    BY <1>2, <1>3, EventsAccount
  <2>3. EconomyPart(s, k, c) \in Int /\ ProgressionPart(s, k, c) \in Int
    <3>1. \A r \in Inserted(s, k) : Amount(r, c) \in Int
      BY <1>1, InsertedTypes, AmountIsInt
    <3>2. /\ "economy" \in Past(k) => EconomyRow(s, k) \in Inserted(s, k)
          /\ "progress" \in Past(k) => ProgressionRow(s, k) \in Inserted(s, k)
      BY DEF Inserted
    <3> QED
      BY <3>1, <3>2 DEF EconomyPart, ProgressionPart
  <2>4. IsFiniteSet(rows) /\ \A r \in rows : Amount(r, c) \in Int
    BY AmountIsInt DEF IInv, TypeOK
  <2>5. \A r \in rows : r.by # s /\ Amount(r, c) \in Int
    BY <1>2, <2>4
  <2>6. /\ IsFiniteSet(rows \cup Inserted(s, k))
        /\ Total(rows, c) \in Int
        /\ Total(rows \cup Inserted(s, k), c)
             = Total(rows, c) + EconomyPart(s, k, c) + ProgressionPart(s, k, c)
    <3>1. ASSUME NEW R, IsFiniteSet(R), \A r \in R : r.by # s /\ Amount(r, c) \in Int
          PROVE  /\ IsFiniteSet(R \cup Inserted(s, k))
                 /\ Total(R, c) \in Int
                 /\ Total(R \cup Inserted(s, k), c)
                      = Total(R, c) + EconomyPart(s, k, c) + ProgressionPart(s, k, c)
      BY ONLY <2>3, <3>1, TotalOfInserted
    <3> QED
      BY <2>4, <2>5, <3>1
  <2>7. Change(c) = Total(rows, c) /\ Change(c)' = Total(rows', c)
    BY DEF Change, Total, Amount
  <2>8. db[c] = Start[c] + Change(c)
    BY DEF IInv, LedgerAgrees
  <2> QED
    BY <1>2, <2>1, <2>2, <2>3, <2>6, <2>7, <2>8
<1> QED
  BY <1>4

\* After a commit all columns are within their limits.
LEMMA CommitLimits ==
  ASSUME IInv, NEW s \in Calls, Commit(s)
  PROVE  WithinLimits'
<1>1. PICK k : k = tx[s]
  OBVIOUS
<1>2. /\ ChangesOK(k, db) /\ db' \in [Columns -> Nat]
      /\ \A c \in Columns : db'[c] = After(k, db, c)
  BY <1>1, CommitStore
<1>3. db["hp"] <= MaxHP /\ \A i \in Items : db[i] <= MaxStack[i]
  BY DEF IInv, LedgerAgrees, WithinLimits
<1>4. \A c \in Columns : db'[c] >= 0
  BY <1>2
<1>5. db'["hp"] <= MaxHP
  BY <1>2, <1>3, ColumnFacts DEF After, ChangesOK
<1>6. \A i \in Items : db'[i] <= MaxStack[i]
  BY <1>2, <1>3, ColumnFacts DEF After, ChangesOK
<1> QED
  BY <1>4, <1>5, <1>6 DEF WithinLimits

\* A healing item is committed together with the health it gave.
LEMMA CommitHeals ==
  ASSUME IInv, NEW s \in Calls, Commit(s)
  PROVE  ItemsHeal'
<1>1. PICK k : k = tx[s]
  OBVIOUS
<1>2. /\ Running(s) /\ AtEnd(s) /\ ChangesOK(k, db) /\ ReadsOK(k, db)
      /\ db \in [Columns -> Nat]
      /\ rows' = rows \cup Inserted(s, k) /\ \A r \in rows : r.by # s
  BY <1>1, CommitStore
<1>3. /\ tx'[s].op = k.op /\ \A t \in Calls : t # s => tx'[t] = tx[t]
  BY <1>1, CommitCalls
<1>4. \A r \in rows : r.by \in Calls
  BY DEF IInv, TypeOK
<1>5. SUFFICES ASSUME NEW e \in rows', e.table = "economy", tx'[e.by].op.kind = "use"
               PROVE  \E p \in rows' : /\ p.table = "progression" /\ p.by = e.by
                                       /\ p.delta["hp"] > 0
  BY DEF ItemsHeal, Op
<1>6. CASE e \in rows
  <2>1. Op(e.by).kind = "use"
    BY <1>2, <1>3, <1>4, <1>5, <1>6 DEF Op
  <2>2. PICK p \in rows : p.table = "progression" /\ p.by = e.by /\ p.delta["hp"] > 0
    BY <1>5, <1>6, <2>1 DEF IInv, LedgerAgrees, ItemsHeal
  <2> QED
    BY <1>2, <2>2
<1>7. CASE e \in Inserted(s, k)
  <2>1. e.by = s /\ "economy" \in Past(k)
    BY <1>5, <1>7, InsertedRows
  <2>2. k.op.kind = "use"
    BY <1>3, <1>5, <2>1
  <2>3. "progress" \in Past(k) /\ "hp" \in Past(k) /\ "lock" \in Past(k)
    BY <1>1, <1>2, <2>1, <2>2, PastAtEnd, StatementsAll
  <2>4. "hp" \in Changed(k) /\ "hp" \in Known(k)
    BY <2>3, ColumnFacts DEF Changed, Known
  <2>5. k.new["hp"] > db["hp"] /\ k.seen["hp"] = db["hp"]
        /\ k.new["hp"] \in Nat /\ db["hp"] \in Nat
    BY <1>2, <2>2, <2>4, ColumnFacts DEF ChangesOK, ReadsOK
  <2>6. PICK p : p = ProgressionRow(s, k)
    OBVIOUS
  <2>7. p.table = "progression" /\ p.by = s /\ p.delta = [hp |-> k.new["hp"] - k.seen["hp"]]
    BY <2>2, <2>6 DEF ProgressionRow
  <2>8. p.delta["hp"] > 0
    BY <2>5, <2>7
  <2>9. p \in rows'
    BY <1>2, <2>3, <2>6 DEF Inserted
  <2> QED
    BY <2>1, <2>7, <2>8, <2>9
<1> QED
  BY <1>2, <1>5, <1>6, <1>7

\* A commit charges a request once and answers with the sale that was made.
LEMMA CommitCharges ==
  ASSUME IInv, NEW s \in Calls, Commit(s)
  PROVE  ChargedOnce'
<1>1. PICK k : k = tx[s]
  OBVIOUS
<1>2. /\ Running(s) /\ AtEnd(s) /\ CallOK(s)
      /\ rows' = rows \cup Inserted(s, k) /\ \A r \in rows : r.by # s
  BY <1>1, CommitStore
<1>3. /\ tx'[s].op = k.op /\ tx'[s].win = k.win
      /\ \A t \in Calls : t # s => tx'[t] = tx[t]
  BY <1>1, CommitCalls
<1>4. ASSUME NEW r1 \in rows', NEW r2 \in rows',
             r1.table = r2.table, r1.key = r2.key, r1.key # Empty
      PROVE  r1 = r2
  <2>1. ASSUME NEW a \in Inserted(s, k), NEW b \in rows,
               a.table = b.table, a.key = b.key, a.key # Empty
        PROVE  FALSE
    <3>1. CASE a.table # "purchases"
      BY <1>1, <2>1, <3>1, CommitKeys DEF Taken
    <3>2. CASE a.table = "purchases"
      BY <1>1, <2>1, <3>2, CommitKeys DEF Sale
    <3> QED
      BY <3>1, <3>2
  <2>2. CASE r1 \in rows /\ r2 \in rows
    BY <1>4, <2>2 DEF IInv, ChargedOnce
  <2>3. CASE r1 \in Inserted(s, k) /\ r2 \in Inserted(s, k)
    BY <1>4, <2>3, InsertedRows
  <2> QED
    BY <1>2, <1>4, <2>1, <2>2, <2>3
<1>5. ASSUME NEW t \in Calls, tx'[t].op.kind = "buy", tx'[t].answer = "done"
      PROVE  \E r \in rows' : /\ r.table = "purchases" /\ r.key = tx'[t].op.key
                              /\ r.machine = tx'[t].op.machine /\ r.win = tx'[t].win
  <2>1. CASE t # s
    <3>1. \E r \in Sale(Op(t)) : r.machine = Op(t).machine /\ r.win = tx[t].win
      BY <1>3, <1>5, <2>1 DEF IInv, ChargedOnce, Op
    <3> QED
      BY <1>2, <1>3, <2>1, <3>1 DEF Sale, Op
  <2>2. CASE t = s /\ Replayed(k)
    <3>1. \E r \in Sale(k.op) : r.machine = k.op.machine /\ r.win = k.win
      BY <1>1, <1>2, <2>2 DEF CallOK
    <3> QED
      BY <1>2, <1>3, <2>2, <3>1 DEF Sale
  <2>3. CASE t = s /\ ~Replayed(k)
    <3>1. k.op.kind = "buy"
      BY <1>3, <1>5, <2>3
    <3>2. "sale" \in Past(k)
      BY <1>1, <1>2, <2>3, <3>1, PastAtEnd, StatementsAll
    <3>3. SaleRow(s, k) \in rows'
      BY <1>2, <3>2 DEF Inserted
    <3>4. /\ SaleRow(s, k).table = "purchases" /\ SaleRow(s, k).key = k.op.key
          /\ SaleRow(s, k).machine = k.op.machine
      BY DEF SaleRow
    <3>5. SaleRow(s, k).win = k.win
      BY DEF SaleRow
    <3> QED
      BY <1>3, <2>3, <3>3, <3>4, <3>5
  <2> QED
    BY <2>1, <2>2, <2>3
<1> QED
  BY <1>4, <1>5 DEF ChargedOnce, Sale, Op

\* A commit keeps the scores and the saves of the dialogue.
LEMMA CommitSaves ==
  ASSUME IInv, NEW s \in Calls, Commit(s)
  PROVE  SavesAreKept'
<1>1. PICK k : k = tx[s]
  OBVIOUS
<1>2. /\ Running(s) /\ AtEnd(s) /\ ChangesOK(k, db)
      /\ db \in [Columns -> Nat] /\ db' \in [Columns -> Nat]
      /\ \A c \in Columns : db'[c] = After(k, db, c)
  BY <1>1, CommitStore
<1>3. /\ tx'[s].op = k.op /\ tx'[s].answer \in {"done", "lost"}
      /\ \A t \in Calls : t # s => tx'[t] = tx[t]
  BY <1>1, CommitCalls
<1>4. tx[s].answer = "open"
  BY <1>2 DEF Running
<1>5. /\ k.op \in Ops[s] /\ k.op.kind \in Kinds
      /\ IF Replayed(k) THEN Past(k) = {}
         ELSE Past(k) = Before(k.op.kind, Len(Program[k.op.kind]) + 1)
  BY <1>1, <1>2, PastAtEnd
<1>6. k.op.amount \in Nat /\ Len(Program[k.op.kind]) \in Nat
  BY <1>5, OperationFacts, StatementCounts
<1>7. "score" \in Columns /\ "dialogue" \in Columns
  BY ColumnFacts
<1>8. \A kind : Accepted(kind)' = IF k.op.kind = kind THEN Accepted(kind) \cup {s}
                                  ELSE Accepted(kind)
  BY <1>1, <1>3, <1>4 DEF Accepted, Op
<1>9. ASSUME NEW t \in Accepted("arcade")'
      PROVE  tx'[t].op.amount <= db'["score"]
  <2>1. db'["score"] >= db["score"]
    BY <1>2, <1>7 DEF After, ChangesOK
  <2>2. CASE t # s
    <3>1. t \in Accepted("arcade") /\ tx'[t] = tx[t]
      BY <1>3, <1>8, <2>2 DEF Accepted
    <3>2. Op(t).amount <= db["score"]
      BY <3>1 DEF IInv, SavesAreKept
    <3>3. Op(t).amount \in Nat
      <4>1. t \in Calls /\ CallType(t, tx[t]) /\ Op(t).kind = "arcade" /\ tx[t].answer # "refused"
        BY <3>1 DEF Accepted, IInv, TypeOK
      <4>2. Op(t) \in Ops[t]
        BY <4>1 DEF CallType, Op
      <4> QED
        BY <4>1, <4>2, OperationFacts
    <3> QED
      BY <1>2, <1>7, <2>1, <3>1, <3>2, <3>3 DEF Op
  <2>3. CASE t = s
    <3>1. k.op.kind = "arcade"
      BY <1>3, <1>9, <2>3 DEF Accepted, Op
    <3>2. "score" \in Past(k)
      BY <1>5, <3>1, StatementsAll DEF Replayed
    <3>3. "score" \in Changed(k)
      BY <1>7, <3>2 DEF Changed
    <3> QED
      BY <1>2, <1>3, <1>6, <1>7, <2>3, <3>3 DEF After, ChangesOK
  <2> QED
    BY <2>2, <2>3
<1>10. db'["dialogue"] = Start["dialogue"] + Cardinality(Accepted("talk")')
  <2>1. IsFiniteSet(Accepted("talk"))
    <3>1. IsFiniteSet(Calls)
      BY CallsAssumption, FS_Interval DEF Calls
    <3> QED
      BY <3>1, FS_Subset DEF Accepted
  <2>2. db["dialogue"] = Start["dialogue"] + Cardinality(Accepted("talk"))
    BY DEF IInv, SavesAreKept
  <2>3. s \notin Accepted("talk")
    BY <1>4 DEF Accepted
  <2>4. Cardinality(Accepted("talk")) \in Nat /\ Start["dialogue"] \in Nat
    BY <1>7, <2>1, FS_CardinalityType, StartAssumption
  <2>5. CASE k.op.kind = "talk"
    <3>1. "dialogue" \in Past(k)
      BY <1>5, <2>5, StatementsAll DEF Replayed
    <3>2. "dialogue" \in Changed(k)
      BY <1>7, <3>1 DEF Changed
    <3>3. db'["dialogue"] = db["dialogue"] + 1
      BY <1>2, <1>7, <3>2 DEF After, ChangesOK
    <3>4. Accepted("talk")' = Accepted("talk") \cup {s}
      BY <1>8, <2>5
    <3>5. Cardinality(Accepted("talk") \cup {s}) = Cardinality(Accepted("talk")) + 1
      BY <2>1, <2>3, FS_AddElement
    <3>6. Cardinality(Accepted("talk")') = Cardinality(Accepted("talk")) + 1
      BY <3>4, <3>5
    <3>7. PICK n : n = Cardinality(Accepted("talk"))
      OBVIOUS
    <3> QED
      BY <2>2, <2>4, <3>3, <3>6, <3>7
  <2>6. CASE k.op.kind # "talk"
    <3>1. "dialogue" \notin Past(k)
      <4>1. \A st \in Past(k) : st = "dialogue" => k.op.kind = "talk"
        BY <1>5, <1>6, BeforeKinds
      <4> QED
        BY <2>6, <4>1
    <3>2. "dialogue" \notin Changed(k)
      <4>1. "dialogue" # k.op.item \/ ~("stack" \in Past(k) \/ "store" \in Past(k) \/ "prize" \in Past(k))
        <5>1. \A st \in Past(k) :
                /\ st = "stack" => k.op.kind = "grant"
                /\ st = "store" => k.op.kind \in {"consume", "use"}
                /\ st = "prize" => k.op.kind = "buy"
          BY <1>5, <1>6, BeforeKinds
        <5>2. k.op.kind \in {"grant", "consume", "use", "buy"} => k.op.item \in Items
          BY <1>5, OperationFacts
        <5> QED
          BY <5>1, <5>2, ColumnFacts
      <4> QED
        BY <3>1, <4>1 DEF Changed
    <3>3. db'["dialogue"] = db["dialogue"]
      BY <1>2, <1>7, <3>2 DEF After
    <3> QED
      BY <1>8, <2>2, <2>6, <3>3
  <2> QED
    BY <2>5, <2>6
<1> QED
  BY <1>9, <1>10 DEF SavesAreKept, Op

\* A commit leaves alone what other calls have read and changed.
LEMMA CommitOthers ==
  ASSUME IInv, NEW s \in Calls, Commit(s), NEW t \in Calls, t # s, Running(t)
  PROVE  CallOK(t)'
<1>1. PICK k : k = tx[s]
  OBVIOUS
<1>2. /\ Running(s) /\ CallOK(s) /\ db' \in [Columns -> Nat]
      /\ \A c \in Columns : db'[c] = After(k, db, c)
      /\ rows' = rows \cup Inserted(s, k)
      /\ \A l \in locks : l.by # s => l \in locks'
  BY <1>1, CommitStore
<1>3. CallOK(t) /\ tx'[t] = tx[t]
  BY CommitCalls DEF IInv
<1>4. \A row : ~(Holds(s, row) /\ Holds(t, row))
  BY OneHolder
<1>5. ASSUME NEW c \in Changed(tx[t]) \cup Known(tx[t])
      PROVE  db'[c] = db[c]
  <2>1. c \in Columns /\ Holds(t, Row(c))
    BY <1>3 DEF CallOK, Changed, Known
  <2>2. c \notin Changed(k)
    BY <1>1, <1>2, <1>4, <2>1 DEF CallOK
  <2> QED
    BY <1>2, <2>1, <2>2 DEF After
<1>6. ASSUME "key" \in Past(tx[t]), Op(t).key # Empty, NEW r \in rows' \ rows,
             r.table = EventTable(Op(t)), r.key = Op(t).key
      PROVE  FALSE
  <2>1. r \in Inserted(s, k) /\ r.key # Empty
    BY <1>2, <1>6
  <2>2. r.table # "purchases"
    BY <1>6 DEF EventTable
  <2>3. Holds(s, <<r.table, r.key>>)
    BY <1>1, <2>1, <2>2, CommitKeys
  <2>4. Holds(t, <<r.table, r.key>>)
    BY <1>3, <1>6 DEF CallOK, Op
  <2> QED
    BY <1>4, <2>3, <2>4
<1>7. ASSUME "sale" \in Past(tx[t]), NEW r \in rows' \ rows,
             r.table = "purchases", r.key = Op(t).key
      PROVE  FALSE
  <2>1. r \in Inserted(s, k) /\ r = SaleRow(s, k) /\ "sale" \in Past(k)
    BY <1>2, <1>7, InsertedRows
  <2>2. Holds(s, <<"purchases", k.op.key>>) /\ r.key = k.op.key
    BY <1>1, <1>2, <2>1 DEF CallOK, SaleRow
  <2>3. Holds(t, <<"purchases", r.key>>)
    BY <1>3, <1>7 DEF CallOK, Op
  <2> QED
    BY <1>4, <2>2, <2>3
<1>8. \A l \in locks : l.by = t => l \in locks'
  BY <1>2
<1> QED
  BY <1>2, <1>3, <1>5, <1>6, <1>7, <1>8, CallFrame

\* A commit.
LEMMA CommitIInv ==
  ASSUME IInv, NEW s \in Calls, Commit(s)
  PROVE  IInv'
<1>1. PICK k : k = tx[s]
  OBVIOUS
<1>2. /\ Running(s) /\ db' \in [Columns -> Nat]
      /\ rows' = rows \cup Inserted(s, k) /\ \A r \in rows : r.by # s
      /\ \A l \in locks' : l \in locks
  BY <1>1, CommitStore
<1>3. /\ CallType(s, tx'[s]) /\ tx'[s].answer \in {"done", "lost"} /\ DOMAIN tx' = Calls
      /\ \A t \in Calls : t # s => tx'[t] = tx[t]
  BY CommitCalls
<1>4. IsFiniteSet(rows') /\ \A c \in {"yen", "hp", "xp"} \cup Items : db'[c] = Start[c] + Change(c)'
  BY CommitLedger
<1>5. TypeOK'
  <2>1. ASSUME NEW r \in rows'
        PROVE  /\ r.table \in {"economy", "progression", "purchases"}
               /\ r.table # "purchases" => \A c \in DOMAIN r.delta : r.delta[c] \in Int
               /\ r.table = "purchases" => r.win \in BOOLEAN
               /\ r.by \in Calls /\ tx'[r.by].answer \in {"done", "lost"}
    <3>1. CASE r \in rows
      BY <1>2, <1>3, <3>1 DEF IInv, TypeOK
    <3>2. CASE r \in Inserted(s, k)
      BY <1>1, <1>3, <3>2, InsertedTypes, InsertedRows
    <3> QED
      BY <1>2, <2>1, <3>1, <3>2
  <2>2. \A t \in Calls : CallType(t, tx'[t])
    BY <1>3 DEF IInv, TypeOK
  <2>3. \A l \in locks' : l.by \in Calls /\ l.mode \in {"share", "nokey", "update"}
    BY <1>2 DEF IInv, TypeOK
  <2> QED
    BY <1>2, <1>3, <1>4, <2>1, <2>2, <2>3 DEF TypeOK
<1>6. Exclusive'
  BY <1>2 DEF IInv, Exclusive
<1>7. \A t \in Calls : Running(t)' => CallOK(t)'
  <2> SUFFICES ASSUME NEW t \in Calls, Running(t)' PROVE CallOK(t)'
    OBVIOUS
  <2>1. t # s
    BY <1>3 DEF Running
  <2>2. Running(t)
    BY <1>3, <2>1 DEF Running
  <2> QED
    BY <2>1, <2>2, CommitOthers
<1>8. LedgerAgrees'
  BY <1>4, CommitLimits, CommitHeals DEF LedgerAgrees
<1> QED
  BY <1>5, <1>6, <1>7, <1>8, CommitCharges, CommitSaves DEF IInv

-----------------------------------------------------------------------------
(* A statement *)

\* The call that sends a statement.
LEMMA Sending ==
  ASSUME IInv, NEW s \in Calls, NEW st, Doing(s) = st, st # "nothing", NEW k, k = tx[s]
  PROVE  /\ Running(s) /\ CallOK(s) /\ CallType(s, k)
         /\ k.op \in Ops[s] /\ k.op.kind \in Kinds
         /\ k.at \in 1..Len(Program[k.op.kind]) /\ Program[k.op.kind][k.at] = st
         /\ ~Replayed(k) /\ Past(k) = Before(k.op.kind, k.at)
<1>1. Running(s) /\ ~AtEnd(s) /\ st = Program[k.op.kind][k.at]
  BY DEF Doing, Op
<1>2. CallOK(s) /\ CallType(s, k)
  BY <1>1 DEF IInv, TypeOK
<1>3. k.op \in Ops[s] /\ k.at \in Nat /\ k.at > 0
  BY <1>1, <1>2 DEF CallType, Running
<1>4. k.op.kind \in Kinds /\ Len(Program[k.op.kind]) \in Nat
  BY <1>3, OperationFacts, StatementCounts
<1>5. k.at \in 1..Len(Program[k.op.kind])
  BY <1>1, <1>3, <1>4 DEF AtEnd, Op
<1>6. ~Replayed(k)
  <2>1. k.at <= Len(Program[k.op.kind])
    BY <1>4, <1>5
  <2>2. k.op.kind = "buy" => Program[k.op.kind] = Program["buy"]
    OBVIOUS
  <2>3. k.op.kind = "buy" => k.at <= 6
    BY <2>1, <2>2, StatementCounts
  <2> QED
    BY <1>3, <2>3, StatementCounts DEF Replayed
<1> QED
  BY <1>1, <1>2, <1>3, <1>4, <1>5, <1>6 DEF Past, Before

\* The statements sent, after one more.
LEMMA PastNext ==
  ASSUME NEW k, NEW m, k.op.kind \in Kinds, k.at \in 1..Len(Program[k.op.kind]),
         ~Replayed(k), NEW st, Program[k.op.kind][k.at] = st,
         m.op = k.op, m.at = k.at + 1, st = "economy" => m.rows # {}
  PROVE  ~Replayed(m) /\ Past(m) = Past(k) \cup {st}
<1>1. Len(Program[k.op.kind]) \in Nat /\ k.at \in Nat
  BY StatementCounts
<1>2. ~Replayed(m)
  <2> SUFFICES ASSUME k.op.kind = "buy", m.at > 6 PROVE m.rows # {}
    BY StatementCounts DEF Replayed
  <2>1. k.at = 6
    BY StatementCounts
  <2>2. st = "economy"
    BY <2>1, Programs
  <2> QED
    BY <2>2
<1>3. \A i : i \in 1..(m.at - 1) <=> i \in 1..(k.at - 1) \/ i = k.at
  BY <1>1
<1>4. Past(k) = {Program[k.op.kind][i] : i \in 1..(k.at - 1)}
  BY DEF Past
<1>5. Past(m) = {Program[k.op.kind][i] : i \in 1..(m.at - 1)}
  BY <1>2 DEF Past
<1> QED
  BY ONLY <1>2, <1>3, <1>4, <1>5, Program[k.op.kind][k.at] = st

\* What a statement leaves alone.
LEMMA NothingWritten ==
  ASSUME NEW k, NEW m, NEW st, NEW d, Past(m) = Past(k) \cup {st}, ChangesOK(k, d),
         m.op = k.op, m.win = k.win, DOMAIN m.new = DOMAIN k.new,
         \A c \in DOMAIN k.new : m.new[c] = k.new[c],
         st \notin {"pay", "hp", "xp", "score", "dialogue", "hide", "stack", "store", "prize"}
  PROVE  Changed(m) = Changed(k) /\ ChangesOK(m, d)
<1>1. Changed(m) = Changed(k)
  BY DEF Changed
<1>2. Quantity(m) = Quantity(k)
  BY DEF Quantity
<1> QED
  BY <1>1, <1>2 DEF ChangesOK

\* A statement that reads no column.
LEMMA NothingRead ==
  ASSUME NEW k, NEW m, NEW st, NEW d, Past(m) = Past(k) \cup {st}, ReadsOK(k, d),
         m.op = k.op, DOMAIN m.seen = DOMAIN k.seen,
         \A c \in DOMAIN k.seen : m.seen[c] = k.seen[c],
         "take" \in Past(k) => k.op.item \in Known(k),
         "full" \in Past(k) => "hp" \in Known(k),
         st \notin {"lock", "full", "best", "take"}
  PROVE  Known(m) = Known(k) /\ ReadsOK(m, d)
<1>1. Known(m) = Known(k)
  BY DEF Known
<1> QED
  BY <1>1 DEF ReadsOK

\* A statement that inserts no row.
LEMMA NothingInserted ==
  ASSUME NEW s, NEW k, NEW m, NEW st, Past(m) = Past(k) \cup {st}, k.rows = Inserted(s, k),
         m.op = k.op, m.win = k.win, m.rows = k.rows,
         "progress" \in Past(k) /\ k.op.kind # "award" =>
            m.new["hp"] = k.new["hp"] /\ m.seen["hp"] = k.seen["hp"],
         st \notin {"economy", "progress", "sale"}
  PROVE  m.rows = Inserted(s, m)
<1>1. EconomyRow(s, m) = EconomyRow(s, k)
  BY DEF EconomyRow, Quantity
<1>2. SaleRow(s, m) = SaleRow(s, k)
  BY DEF SaleRow
<1>3. "progress" \in Past(k) => ProgressionRow(s, m) = ProgressionRow(s, k)
  BY DEF ProgressionRow
<1> QED
  BY <1>1, <1>2, <1>3 DEF Inserted

\* A statement that writes one column.
LEMMA OneWritten ==
  ASSUME NEW k, NEW m, NEW d, ChangesOK(k, d), m.op = k.op, m.win = k.win,
         NEW c \in Columns, c \notin Changed(k), NEW v \in Nat,
         NEW w, w = [x \in {c} |-> v],
         m.new = Updated(k.new, w), Changed(m) = Changed(k) \cup {c},
         c = "yen" => v = d["yen"] + k.op.yen,
         c = "xp" => v = d["xp"] + k.op.amount,
         c = "hp" => v <= MaxHP,
         c = "hp" /\ k.op.kind = "use" => v > d["hp"],
         c = "score" => v >= d["score"] /\ v >= k.op.amount,
         c = "dialogue" => v = d["dialogue"] + 1,
         c \in Items => v = d[c] + Quantity(k) /\ v <= MaxStack[c]
  PROVE  /\ ChangesOK(m, d)
         /\ \A x \in Changed(k) : m.new[x] = k.new[x]
<1>1. DOMAIN k.new = Changed(k)
  BY DEF ChangesOK
<1>2. /\ DOMAIN m.new = Changed(k) \cup {c} /\ m.new[c] = v
      /\ \A x \in Changed(k) : m.new[x] = k.new[x]
  BY <1>1 DEF Updated
<1>3. Quantity(m) = Quantity(k)
  BY DEF Quantity
<1>4. /\ "yen" \in Changed(m) => m.new["yen"] = d["yen"] + m.op.yen
      /\ "xp" \in Changed(m) => m.new["xp"] = d["xp"] + m.op.amount
      /\ "score" \in Changed(m) => m.new["score"] >= d["score"] /\ m.new["score"] >= m.op.amount
      /\ "dialogue" \in Changed(m) => m.new["dialogue"] = d["dialogue"] + 1
  BY <1>2 DEF ChangesOK
<1>5. "hp" \in Changed(m) => /\ m.new["hp"] <= MaxHP
                             /\ m.op.kind = "use" => m.new["hp"] > d["hp"]
  BY <1>2 DEF ChangesOK
<1>6. \A i \in Items : i \in Changed(m) => /\ m.new[i] = d[i] + Quantity(m)
                                           /\ m.new[i] <= MaxStack[i]
  BY <1>2, <1>3 DEF ChangesOK
<1>7. \A x \in Changed(m) : m.new[x] \in Nat
  BY <1>2 DEF ChangesOK
<1> QED
  BY <1>2, <1>4, <1>5, <1>6, <1>7 DEF ChangesOK

\* A statement that reads columns.
LEMMA SomeRead ==
  ASSUME NEW k, NEW m, NEW d, ReadsOK(k, d), m.op = k.op,
         NEW C \in SUBSET Columns, NEW f, DOMAIN f = C, \A c \in C : f[c] = d[c],
         m.seen = Updated(k.seen, f), Known(m) = Known(k) \cup C,
         "take" \in Past(m) => \/ "take" \in Past(k)
                               \/ k.op.item \in C /\ d[k.op.item] >= k.op.amount,
         "take" \in Past(k) => k.op.item \in Known(k),
         "full" \in Past(m) => \/ "full" \in Past(k)
                               \/ "hp" \in C /\ d["hp"] < MaxHP,
         "full" \in Past(k) => "hp" \in Known(k)
  PROVE  ReadsOK(m, d)
<1>1. DOMAIN k.seen = Known(k) /\ \A c \in Known(k) : k.seen[c] = d[c]
  BY DEF ReadsOK
<1>2. DOMAIN m.seen = Known(m) /\ \A c \in Known(m) : m.seen[c] = d[c]
  BY <1>1 DEF Updated
<1>3. "take" \in Past(m) => m.seen[m.op.item] >= m.op.amount
  BY <1>1, <1>2 DEF ReadsOK
<1>4. "full" \in Past(m) => m.seen["hp"] < MaxHP
  BY <1>1, <1>2 DEF ReadsOK
<1> QED
  BY <1>2, <1>3, <1>4 DEF ReadsOK

\* A statement takes its row lock.
Locked(s, row) == \E w \in Wants(s) : w.row = row /\ w.mode # "share"

\* A call sends a statement, in terms of the call before and after it.
LEMMA CallAdvances ==
  ASSUME IInv, NEW s \in Calls, Running(s), ~Waits(s), NEW k, k = tx[s], NEW m,
         tx' = [tx EXCEPT ![s] = m], locks' = locks \cup Wants(s), db' = db, rows' = rows,
         k.op \in Ops[s], m = Fields(m), m.op = k.op, m.answer = "open", m.win \in BOOLEAN,
         m.at \in Nat, m.at > 0, m.at <= Len(Program[m.op.kind]) + 1,
         ChangesOK(m, db), ReadsOK(m, db), m.rows = Inserted(s, m),
         \A c \in Changed(m) \cup Known(m) :
            c \in Changed(k) \cup Known(k) \/ Locked(s, Row(c)),
         "key" \in Past(m) /\ m.op.key # Empty =>
            \/ "key" \in Past(k)
            \/ /\ Locked(s, <<EventTable(m.op), m.op.key>>)
               /\ ~Taken(EventTable(m.op), m.op.key),
         "sale" \in Past(m) =>
            \/ "sale" \in Past(k)
            \/ Locked(s, <<"purchases", m.op.key>>) /\ Sale(m.op) = {},
         Replayed(m) => \E r \in Sale(m.op) : r.machine = m.op.machine /\ r.win = m.win
  PROVE  IInv'
<1>1. /\ Exclusive'
      /\ \A l \in locks' : l.by \in Calls /\ l.mode \in {"share", "nokey", "update"}
  BY LocksTaken
<1>2. CallType(s, m)
  BY DEF CallType
<1>3. tx[s].answer = "open"
  BY DEF Running
<1>4. tx'[s] = m
  BY DEF IInv, TypeOK
<1>5. \A row : Holds(s, row) \/ Locked(s, row) => Holds(s, row)'
  BY WantsType DEF Holds, Locked
<1>6. CallOK(s)'
  <2>1. CallOK(s)
    BY DEF IInv
  <2>2. \A c \in Changed(m) \cup Known(m) : Holds(s, Row(c))'
    BY <1>5, <2>1 DEF CallOK
  <2>3. "key" \in Past(m) /\ m.op.key # Empty =>
           /\ Holds(s, <<EventTable(m.op), m.op.key>>)'
           /\ ~Taken(EventTable(m.op), m.op.key)
    BY <1>5, <2>1 DEF CallOK
  <2>4. "sale" \in Past(m) => Holds(s, <<"purchases", m.op.key>>)' /\ Sale(m.op) = {}
    BY <1>5, <2>1 DEF CallOK
  <2>5. Taken(EventTable(m.op), m.op.key)' = Taken(EventTable(m.op), m.op.key)
    BY DEF Taken
  <2>6. Sale(m.op)' = Sale(m.op)
    BY DEF Sale
  <2> QED
    BY <1>4, <2>2, <2>3, <2>4, <2>5, <2>6 DEF CallOK, Taken, Sale
<1> QED
  BY <1>1, <1>2, <1>3, <1>6, CallMoves

\* The fields of the call after a statement.
LEMMA SentFields ==
  ASSUME NEW k, NEW at, NEW seen, NEW new, NEW inserts, NEW win \in BOOLEAN, NEW m,
         m = Sent(k, at, seen, new, inserts, win)
  PROVE  /\ m = Fields(m) /\ m.op = k.op /\ m.at = at /\ m.seen = seen /\ m.new = new
         /\ m.rows = inserts /\ m.win = win /\ m.answer = k.answer
<1>1. m.op = k.op /\ m.at = at /\ m.seen = seen /\ m.new = new /\ m.rows = inserts
  BY DEF Sent
<1>2. m.win = win
  BY DEF Sent
<1>3. m.answer = k.answer
  BY DEF Sent
<1>4. m = Fields(m)
  BY <1>1, <1>2, <1>3 DEF Sent, Fields
<1> QED
  BY <1>1, <1>2, <1>3, <1>4


\* The call after a statement that does not end it.
LEMMA Proceeding ==
  ASSUME IInv, NEW s \in Calls, Running(s), NEW k, k = tx[s],
         NEW writes, NEW reads, NEW inserts, Proceed(s, writes, reads, inserts),
         NEW m, m = tx'[s]
  PROVE  /\ tx' = [tx EXCEPT ![s] = m] /\ locks' = locks \cup Wants(s)
         /\ db' = db /\ rows' = rows
         /\ m = Fields(m) /\ m.op = k.op /\ m.at = k.at + 1
         /\ m.seen = Updated(k.seen, reads) /\ m.new = Updated(k.new, writes)
         /\ m.rows = k.rows \cup inserts /\ m.win = k.win /\ m.win \in BOOLEAN
         /\ m.answer = "open"
<1>1. DOMAIN tx = Calls
  BY DEF IInv, TypeOK
<1>2. m = Sent(k, k.at + 1, Updated(k.seen, reads), Updated(k.new, writes),
               k.rows \cup inserts, k.win)
  BY <1>1 DEF Proceed
<1>3. k.win \in BOOLEAN /\ k.answer = "open"
  BY DEF IInv, TypeOK, CallType, Running
<1>4. /\ m = Fields(m) /\ m.op = k.op /\ m.at = k.at + 1
      /\ m.seen = Updated(k.seen, reads) /\ m.new = Updated(k.new, writes)
      /\ m.rows = k.rows \cup inserts /\ m.win = k.win /\ m.answer = "open"
  BY <1>2, <1>3, SentFields
<1>5. tx' = [tx EXCEPT ![s] = m]
  BY <1>1, <1>2 DEF Proceed
<1> QED
  BY <1>3, <1>4, <1>5 DEF Proceed

\* The call after a statement, from what the statement wrote, read and inserted.
LEMMA Sends ==
  ASSUME IInv, NEW s \in Calls, NEW st, Doing(s) = st, st # "nothing", ~Waits(s),
         NEW k, k = tx[s], NEW m,
         tx' = [tx EXCEPT ![s] = m], locks' = locks \cup Wants(s), db' = db, rows' = rows,
         m = Fields(m), m.op = k.op, m.at = k.at + 1, m.answer = "open", m.win \in BOOLEAN,
         Past(m) = Past(k) \cup {st}, ~Replayed(m),
         ChangesOK(m, db), ReadsOK(m, db), m.rows = Inserted(s, m),
         \A c \in Changed(m) \cup Known(m) :
            c \in Changed(k) \cup Known(k) \/ Locked(s, Row(c)),
         st = "key" /\ k.op.key # Empty =>
            /\ Locked(s, <<EventTable(k.op), k.op.key>>)
            /\ ~Taken(EventTable(k.op), k.op.key),
         st = "sale" => Locked(s, <<"purchases", k.op.key>>) /\ Sale(k.op) = {}
  PROVE  IInv'
<1>1. /\ Running(s) /\ k.op \in Ops[s] /\ k.op.kind \in Kinds
      /\ k.at \in 1..Len(Program[k.op.kind])
  BY Sending
<1>2. m.at \in Nat /\ m.at > 0 /\ m.at <= Len(Program[m.op.kind]) + 1
  BY <1>1, StatementCounts
<1>3. "key" \in Past(m) /\ m.op.key # Empty =>
        \/ "key" \in Past(k)
        \/ /\ Locked(s, <<EventTable(m.op), m.op.key>>)
           /\ ~Taken(EventTable(m.op), m.op.key)
  BY ONLY Past(m) = Past(k) \cup {st}, m.op = k.op,
          st = "key" /\ k.op.key # Empty =>
            /\ Locked(s, <<EventTable(k.op), k.op.key>>)
            /\ ~Taken(EventTable(k.op), k.op.key)
<1>4. "sale" \in Past(m) =>
        \/ "sale" \in Past(k)
        \/ Locked(s, <<"purchases", m.op.key>>) /\ Sale(m.op) = {}
  BY ONLY Past(m) = Past(k) \cup {st}, m.op = k.op,
          st = "sale" => Locked(s, <<"purchases", k.op.key>>) /\ Sale(k.op) = {}
<1> QED
  BY <1>1, <1>2, <1>3, <1>4, CallAdvances

\* What has been done before a statement, by the kind of the call.
LEMMA PastKinds ==
  ASSUME IInv, NEW s \in Calls, NEW st, Doing(s) = st, st # "nothing", NEW k, k = tx[s]
  PROVE  /\ "pay" \in Past(k) => k.op.kind \in {"credit", "spend", "buy"}
         /\ "stack" \in Past(k) => k.op.kind = "grant"
         /\ "take" \in Past(k) => k.op.kind \in {"consume", "use"}
         /\ "store" \in Past(k) => k.op.kind \in {"consume", "use"}
         /\ "prize" \in Past(k) => k.op.kind = "buy"
         /\ "progress" \in Past(k) /\ k.op.kind # "award" =>
               {"hp", "lock"} \subseteq Past(k)
         /\ "hp" \in Past(k) => "lock" \in Past(k)
<1>1. /\ k.op.kind \in Kinds /\ k.at \in 1..Len(Program[k.op.kind])
      /\ Past(k) = Before(k.op.kind, k.at) /\ Len(Program[k.op.kind]) \in Nat
  BY Sending, StatementCounts
<1>2. k.at \in Nat /\ k.at <= Len(Program[k.op.kind]) + 1
  BY <1>1
<1>3. \A x \in {"progress", "hp"} \cap Past(k) :
        \E j \in 1..Len(Program[k.op.kind]) :
           /\ x = Program[k.op.kind][j]
           /\ Before(k.op.kind, j) \subseteq Past(k)
  <2> SUFFICES ASSUME NEW x \in {"progress", "hp"} \cap Past(k)
               PROVE  \E j \in 1..Len(Program[k.op.kind]) :
                         /\ x = Program[k.op.kind][j]
                         /\ Before(k.op.kind, j) \subseteq Past(k)
    OBVIOUS
  <2>1. PICK j \in 1..(k.at - 1) : x = Program[k.op.kind][j]
    BY <1>1 DEF Before
  <2>2. j \in 1..Len(Program[k.op.kind]) /\ 1..(j - 1) \subseteq 1..(k.at - 1)
    BY <1>1, <1>2
  <2> QED
    BY <1>1, <2>1, <2>2 DEF Before
<1>4. "hp" \in Past(k) => "lock" \in Past(k)
  BY <1>1, <1>3, StatementOrder
<1>5. "progress" \in Past(k) /\ k.op.kind # "award" => "hp" \in Past(k)
  BY <1>1, <1>3, StatementOrder
<1>6. \A x \in Past(k) :
        /\ x = "pay" => k.op.kind \in {"credit", "spend", "buy"}
        /\ x = "stack" => k.op.kind = "grant"
        /\ x \in {"take", "store"} => k.op.kind \in {"consume", "use"}
        /\ x = "prize" => k.op.kind = "buy"
  BY <1>1, <1>2, BeforeKinds
<1> QED
  BY <1>4, <1>5, <1>6


\* The columns that a call has met so far.
LEMMA ColumnsMet ==
  ASSUME IInv, NEW s \in Calls, NEW st, Doing(s) = st, st # "nothing", NEW k, k = tx[s]
  PROVE  /\ DOMAIN k.new = Changed(k) /\ DOMAIN k.seen = Known(k)
         /\ "take" \in Past(k) => k.op.item \in Known(k)
         /\ "full" \in Past(k) => "hp" \in Known(k)
         /\ "hp" \in Past(k) => "hp" \in Changed(k) /\ "hp" \in Known(k)
         /\ "progress" \in Past(k) /\ k.op.kind # "award" =>
               "hp" \in Changed(k) /\ "hp" \in Known(k)
<1>1. CallOK(s) /\ k.op \in Ops[s]
  BY Sending
<1>2. DOMAIN k.new = Changed(k) /\ DOMAIN k.seen = Known(k)
  BY <1>1 DEF CallOK, ChangesOK, ReadsOK
<1>3. "take" \in Past(k) => k.op.item \in Columns
  BY <1>1, PastKinds, OperationFacts, ColumnFacts
<1>4. "take" \in Past(k) => k.op.item \in Known(k)
  BY <1>3 DEF Known
<1>5. "full" \in Past(k) \/ "lock" \in Past(k) => "hp" \in Known(k)
  BY ColumnFacts DEF Known
<1>6. "hp" \in Past(k) => "hp" \in Changed(k)
  BY ColumnFacts DEF Changed
<1> QED
  BY <1>2, <1>4, <1>5, <1>6, PastKinds

\* The columns that a statement writes or reads.
Written(st, o) == CASE st = "pay" -> "yen" [] st = "hide" -> "alive"
                    [] st \in {"stack", "store", "prize"} -> o.item [] OTHER -> st
Asked(st, o) == CASE st = "take" -> {o.item} [] st = "best" -> {"score"}
                  [] OTHER -> {"hp", "xp"}
Writes == {"pay", "hp", "xp", "score", "dialogue", "hide", "stack", "store", "prize"}
Reads == {"take", "lock", "full", "best"}

\* A column is written once by a call.
LEMMA OneChanged ==
  ASSUME IInv, NEW s \in Calls, NEW st, Doing(s) = st, st \in Writes, NEW k, k = tx[s],
         st = "prize" => k.win, NEW c, c = Written(st, k.op)
  PROVE  /\ c \in Columns /\ c \notin Changed(k)
         /\ \A m : Past(m) = Past(k) \cup {st} /\ m.op = k.op /\ m.win = k.win =>
               Changed(m) = Changed(k) \cup {c}
<1>1. /\ st # "nothing" /\ k.op \in Ops[s] /\ k.op.kind \in Kinds
      /\ k.at \in 1..Len(Program[k.op.kind])
      /\ Program[k.op.kind][k.at] = st /\ Past(k) = Before(k.op.kind, k.at)
  BY Sending DEF Writes
<1>2. st \notin Past(k)
  BY <1>1, StatementOrder
<1>3. /\ st = "stack" => k.op.kind = "grant"
      /\ st = "store" => k.op.kind \in {"consume", "use"}
      /\ st = "prize" => k.op.kind = "buy"
  BY <1>1, StatementKinds
<1>4. /\ "stack" \in Past(k) => k.op.kind = "grant"
      /\ "store" \in Past(k) => k.op.kind \in {"consume", "use"}
      /\ "prize" \in Past(k) => k.op.kind = "buy"
  BY <1>1, PastKinds
<1>5. k.op.kind \in {"grant", "consume", "use", "buy"} => k.op.item \in Items
  BY <1>1, OperationFacts
<1>6. /\ st \in {"stack", "store", "prize"} => c \in Items /\ c = k.op.item
      /\ st \notin {"stack", "store", "prize"} =>
            c \in {"alive", "yen", "hp", "xp", "score", "dialogue"}
  BY <1>3, <1>5 DEF Written, Writes
<1>7. c \in Columns
  BY <1>6, ColumnFacts
<1>8. c \notin Changed(k)
  <2>1. CASE st \in {"stack", "store", "prize"}
    BY <2>1, <1>2, <1>3, <1>4, <1>6, ColumnFacts DEF Changed
  <2>2. CASE st \notin {"stack", "store", "prize"}
    <3>1. c = k.op.item => /\ "stack" \notin Past(k) /\ "store" \notin Past(k)
                           /\ "prize" \notin Past(k)
      BY <2>2, <1>4, <1>5, <1>6, ColumnFacts
    <3> QED
      BY <2>2, <3>1, <1>2 DEF Changed, Written, Writes
  <2> QED
    BY <2>1, <2>2
<1>9. ASSUME NEW m, Past(m) = Past(k) \cup {st}, m.op = k.op, m.win = k.win
      PROVE  Changed(m) = Changed(k) \cup {c}
  <2>1. CASE st \in {"stack", "store", "prize"}
    BY <2>1, <1>6, <1>7, <1>9 DEF Changed
  <2>2. CASE st \notin {"stack", "store", "prize"}
    BY <2>2, <1>7, <1>9, ColumnFacts DEF Changed, Written, Writes
  <2> QED
    BY <2>1, <2>2
<1> QED
  BY <1>7, <1>8, <1>9


\* The statements that write a column.
LEMMA WriteIInv ==
  ASSUME IInv, NEW s \in Calls, NEW st, Doing(s) = st, st \in Writes, ~Waits(s),
         NEW k, k = tx[s], st = "prize" => k.win,
         NEW c, c = Written(st, k.op), Locked(s, Row(c)),
         NEW v \in Nat, Write(s, c, v),
         c = "yen" => v = db["yen"] + k.op.yen,
         c = "xp" => v = db["xp"] + k.op.amount,
         c = "hp" => v <= MaxHP,
         c = "hp" /\ k.op.kind = "use" => v > db["hp"],
         c = "score" => v >= db["score"] /\ v >= k.op.amount,
         c = "dialogue" => v = db["dialogue"] + 1,
         c \in Items => v = db[c] + Quantity(k) /\ v <= MaxStack[c]
  PROVE  IInv'
<1>0. st # "nothing" /\ st \notin {"economy", "progress", "sale", "key"} /\ st \notin Reads
  BY DEF Writes, Reads
<1>1. /\ Running(s) /\ CallOK(s) /\ k.op.kind \in Kinds /\ ~Replayed(k)
      /\ k.at \in 1..Len(Program[k.op.kind]) /\ Program[k.op.kind][k.at] = st
  BY <1>0, Sending
<1> PICK w : w = [x \in {c} |-> v]
  OBVIOUS
<1> PICK m : m = tx'[s]
  OBVIOUS
<1>2. /\ tx' = [tx EXCEPT ![s] = m] /\ locks' = locks \cup Wants(s)
      /\ db' = db /\ rows' = rows
      /\ m = Fields(m) /\ m.op = k.op /\ m.at = k.at + 1
      /\ m.seen = Updated(k.seen, Nothing) /\ m.new = Updated(k.new, w)
      /\ m.rows = k.rows \cup {} /\ m.win = k.win /\ m.answer = "open"
  <2>1. Proceed(s, w, Nothing, {})
    BY DEF Write
  <2> QED
    <3>1. PICK nothing, none : nothing = Nothing /\ none = {}
      OBVIOUS
    <3>2. Proceed(s, w, nothing, none)
      BY <2>1, <3>1
    <3>3. /\ tx' = [tx EXCEPT ![s] = m] /\ locks' = locks \cup Wants(s)
          /\ db' = db /\ rows' = rows
          /\ m = Fields(m) /\ m.op = k.op /\ m.at = k.at + 1
          /\ m.seen = Updated(k.seen, nothing) /\ m.new = Updated(k.new, w)
          /\ m.rows = k.rows \cup none /\ m.win = k.win /\ m.answer = "open"
      BY ONLY IInv, <1>1, k = tx[s], m = tx'[s], <3>2, Proceeding
    <3> QED
      BY <3>1, <3>3
<1>3. m.win \in BOOLEAN
  BY <1>2 DEF IInv, TypeOK, CallType
<1>4. ~Replayed(m) /\ Past(m) = Past(k) \cup {st}
  <2>1. st = "economy" => m.rows # {}
    BY <1>0
  <2> QED
    BY ONLY <1>1, <1>2, <2>1, PastNext
<1>5. c \in Columns /\ c \notin Changed(k) /\ Changed(m) = Changed(k) \cup {c}
  BY <1>2, <1>4, OneChanged
<1>6. ChangesOK(k, db) /\ ReadsOK(k, db) /\ k.rows = Inserted(s, k)
  BY <1>1 DEF CallOK
<1>7. ChangesOK(m, db) /\ \A x \in Changed(k) : m.new[x] = k.new[x]
  BY <1>2, <1>5, <1>6, OneWritten
<1>8. DOMAIN m.seen = DOMAIN k.seen /\ \A x \in DOMAIN k.seen : m.seen[x] = k.seen[x]
  BY <1>2 DEF Updated, Nothing
<1>9. Known(m) = Known(k) /\ ReadsOK(m, db)
  <2>1. /\ "take" \in Past(k) => k.op.item \in Known(k)
        /\ "full" \in Past(k) => "hp" \in Known(k)
    BY <1>0, ColumnsMet
  <2>2. st \notin {"lock", "full", "best", "take"}
    BY <1>0 DEF Reads
  <2> QED
    BY ONLY <1>2, <1>4, <1>6, <1>8, <2>1, <2>2, NothingRead
<1>10. m.rows = Inserted(s, m)
  <2>1. "progress" \in Past(k) /\ k.op.kind # "award" =>
          m.new["hp"] = k.new["hp"] /\ m.seen["hp"] = k.seen["hp"]
    BY <1>0, <1>7, <1>8, ColumnsMet
  <2>2. m.rows = k.rows /\ st \notin {"economy", "progress", "sale"}
    BY <1>0, <1>2
  <2> QED
    BY ONLY <1>2, <1>4, <1>6, <2>1, <2>2, NothingInserted
<1>11. \A x \in Changed(m) \cup Known(m) :
         x \in Changed(k) \cup Known(k) \/ Locked(s, Row(x))
  BY <1>5, <1>9
<1> QED
  BY <1>0, <1>2, <1>3, <1>4, <1>7, <1>9, <1>10, <1>11, Sends

\* A column that a statement reads has not been changed by its call.
LEMMA OneKnown ==
  ASSUME IInv, NEW s \in Calls, NEW st, Doing(s) = st, st \in Reads, NEW k, k = tx[s],
         NEW C, C = Asked(st, k.op)
  PROVE  /\ C \in SUBSET Columns /\ \A c \in C : Sees(s)[c] = db[c]
         /\ \A m : Past(m) = Past(k) \cup {st} /\ m.op = k.op => Known(m) = Known(k) \cup C
         /\ "progress" \in Past(k) => k.op.kind = "award"
<1>1. /\ st # "nothing" /\ k.op \in Ops[s] /\ k.op.kind \in Kinds
      /\ k.at \in 1..Len(Program[k.op.kind])
      /\ Program[k.op.kind][k.at] = st /\ Past(k) = Before(k.op.kind, k.at)
  BY Sending DEF Reads
<1>2. /\ st \in {"lock", "full"} => "hp" \notin Past(k) /\ "xp" \notin Past(k)
      /\ st = "take" => "store" \notin Past(k)
      /\ st = "best" => "score" \notin Past(k)
      /\ "progress" \in Past(k) => k.op.kind = "award"
  BY <1>1, StatementOrder DEF Reads
<1>3. st = "take" => k.op.kind \in {"consume", "use"} /\ k.op.item \in Items
  BY <1>1, StatementKinds, OperationFacts
<1>4. /\ "stack" \in Past(k) => k.op.kind = "grant"
      /\ "store" \in Past(k) => k.op.kind \in {"consume", "use"}
      /\ "prize" \in Past(k) => k.op.kind = "buy"
  BY <1>1, PastKinds
<1>5. k.op.kind \in {"grant", "consume", "use", "buy"} => k.op.item \in Items
  BY <1>1, OperationFacts
<1>6. C \in SUBSET Columns
  BY <1>3, ColumnFacts DEF Asked, Reads
<1>7. \A c \in C : c \notin Changed(k)
  <2>1. CASE st = "take"
    <3>1. C = {k.op.item}
      BY <2>1 DEF Asked
    <3> QED
      BY <2>1, <3>1, <1>2, <1>3, <1>4, ColumnFacts DEF Changed
  <2>2. CASE st = "best"
    <3>1. C = {"score"}
      BY <2>2 DEF Asked
    <3>2. k.op.item = "score" => /\ "stack" \notin Past(k) /\ "store" \notin Past(k)
                                 /\ "prize" \notin Past(k)
      BY <1>4, <1>5, ColumnFacts
    <3> QED
      BY <2>2, <3>1, <3>2, <1>2 DEF Changed
  <2>3. CASE st \in {"lock", "full"}
    <3>1. C = {"hp", "xp"}
      BY <2>3 DEF Asked
    <3>2. k.op.item \in C => /\ "stack" \notin Past(k) /\ "store" \notin Past(k)
                             /\ "prize" \notin Past(k)
      BY <3>1, <1>4, <1>5, ColumnFacts
    <3> QED
      BY <2>3, <3>1, <3>2, <1>2 DEF Changed
  <2> QED
    BY <2>1, <2>2, <2>3 DEF Reads
<1>8. \A c \in C : Sees(s)[c] = db[c]
  BY <1>1, <1>6, <1>7, ColumnsMet DEF Sees
<1>9. ASSUME NEW m, Past(m) = Past(k) \cup {st}, m.op = k.op
      PROVE  Known(m) = Known(k) \cup C
  <2>1. CASE st = "take"
    BY <2>1, <1>6, <1>9, ColumnFacts DEF Known, Asked
  <2>2. CASE st = "best"
    BY <2>2, <1>6, <1>9, ColumnFacts DEF Known, Asked
  <2>3. CASE st \in {"lock", "full"}
    BY <2>3, <1>6, <1>9, ColumnFacts DEF Known, Asked
  <2> QED
    BY <2>1, <2>2, <2>3 DEF Reads
<1> QED
  BY <1>2, <1>6, <1>8, <1>9

\* The statements that read columns for update.
LEMMA ReadIInv ==
  ASSUME IInv, NEW s \in Calls, NEW st, Doing(s) = st, st \in Reads, ~Waits(s),
         NEW k, k = tx[s], NEW C, C = Asked(st, k.op), \A c \in C : Locked(s, Row(c)),
         Read(s, C),
         st = "take" => db[k.op.item] >= k.op.amount,
         st = "full" => db["hp"] < MaxHP
  PROVE  IInv'
<1>0. /\ st # "nothing" /\ st \notin {"economy", "progress", "sale", "key"}
      /\ st \notin {"pay", "hp", "xp", "score", "dialogue", "hide", "stack", "store", "prize"}
  BY DEF Reads
<1>1. /\ Running(s) /\ CallOK(s) /\ k.op.kind \in Kinds /\ ~Replayed(k)
      /\ k.at \in 1..Len(Program[k.op.kind]) /\ Program[k.op.kind][k.at] = st
  BY <1>0, Sending
<1>2. PICK f : f = [c \in C |-> Sees(s)[c]]
  OBVIOUS
<1> PICK m : m = tx'[s]
  OBVIOUS
<1>3. /\ tx' = [tx EXCEPT ![s] = m] /\ locks' = locks \cup Wants(s)
      /\ db' = db /\ rows' = rows
      /\ m = Fields(m) /\ m.op = k.op /\ m.at = k.at + 1
      /\ m.seen = Updated(k.seen, f) /\ m.new = Updated(k.new, Nothing)
      /\ m.rows = k.rows \cup {} /\ m.win = k.win /\ m.answer = "open"
  <2>1. Proceed(s, Nothing, f, {})
    BY <1>2 DEF Read
  <2> QED
    <3>1. PICK nothing, none : nothing = Nothing /\ none = {}
      OBVIOUS
    <3>2. Proceed(s, nothing, f, none)
      BY <2>1, <3>1
    <3>3. /\ tx' = [tx EXCEPT ![s] = m] /\ locks' = locks \cup Wants(s)
          /\ db' = db /\ rows' = rows
          /\ m = Fields(m) /\ m.op = k.op /\ m.at = k.at + 1
          /\ m.seen = Updated(k.seen, f) /\ m.new = Updated(k.new, nothing)
          /\ m.rows = k.rows \cup none /\ m.win = k.win /\ m.answer = "open"
      BY <1>1, <3>2, Proceeding
    <3> QED
      BY <3>1, <3>3
<1>4. m.win \in BOOLEAN
  BY <1>3 DEF IInv, TypeOK, CallType
<1>5. ~Replayed(m) /\ Past(m) = Past(k) \cup {st}
  <2>1. st = "economy" => m.rows # {}
    BY <1>0
  <2> QED
    BY ONLY <1>1, <1>3, <2>1, PastNext
<1>6. /\ C \in SUBSET Columns /\ DOMAIN f = C /\ \A c \in C : f[c] = db[c]
      /\ Known(m) = Known(k) \cup C
      /\ "progress" \in Past(k) => k.op.kind = "award"
  BY <1>2, <1>3, <1>5, OneKnown
<1>7. ChangesOK(k, db) /\ ReadsOK(k, db) /\ k.rows = Inserted(s, k)
  BY <1>1 DEF CallOK
<1>8. DOMAIN m.new = DOMAIN k.new /\ \A x \in DOMAIN k.new : m.new[x] = k.new[x]
  BY <1>3 DEF Updated, Nothing
<1>9. Changed(m) = Changed(k) /\ ChangesOK(m, db)
  BY <1>0, <1>3, <1>5, <1>7, <1>8, NothingWritten
<1>10. ReadsOK(m, db)
  <2>1. /\ "take" \in Past(m) => \/ "take" \in Past(k)
                                 \/ k.op.item \in C /\ db[k.op.item] >= k.op.amount
        /\ "full" \in Past(m) => \/ "full" \in Past(k)
                                 \/ "hp" \in C /\ db["hp"] < MaxHP
    BY <1>5 DEF Asked
  <2> QED
    BY <1>0, <1>3, <1>6, <1>7, <2>1, ColumnsMet, SomeRead
<1>11. m.rows = Inserted(s, m)
  <2>1. "progress" \in Past(k) /\ k.op.kind # "award" =>
          m.new["hp"] = k.new["hp"] /\ m.seen["hp"] = k.seen["hp"]
    BY <1>6
  <2>2. m.rows = k.rows /\ st \notin {"economy", "progress", "sale"}
    BY <1>0, <1>3
  <2> QED
    BY ONLY <1>3, <1>5, <1>7, <2>1, <2>2, NothingInserted
<1>12. \A x \in Changed(m) \cup Known(m) :
         x \in Changed(k) \cup Known(k) \/ Locked(s, Row(x))
  BY <1>6, <1>9
<1> QED
  BY <1>0, <1>3, <1>4, <1>5, <1>9, <1>10, <1>11, <1>12, Sends


\* The statements that insert a row, and those that change nothing.
LEMMA InsertIInv ==
  ASSUME IInv, NEW s \in Calls, NEW st, Doing(s) = st, ~Waits(s), NEW k, k = tx[s],
         st \in {"key", "lookup", "economy", "progress", "sale"},
         NEW inserts, Proceed(s, Nothing, Nothing, inserts),
         st \in {"key", "lookup"} => inserts = {},
         st = "economy" => inserts = {EconomyRow(s, k)},
         st = "progress" => inserts = {ProgressionRow(s, k)},
         st = "sale" => inserts = {SaleRow(s, k)},
         st = "key" /\ k.op.key # Empty =>
            /\ Locked(s, <<EventTable(k.op), k.op.key>>)
            /\ ~Taken(EventTable(k.op), k.op.key),
         st = "sale" => Locked(s, <<"purchases", k.op.key>>) /\ Sale(k.op) = {}
  PROVE  IInv'
<1>0. /\ st # "nothing" /\ st \notin {"lock", "full", "best", "take"}
      /\ st \notin {"pay", "hp", "xp", "score", "dialogue", "hide", "stack", "store", "prize"}
  OBVIOUS
<1>1. /\ Running(s) /\ CallOK(s) /\ k.op.kind \in Kinds /\ ~Replayed(k)
      /\ k.at \in 1..Len(Program[k.op.kind]) /\ Program[k.op.kind][k.at] = st
      /\ Past(k) = Before(k.op.kind, k.at)
  BY <1>0, Sending
<1> PICK m : m = tx'[s]
  OBVIOUS
<1>2. /\ tx' = [tx EXCEPT ![s] = m] /\ locks' = locks \cup Wants(s)
      /\ db' = db /\ rows' = rows
      /\ m = Fields(m) /\ m.op = k.op /\ m.at = k.at + 1
      /\ m.seen = Updated(k.seen, Nothing) /\ m.new = Updated(k.new, Nothing)
      /\ m.rows = k.rows \cup inserts /\ m.win = k.win /\ m.answer = "open"
  <2>1. PICK nothing : nothing = Nothing
    OBVIOUS
  <2>2. Proceed(s, nothing, nothing, inserts)
    BY <2>1
  <2>3. /\ tx' = [tx EXCEPT ![s] = m] /\ locks' = locks \cup Wants(s)
        /\ db' = db /\ rows' = rows
        /\ m = Fields(m) /\ m.op = k.op /\ m.at = k.at + 1
        /\ m.seen = Updated(k.seen, nothing) /\ m.new = Updated(k.new, nothing)
        /\ m.rows = k.rows \cup inserts /\ m.win = k.win /\ m.answer = "open"
    BY ONLY IInv, <1>1, k = tx[s], m = tx'[s], <2>2, Proceeding
  <2> QED
    BY <2>1, <2>3
<1>3. m.win \in BOOLEAN
  BY <1>2 DEF IInv, TypeOK, CallType
<1>4. ~Replayed(m) /\ Past(m) = Past(k) \cup {st}
  <2>1. st = "economy" => m.rows # {}
    BY <1>2
  <2> QED
    BY ONLY <1>1, <1>2, <2>1, PastNext
<1>5. ChangesOK(k, db) /\ ReadsOK(k, db) /\ k.rows = Inserted(s, k)
  BY <1>1 DEF CallOK
<1>6. /\ DOMAIN m.new = DOMAIN k.new /\ \A x \in DOMAIN k.new : m.new[x] = k.new[x]
      /\ DOMAIN m.seen = DOMAIN k.seen /\ \A x \in DOMAIN k.seen : m.seen[x] = k.seen[x]
  BY <1>2 DEF Updated, Nothing
<1>7. Changed(m) = Changed(k) /\ ChangesOK(m, db)
  BY ONLY <1>0, <1>2, <1>4, <1>5, <1>6, NothingWritten
<1>8. Known(m) = Known(k) /\ ReadsOK(m, db)
  <2>1. /\ "take" \in Past(k) => k.op.item \in Known(k)
        /\ "full" \in Past(k) => "hp" \in Known(k)
    BY <1>0, ColumnsMet
  <2> QED
    BY ONLY <1>0, <1>2, <1>4, <1>5, <1>6, <2>1, NothingRead
<1>9. m.rows = Inserted(s, m)
  <2>1. EconomyRow(s, m) = EconomyRow(s, k)
    BY <1>2 DEF EconomyRow, Quantity
  <2>2. SaleRow(s, m) = SaleRow(s, k)
    BY <1>2 DEF SaleRow
  <2>3. "progress" \in Past(m) => ProgressionRow(s, m) = ProgressionRow(s, k)
    <3>1. "progress" \in Past(m) /\ k.op.kind # "award" =>
            "hp" \in DOMAIN k.new /\ "hp" \in DOMAIN k.seen
      <4>1. st = "progress" /\ k.op.kind # "award" => "hp" \in Past(k)
        BY <1>1, StatementOrder
      <4> QED
        BY <1>0, <1>4, <4>1, ColumnsMet
    <3> QED
      BY <1>2, <1>6, <3>1 DEF ProgressionRow
  <2>4. st \notin Past(k)
    BY <1>1, StatementOrder
  <2> QED
    BY <1>2, <1>4, <1>5, <2>1, <2>2, <2>3, <2>4 DEF Inserted
<1>10. \A x \in Changed(m) \cup Known(m) :
         x \in Changed(k) \cup Known(k) \/ Locked(s, Row(x))
  BY <1>7, <1>8
<1> QED
  BY <1>0, <1>2, <1>3, <1>4, <1>7, <1>8, <1>9, <1>10, Sends


-----------------------------------------------------------------------------
(* Each statement *)

\* The locks of the statements.
LEMMA Locks ==
  ASSUME NEW s, NEW k, k = tx[s], NEW st, Doing(s) = st
  PROVE  /\ st = "key" /\ k.op.key # Empty => Locked(s, <<EventTable(k.op), k.op.key>>)
         /\ st \in {"pay", "lock", "full", "hide"} /\ Matches(s) => Locked(s, Character)
         /\ st \in {"xp", "hp"} => Locked(s, Character)
         /\ st \in {"stack", "store"} => Locked(s, <<"inventory", k.op.item>>)
         /\ st = "prize" /\ k.win => Locked(s, <<"inventory", k.op.item>>)
         /\ st = "take" /\ Matches(s) => Locked(s, <<"inventory", k.op.item>>)
         /\ st = "sale" => Locked(s, <<"purchases", k.op.key>>)
         /\ st \in {"best", "score"} => Locked(s, <<"arcade">>)
         /\ st = "dialogue" /\ Matches(s) => Locked(s, <<"dialogue">>)
<1>1. /\ st \in {"key", "xp", "hp", "stack", "store", "prize", "sale", "best", "score"}
            => Matches(s)
  BY DEF Matches
<1>2. ASSUME NEW row, NEW mode, mode # "share",
             [by |-> s, row |-> row, mode |-> mode] \in Wants(s)
      PROVE  Locked(s, row)
  <2>1. PICK w : w = [by |-> s, row |-> row, mode |-> mode]
    OBVIOUS
  <2> QED
    BY <1>2, <2>1 DEF Locked
<1>3. ASSUME Matches(s), st = "key", k.op.key # Empty
      PROVE  Locked(s, <<EventTable(k.op), k.op.key>>)
  <2>1. [by |-> s, row |-> <<EventTable(k.op), k.op.key>>, mode |-> "update"] \in Wants(s)
    BY <1>3 DEF Wants, Op
  <2> QED
    BY <1>2, <2>1
<1>4. ASSUME Matches(s), st \in {"pay", "hide", "xp", "hp", "lock", "full"}
      PROVE  Locked(s, Character)
  <2>1. \/ [by |-> s, row |-> Character, mode |-> "nokey"] \in Wants(s)
        \/ [by |-> s, row |-> Character, mode |-> "update"] \in Wants(s)
    BY <1>4 DEF Wants, ReadMode
  <2> QED
    BY <1>2, <2>1
<1>5. ASSUME Matches(s), st \in {"stack", "store", "take"} \/ (st = "prize" /\ k.win)
      PROVE  Locked(s, <<"inventory", k.op.item>>)
  <2>1. \/ [by |-> s, row |-> <<"inventory", k.op.item>>, mode |-> "nokey"] \in Wants(s)
        \/ [by |-> s, row |-> <<"inventory", k.op.item>>, mode |-> "update"] \in Wants(s)
    BY <1>5 DEF Wants, ReadMode, Op
  <2> QED
    BY <1>2, <2>1
<1>6. ASSUME Matches(s), st = "sale"
      PROVE  Locked(s, <<"purchases", k.op.key>>)
  <2>1. [by |-> s, row |-> <<"purchases", k.op.key>>, mode |-> "update"] \in Wants(s)
    BY <1>6 DEF Wants, Op
  <2> QED
    BY <1>2, <2>1
<1>7. ASSUME Matches(s), st \in {"best", "score"}
      PROVE  Locked(s, <<"arcade">>)
  <2>1. \/ [by |-> s, row |-> <<"arcade">>, mode |-> "nokey"] \in Wants(s)
        \/ [by |-> s, row |-> <<"arcade">>, mode |-> "update"] \in Wants(s)
    BY <1>7 DEF Wants, ReadMode
  <2> QED
    BY <1>2, <2>1
<1>8. ASSUME Matches(s), st = "dialogue"
      PROVE  Locked(s, <<"dialogue">>)
  <2>1. [by |-> s, row |-> <<"dialogue">>, mode |-> "nokey"] \in Wants(s)
    BY <1>8 DEF Wants
  <2> QED
    BY <1>2, <2>1
<1> QED
  BY <1>1, <1>3, <1>4, <1>5, <1>6, <1>7, <1>8

\* The event key is free, and stays so until the commit.
LEMMA KeyIInv ==
  ASSUME IInv, NEW s \in Calls, Key(s)
  PROVE  IInv'
<1>1. PICK k : k = tx[s]
  OBVIOUS
<1>2. Doing(s) = "key" /\ ~Waits(s) /\ Running(s)
  BY DEF Key, Reaches, Doing
<1>3. CASE Taken(EventTable(Op(s)), Op(s).key)
  BY <1>2, <1>3, RollbackIInv DEF Key
<1>4. CASE ~Taken(EventTable(Op(s)), Op(s).key)
  <2>1. PICK inserts : inserts = {}
    OBVIOUS
  <2>2. Proceed(s, Nothing, Nothing, inserts)
    BY <1>4, <2>1 DEF Key
  <2>3. k.op.key # Empty => /\ Locked(s, <<EventTable(k.op), k.op.key>>)
                            /\ ~Taken(EventTable(k.op), k.op.key)
    BY <1>1, <1>2, <1>4, Locks DEF Op
  <2> QED
    BY <1>1, <1>2, <2>1, <2>2, <2>3, InsertIInv
<1> QED
  BY <1>3, <1>4


\* The insert into economy_events.
LEMMA EconomyEventIInv ==
  ASSUME IInv, NEW s \in Calls, EconomyEvent(s)
  PROVE  IInv'
<1>1. PICK k : k = tx[s]
  OBVIOUS
<1>2. Doing(s) = "economy" /\ ~Waits(s)
  BY DEF EconomyEvent, Reaches
<1>3. PICK inserts : inserts = {EconomyRow(s, k)}
  OBVIOUS
<1>4. Proceed(s, Nothing, Nothing, inserts)
  BY <1>1, <1>3 DEF EconomyEvent, Event, EconomyRow, Op
<1> QED
  BY <1>1, <1>2, <1>3, <1>4, InsertIInv

\* The insert into progression_events says by how much health has changed.
LEMMA ProgressionEventIInv ==
  ASSUME IInv, NEW s \in Calls, ProgressionEvent(s)
  PROVE  IInv'
<1>1. PICK k : k = tx[s]
  OBVIOUS
<1>2. Doing(s) = "progress" /\ ~Waits(s)
  BY DEF ProgressionEvent, Reaches
<1>3. k.op.kind # "award" => Sees(s)["hp"] = k.new["hp"]
  <2>1. k.op.kind # "award" => "hp" \in Past(k)
    BY <1>1, <1>2, Sending, StatementOrder
  <2>2. k.op.kind # "award" => "hp" \in DOMAIN k.new
    BY <1>1, <1>2, <2>1, ColumnsMet
  <2> QED
    BY <1>1, <2>2, ColumnFacts DEF Sees
<1>4. PICK inserts : inserts = {ProgressionRow(s, k)}
  OBVIOUS
<1>5. Proceed(s, Nothing, Nothing, inserts)
  <2>1. PICK delta : delta = IF Op(s).kind = "award" THEN [xp |-> Op(s).amount]
                             ELSE [hp |-> Sees(s)["hp"] - tx[s].seen["hp"]]
    OBVIOUS
  <2>2. delta = IF k.op.kind = "award" THEN [xp |-> k.op.amount]
                ELSE [hp |-> k.new["hp"] - k.seen["hp"]]
    BY <1>1, <1>3, <2>1 DEF Op
  <2>3. Event(s, "progression", delta) = ProgressionRow(s, k)
    BY <1>1, <2>2 DEF Event, ProgressionRow, Op
  <2> QED
    BY <1>4, <2>1, <2>3 DEF ProgressionEvent
<1> QED
  BY <1>1, <1>2, <1>4, <1>5, InsertIInv

\* The insert into vending_purchases.
LEMMA RecordSaleIInv ==
  ASSUME IInv, NEW s \in Calls, RecordSale(s)
  PROVE  IInv'
<1>1. PICK k : k = tx[s]
  OBVIOUS
<1>2. Doing(s) = "sale" /\ ~Waits(s) /\ Running(s)
  BY DEF RecordSale, Reaches, Doing
<1>3. CASE Sale(Op(s)) # {}
  BY <1>2, <1>3, RollbackIInv DEF RecordSale
<1>4. CASE Sale(Op(s)) = {}
  <2>1. PICK inserts : inserts = {SaleRow(s, k)}
    OBVIOUS
  <2>2. Proceed(s, Nothing, Nothing, inserts)
    BY <1>1, <1>4, <2>1 DEF RecordSale, SaleRow, Op
  <2>3. Locked(s, <<"purchases", k.op.key>>) /\ Sale(k.op) = {}
    BY <1>1, <1>2, <1>4, Locks DEF Op
  <2> QED
    BY <1>1, <1>2, <2>1, <2>2, <2>3, InsertIInv
<1> QED
  BY <1>3, <1>4

\* Yen are paid or earned; there is no debt.
LEMMA PayIInv ==
  ASSUME IInv, NEW s \in Calls, Pay(s)
  PROVE  IInv'
<1>1. PICK k : k = tx[s]
  OBVIOUS
<1>2. Doing(s) = "pay" /\ ~Waits(s) /\ Running(s)
  BY DEF Pay, Reaches, Doing
<1>3. CASE ~Matches(s)
  BY <1>2, <1>3, RollbackIInv DEF Pay
<1>4. CASE Matches(s)
  <2>1. PICK v : v = Sees(s)["yen"] + Op(s).yen
    OBVIOUS
  <2>2. Write(s, "yen", v)
    BY <1>4, <2>1 DEF Pay
  <2>3. "yen" = Written("pay", k.op) /\ "pay" \in Writes
    BY DEF Written, Writes
  <2>4. "yen" \notin Changed(k)
    BY <1>1, <1>2, <2>3, OneChanged
  <2>5. Sees(s)["yen"] = db["yen"]
    BY <1>1, <1>2, <2>4, ColumnFacts, ColumnsMet DEF Sees
  <2>6. db["yen"] \in Nat /\ k.op.yen \in Int
    BY <1>1, <1>2, Sending, OperationFacts, ColumnFacts DEF IInv, TypeOK
  <2>7. v = db["yen"] + k.op.yen /\ v \in Nat
    BY <1>1, <1>2, <1>4, <2>1, <2>5, <2>6 DEF Matches, Op
  <2>8. Locked(s, Row("yen"))
    BY <1>1, <1>2, <1>4, Locks, ColumnFacts DEF Row
  <2> QED
    BY <1>1, <1>2, <2>2, <2>3, <2>7, <2>8, ColumnFacts, WriteIInv
<1> QED
  BY <1>3, <1>4


\* What holds when a column is written.
LEMMA WriteFacts ==
  ASSUME IInv, NEW s \in Calls, NEW st, Doing(s) = st, st \in Writes, NEW k, k = tx[s],
         st = "prize" => k.win, NEW c, c = Written(st, k.op)
  PROVE  /\ Running(s) /\ k.op \in Ops[s] /\ CallOK(s) /\ ReadsOK(k, db)
         /\ c \in Columns /\ Sees(s)[c] = db[c] /\ db[c] \in Nat
         /\ st = "stack" => k.op.kind = "grant"
         /\ st = "store" => k.op.kind \in {"consume", "use"}
         /\ st = "prize" => k.op.kind = "buy"
         /\ st \in {"stack", "store", "prize"} =>
               c \in Items /\ c = k.op.item /\ db[c] <= MaxStack[c] /\ MaxStack[c] \in Nat
<1>1. /\ st # "nothing" /\ Running(s) /\ k.op \in Ops[s] /\ k.op.kind \in Kinds /\ CallOK(s)
      /\ k.at \in 1..Len(Program[k.op.kind]) /\ Program[k.op.kind][k.at] = st
  BY Sending DEF Writes
<1>2. /\ st = "stack" => k.op.kind = "grant"
      /\ st = "store" => k.op.kind \in {"consume", "use"}
      /\ st = "prize" => k.op.kind = "buy"
  BY <1>1, StatementKinds
<1>3. c \in Columns /\ c \notin Changed(k)
  BY OneChanged
<1>4. Sees(s)[c] = db[c] /\ db[c] \in Nat
  BY <1>1, <1>3, ColumnsMet DEF Sees, IInv, TypeOK
<1>5. st \in {"stack", "store", "prize"} => c \in Items /\ c = k.op.item
  BY <1>1, <1>2, OperationFacts DEF Written
<1>6. st \in {"stack", "store", "prize"} => db[c] <= MaxStack[c] /\ MaxStack[c] \in Nat
  BY <1>5, LimitsAssumption DEF IInv, LedgerAgrees, WithinLimits
<1> QED
  BY <1>1, <1>2, <1>3, <1>4, <1>5, <1>6 DEF CallOK

\* The row of an item in character_inventory.
LEMMA ItemRow == \A i \in Items : Row(i) = <<"inventory", i>>
BY ColumnFacts DEF Row

\* A grant fits into the stack.
LEMMA StackIInv ==
  ASSUME IInv, NEW s \in Calls, Stack(s)
  PROVE  IInv'
<1>1. PICK k : k = tx[s]
  OBVIOUS
<1>2. Doing(s) = "stack" /\ ~Waits(s) /\ Running(s)
  BY DEF Stack, Reaches, Doing
<1>3. CASE ~Fits(s, Op(s).amount)
  BY <1>2, <1>3, RollbackIInv DEF Stack
<1>4. CASE Fits(s, Op(s).amount)
  <2>1. PICK c : c = Written("stack", k.op)
    OBVIOUS
  <2>2. /\ k.op \in Ops[s] /\ k.op.kind = "grant" /\ Sees(s)[c] = db[c] /\ db[c] \in Nat
        /\ c \in Items /\ c = k.op.item /\ MaxStack[c] \in Nat
    BY <1>1, <1>2, <2>1, WriteFacts DEF Writes
  <2>3. PICK v : v = Sees(s)[c] + k.op.amount
    OBVIOUS
  <2>4. Write(s, c, v)
    BY <1>1, <1>4, <2>2, <2>3 DEF Stack, Op
  <2>5. v = db[c] + Quantity(k) /\ v \in Nat /\ v <= MaxStack[c]
    BY <1>1, <1>4, <2>2, <2>3, OperationFacts DEF Quantity, Fits, Op
  <2>6. Locked(s, Row(c))
    BY <1>1, <1>2, <2>2, Locks, ItemRow
  <2>7. c \notin {"yen", "xp", "hp", "score", "dialogue"} /\ "stack" \in Writes
    BY <2>2, ColumnFacts DEF Writes
  <2> QED
    BY <1>1, <1>2, <2>1, <2>4, <2>5, <2>6, <2>7, WriteIInv
<1> QED
  BY <1>3, <1>4

\* The quantity read for update is still there.
LEMMA StoreIInv ==
  ASSUME IInv, NEW s \in Calls, Store(s)
  PROVE  IInv'
<1>1. PICK k : k = tx[s]
  OBVIOUS
<1>2. Doing(s) = "store" /\ ~Waits(s)
  BY DEF Store, Reaches
<1>3. PICK c : c = Written("store", k.op)
  OBVIOUS
<1>4. /\ k.op \in Ops[s] /\ k.op.kind \in {"consume", "use"} /\ db[c] \in Nat
      /\ c \in Items /\ c = k.op.item /\ MaxStack[c] \in Nat /\ db[c] <= MaxStack[c]
      /\ ReadsOK(k, db)
  BY <1>1, <1>2, <1>3, WriteFacts DEF Writes
<1>5. "take" \in Past(k)
  BY <1>1, <1>2, Sending, StatementOrder
<1>6. k.seen[c] = db[c] /\ db[c] >= k.op.amount
  <2>1. c \in Known(k)
    BY <1>1, <1>2, <1>4, <1>5, ColumnsMet
  <2> QED
    BY <1>4, <1>5, <2>1 DEF ReadsOK
<1>7. PICK v : v = k.seen[c] - k.op.amount
  OBVIOUS
<1>8. Write(s, c, v)
  BY <1>1, <1>4, <1>7 DEF Store, Op
<1>9. k.op.amount \in Nat
  BY <1>4, OperationFacts
<1>10. Quantity(k) = -k.op.amount
  BY <1>4 DEF Quantity
<1>11. v = db[c] + Quantity(k) /\ v \in Nat /\ v <= MaxStack[c]
  BY <1>4, <1>6, <1>7, <1>9, <1>10
<1>12. Locked(s, Row(c))
  BY <1>1, <1>2, <1>4, Locks, ItemRow
<1>13. c \notin {"yen", "xp", "hp", "score", "dialogue"} /\ "store" \in Writes
  BY <1>4, ColumnFacts DEF Writes
<1> QED
  BY <1>1, <1>2, <1>3, <1>8, <1>11, <1>12, <1>13, WriteIInv

\* The quantity is read for update.
LEMMA TakeIInv ==
  ASSUME IInv, NEW s \in Calls, Take(s)
  PROVE  IInv'
<1>1. PICK k : k = tx[s]
  OBVIOUS
<1>2. Doing(s) = "take" /\ ~Waits(s) /\ Running(s)
  BY DEF Take, Reaches, Doing
<1>3. CASE Sees(s)[Op(s).item] < Op(s).amount
  BY <1>2, <1>3, RollbackIInv DEF Take
<1>4. CASE ~(Sees(s)[Op(s).item] < Op(s).amount)
  <2>1. PICK C : C = Asked("take", k.op)
    OBVIOUS
  <2>2. C = {k.op.item} /\ Sees(s)[k.op.item] = db[k.op.item] /\ k.op.item \in Columns
    <3>1. C = {k.op.item}
      BY <2>1 DEF Asked
    <3>2. C \in SUBSET Columns /\ \A c \in C : Sees(s)[c] = db[c]
      BY <1>1, <1>2, <2>1, OneKnown DEF Reads
    <3> QED
      BY <3>1, <3>2
  <2>3. k.op \in Ops[s] /\ k.op.kind \in {"consume", "use"}
    <3>1. /\ k.op \in Ops[s] /\ k.op.kind \in Kinds /\ k.at \in 1..Len(Program[k.op.kind])
          /\ Program[k.op.kind][k.at] = "take"
      BY <1>1, <1>2, Sending
    <3> QED
      BY <3>1, StatementKinds
  <2>4. db[k.op.item] \in Nat /\ k.op.amount \in Nat /\ k.op.amount > 0 /\ k.op.item \in Items
    BY <2>2, <2>3, OperationFacts DEF IInv, TypeOK
  <2>5. db[k.op.item] >= k.op.amount
    BY <1>1, <1>4, <2>2, <2>4 DEF Op
  <2>6. Matches(s)
    BY <1>1, <1>2, <2>2, <2>4, <2>5 DEF Matches, Op
  <2>7. \A c \in C : Locked(s, Row(c))
    <3>1. Locked(s, <<"inventory", k.op.item>>)
      BY <1>1, <1>2, <2>6, Locks
    <3> QED
      BY <2>2, <2>4, <3>1, ItemRow
  <2>8. Read(s, C)
    BY <1>1, <1>4, <2>2 DEF Take, Op
  <2> QED
    BY <1>1, <1>2, <2>1, <2>5, <2>7, <2>8, ReadIInv DEF Reads
<1> QED
  BY <1>3, <1>4


\* The character is read for update.
LEMMA LockIInv ==
  ASSUME IInv, NEW s \in Calls, Lock(s)
  PROVE  IInv'
<1>1. PICK k : k = tx[s]
  OBVIOUS
<1>2. Doing(s) = "lock" /\ ~Waits(s) /\ Running(s)
  BY DEF Lock, Reaches, Doing
<1>3. CASE ~Matches(s)
  BY <1>2, <1>3, RollbackIInv DEF Lock
<1>4. CASE Matches(s)
  <2>1. PICK C : C = {"hp", "xp"}
    OBVIOUS
  <2>2. C = Asked("lock", k.op)
    BY <2>1 DEF Asked
  <2>3. Read(s, C)
    BY <1>4, <2>1 DEF Lock
  <2>4. \A c \in C : Locked(s, Row(c))
    BY <1>1, <1>2, <1>4, <2>1, Locks, ColumnFacts DEF Row
  <2> QED
    BY <1>1, <1>2, <2>2, <2>3, <2>4, ReadIInv DEF Reads
<1> QED
  BY <1>3, <1>4

\* The character is read for update and is not at full health.
LEMMA FullIInv ==
  ASSUME IInv, NEW s \in Calls, Full(s)
  PROVE  IInv'
<1>1. PICK k : k = tx[s]
  OBVIOUS
<1>2. Doing(s) = "full" /\ ~Waits(s) /\ Running(s)
  BY DEF Full, Reaches, Doing
<1>3. CASE Rollback(s)
  BY <1>2, <1>3, RollbackIInv
<1>4. CASE Matches(s) /\ ~(Sees(s)["hp"] >= MaxHP) /\ Read(s, {"hp", "xp"})
  <2>1. PICK C : C = {"hp", "xp"}
    OBVIOUS
  <2>2. C = Asked("full", k.op)
    BY <2>1 DEF Asked
  <2>3. Read(s, C)
    BY <1>4, <2>1
  <2>4. \A c \in C : Locked(s, Row(c))
    BY <1>1, <1>2, <1>4, <2>1, Locks, ColumnFacts DEF Row
  <2>5. db["hp"] < MaxHP
    <3>1. Sees(s)["hp"] = db["hp"]
      BY <1>1, <1>2, <2>1, <2>2, OneKnown DEF Reads
    <3>2. db["hp"] \in Nat /\ MaxHP \in Nat
      BY ColumnFacts, LimitsAssumption DEF IInv, TypeOK
    <3> QED
      BY <1>4, <3>1, <3>2
  <2> QED
    BY <1>1, <1>2, <2>2, <2>3, <2>4, <2>5, ReadIInv DEF Reads
<1> QED
  BY <1>3, <1>4 DEF Full

\* The best score is read for update.
LEMMA BestScoreIInv ==
  ASSUME IInv, NEW s \in Calls, BestScore(s)
  PROVE  IInv'
<1>1. PICK k : k = tx[s]
  OBVIOUS
<1>2. Doing(s) = "best" /\ ~Waits(s)
  BY DEF BestScore, Reaches
<1>3. PICK C : C = {"score"}
  OBVIOUS
<1>4. C = Asked("best", k.op)
  BY <1>3 DEF Asked
<1>5. Read(s, C)
  BY <1>3 DEF BestScore
<1>6. \A c \in C : Locked(s, Row(c))
  BY <1>1, <1>2, <1>3, Locks, ColumnFacts DEF Row
<1> QED
  BY <1>1, <1>2, <1>4, <1>5, <1>6, ReadIInv DEF Reads

\* What an earlier statement of the call has read is still what is committed.
LEMMA ReadBefore ==
  ASSUME IInv, NEW s \in Calls, NEW st, Doing(s) = st, st \in {"hp", "xp", "score"},
         NEW k, k = tx[s]
  PROVE  k.seen[st] = db[st] /\ db[st] \in Nat /\ k.op \in Ops[s]
<1>1. /\ k.op \in Ops[s] /\ k.op.kind \in Kinds /\ k.at \in 1..Len(Program[k.op.kind])
      /\ Program[k.op.kind][k.at] = st /\ Past(k) = Before(k.op.kind, k.at) /\ CallOK(s)
  BY Sending
<1>2. IF st = "score" THEN "best" \in Past(k) ELSE "lock" \in Past(k)
  BY <1>1, StatementOrder
<1>3. st \in Known(k)
  BY <1>2, ColumnFacts DEF Known
<1> QED
  BY <1>1, <1>3, ColumnFacts DEF CallOK, ReadsOK, IInv, TypeOK

\* Experience grows by the award.
LEMMA ExperienceIInv ==
  ASSUME IInv, NEW s \in Calls, Experience(s)
  PROVE  IInv'
<1>1. PICK k : k = tx[s]
  OBVIOUS
<1>2. Doing(s) = "xp" /\ ~Waits(s)
  BY DEF Experience, Reaches
<1>3. PICK v : v = k.seen["xp"] + k.op.amount
  OBVIOUS
<1>4. Write(s, "xp", v)
  BY <1>1, <1>3 DEF Experience, Op
<1>5. v = db["xp"] + k.op.amount /\ v \in Nat
  BY <1>1, <1>2, <1>3, ReadBefore, OperationFacts
<1>6. "xp" = Written("xp", k.op) /\ "xp" \in Writes
  BY DEF Written, Writes
<1>7. Locked(s, Row("xp"))
  BY <1>1, <1>2, Locks, ColumnFacts DEF Row
<1> QED
  BY <1>1, <1>2, <1>4, <1>5, <1>6, <1>7, ColumnFacts, WriteIInv

\* The health a change leads to, within the limits of the character.
LEMMA HealthBounds ==
  ASSUME NEW h \in Int
  PROVE  LET v == Min({MaxHP, Max({0, h})})
         IN v \in Nat /\ v <= MaxHP /\ (h <= 0 => v = 0) /\ (h > 0 => v = h \/ v = MaxHP)
<1>1. PICK m : m = Max({0, h})
  OBVIOUS
<1>2. m = IF h <= 0 THEN 0 ELSE h
  <2>1. \E x \in {0, h} : \A y \in {0, h} : x >= y
    OBVIOUS
  <2>2. m \in {0, h} /\ \A y \in {0, h} : m >= y
    BY <1>1, <2>1 DEF Max
  <2> QED
    BY <2>2
<1>3. PICK v : v = Min({MaxHP, m})
  OBVIOUS
<1>4. m \in Nat /\ MaxHP \in Nat
  BY <1>2, LimitsAssumption
<1>5. v = IF MaxHP <= m THEN MaxHP ELSE m
  <2>1. \E x \in {MaxHP, m} : \A y \in {MaxHP, m} : x <= y
    BY <1>4
  <2>2. v \in {MaxHP, m} /\ \A y \in {MaxHP, m} : v <= y
    BY <1>3, <2>1 DEF Min
  <2> QED
    BY <1>4, <2>2
<1> QED
  BY <1>1, <1>2, <1>3, <1>4, <1>5, LimitsAssumption


\* Health changes within its limits, and grows when an item is used.
LEMMA HealthIInv ==
  ASSUME IInv, NEW s \in Calls, Health(s)
  PROVE  IInv'
<1>1. PICK k : k = tx[s]
  OBVIOUS
<1>2. Doing(s) = "hp" /\ ~Waits(s)
  BY DEF Health, Reaches
<1>3. k.seen["hp"] = db["hp"] /\ db["hp"] \in Nat /\ k.op \in Ops[s] /\ k.op.hp \in Int
  BY <1>1, <1>2, ReadBefore, OperationFacts
<1>4. PICK h \in Int : h = db["hp"] + k.op.hp
  BY <1>3
<1>5. PICK v : v = Min({MaxHP, Max({0, h})})
  OBVIOUS
<1>6. v \in Nat /\ v <= MaxHP /\ (h > 0 => v = h \/ v = MaxHP)
  BY <1>4, <1>5, HealthBounds
<1>7. Write(s, "hp", v)
  BY <1>1, <1>3, <1>4, <1>5 DEF Health, Op
<1>8. k.op.kind = "use" => v > db["hp"]
  <2> SUFFICES ASSUME k.op.kind = "use" PROVE v > db["hp"]
    OBVIOUS
  <2>1. "full" \in Past(k) /\ CallOK(s)
    BY <1>1, <1>2, Sending, StatementOrder
  <2>2. db["hp"] < MaxHP
    BY <1>1, <1>3, <2>1 DEF CallOK, ReadsOK
  <2>3. k.op.hp > 0
    BY <1>3, OperationFacts
  <2> QED
    BY <1>3, <1>4, <1>6, <2>2, <2>3, LimitsAssumption
<1>9. "hp" = Written("hp", k.op) /\ "hp" \in Writes
  BY DEF Written, Writes
<1>10. Locked(s, Row("hp"))
  BY <1>1, <1>2, Locks, ColumnFacts DEF Row
<1> QED
  BY <1>1, <1>2, <1>6, <1>7, <1>8, <1>9, <1>10, ColumnFacts, WriteIInv

\* The best score does not fall.
LEMMA SubmitScoreIInv ==
  ASSUME IInv, NEW s \in Calls, SubmitScore(s)
  PROVE  IInv'
<1>1. PICK k : k = tx[s]
  OBVIOUS
<1>2. Doing(s) = "score" /\ ~Waits(s)
  BY DEF SubmitScore, Reaches
<1>3. k.seen["score"] = db["score"] /\ db["score"] \in Nat /\ k.op.amount \in Nat
  BY <1>1, <1>2, ReadBefore, OperationFacts
<1>4. PICK v : v = Max({k.seen["score"], k.op.amount})
  OBVIOUS
<1>5. v \in Nat /\ v >= db["score"] /\ v >= k.op.amount
  <2>1. PICK S : S = {k.seen["score"], k.op.amount}
    OBVIOUS
  <2>2. \E x \in S : \A y \in S : x >= y
    BY <1>3, <2>1
  <2>3. v \in S /\ \A y \in S : v >= y
    BY <1>4, <2>1, <2>2 DEF Max
  <2> QED
    BY <1>3, <2>1, <2>3
<1>6. Write(s, "score", v)
  BY <1>1, <1>4 DEF SubmitScore, Op
<1>7. "score" = Written("score", k.op) /\ "score" \in Writes
  BY DEF Written, Writes
<1>8. Locked(s, Row("score"))
  BY <1>1, <1>2, Locks, ColumnFacts DEF Row
<1> QED
  BY <1>1, <1>2, <1>5, <1>6, <1>7, <1>8, ColumnFacts, WriteIInv

\* The dialogue is saved over the revision that the client saw.
LEMMA DialogueIInv ==
  ASSUME IInv, NEW s \in Calls, Dialogue(s)
  PROVE  IInv'
<1>1. PICK k : k = tx[s]
  OBVIOUS
<1>2. Doing(s) = "dialogue" /\ ~Waits(s) /\ Running(s)
  BY DEF Dialogue, Reaches, Doing
<1>3. CASE ~Matches(s)
  BY <1>2, <1>3, RollbackIInv DEF Dialogue
<1>4. CASE Matches(s)
  <2>1. "dialogue" = Written("dialogue", k.op) /\ "dialogue" \in Writes
    BY DEF Written, Writes
  <2>2. /\ k.op \in Ops[s] /\ Sees(s)["dialogue"] = db["dialogue"]
        /\ db["dialogue"] \in Nat
    BY <1>1, <1>2, <2>1, WriteFacts
  <2>3. Sees(s)["dialogue"] = k.op.amount
    BY <1>1, <1>2, <1>4 DEF Matches, Op
  <2>4. PICK v : v = k.op.amount + 1
    OBVIOUS
  <2>5. Write(s, "dialogue", v)
    BY <1>1, <1>4, <2>4 DEF Dialogue, Op
  <2>6. v = db["dialogue"] + 1 /\ v \in Nat
    BY <2>2, <2>3, <2>4
  <2>7. Locked(s, Row("dialogue"))
    BY <1>1, <1>2, <1>4, Locks, ColumnFacts DEF Row
  <2> QED
    BY <1>1, <1>2, <2>1, <2>5, <2>6, <2>7, ColumnFacts, WriteIInv
<1> QED
  BY <1>3, <1>4

\* The character is deleted.
LEMMA HideIInv ==
  ASSUME IInv, NEW s \in Calls, Hide(s)
  PROVE  IInv'
<1>1. PICK k : k = tx[s]
  OBVIOUS
<1>2. Doing(s) = "hide" /\ ~Waits(s) /\ Running(s)
  BY DEF Hide, Reaches, Doing
<1>3. CASE ~Matches(s)
  BY <1>2, <1>3, RollbackIInv DEF Hide
<1>4. CASE Matches(s)
  <2>1. "alive" = Written("hide", k.op) /\ "hide" \in Writes
    BY DEF Written, Writes
  <2>2. Write(s, "alive", 0)
    BY <1>4 DEF Hide
  <2>3. Locked(s, Row("alive"))
    BY <1>1, <1>2, <1>4, Locks, ColumnFacts DEF Row
  <2> QED
    BY <1>1, <1>2, <2>1, <2>2, <2>3, ColumnFacts, WriteIInv
<1> QED
  BY <1>3, <1>4


\* No prize: the sale goes on as that of an ordinary can.
LEMMA NoPrize ==
  ASSUME IInv, NEW s \in Calls, Doing(s) = "prize", ~Waits(s), NEW k, k = tx[s],
         locks' = locks \cup Wants(s), db' = db, rows' = rows,
         tx' = [tx EXCEPT ![s] = Sent(@, @.at + 1, @.seen, @.new, @.rows, FALSE)]
  PROVE  IInv'
<1>1. /\ Running(s) /\ CallOK(s) /\ k.op.kind \in Kinds /\ ~Replayed(k)
      /\ k.at \in 1..Len(Program[k.op.kind]) /\ Program[k.op.kind][k.at] = "prize"
      /\ Past(k) = Before(k.op.kind, k.at)
  BY Sending
<1>2. PICK m : m = Sent(k, k.at + 1, k.seen, k.new, k.rows, FALSE)
  OBVIOUS
<1>3. tx' = [tx EXCEPT ![s] = m] /\ k.answer = "open"
  BY <1>1, <1>2 DEF Running
<1>4. /\ m = Fields(m) /\ m.op = k.op /\ m.at = k.at + 1
      /\ m.seen = k.seen /\ m.new = k.new /\ m.rows = k.rows /\ m.answer = "open"
  <2>1. FALSE \in BOOLEAN
    OBVIOUS
  <2>2. PICK w \in BOOLEAN : w = FALSE
    BY <2>1
  <2> PICK at : at = k.at + 1
    OBVIOUS
  <2>3. m = Sent(k, at, k.seen, k.new, k.rows, w)
    BY <1>2, <2>2
  <2> QED
    BY <1>3, <2>2, <2>3, SentFields
<1>5. m.win = FALSE
  BY <1>2 DEF Sent
<1>6. ~Replayed(m) /\ Past(m) = Past(k) \cup {"prize"}
  <2>1. \A st : st = "prize" => (st = "economy" => m.rows # {})
    OBVIOUS
  <2> QED
    BY <1>1, <1>4, PastNext
<1>7. ChangesOK(k, db) /\ ReadsOK(k, db) /\ k.rows = Inserted(s, k)
  BY <1>1 DEF CallOK
<1>8. k.op.kind = "buy" /\ {"prize", "sale", "economy", "progress", "stack", "store"}
                              \cap Past(k) = {}
  <2>1. k.op.kind = "buy"
    BY <1>1, StatementKinds
  <2>2. "prize" \notin Past(k) /\ "sale" \notin Past(k) /\ "economy" \notin Past(k)
    BY <1>1, StatementOrder
  <2>3. "stack" \notin Past(k) /\ "store" \notin Past(k)
    BY <2>1, PastKinds
  <2>4. "progress" \notin Past(k)
    BY <1>1, <2>1, StatementCounts, BeforeKinds
  <2> QED
    BY <2>1, <2>2, <2>3, <2>4
<1>9. Changed(m) = Changed(k) /\ \A i \in Items : i \notin Changed(k)
  <2>1. Changed(m) = Changed(k)
    BY <1>4, <1>5, <1>6, <1>8 DEF Changed
  <2>2. \A i \in Items : i \notin Changed(k)
    BY <1>8, ColumnFacts DEF Changed
  <2> QED
    BY <2>1, <2>2
<1>10. ChangesOK(m, db)
  BY <1>4, <1>7, <1>9 DEF ChangesOK
<1>11. Known(m) = Known(k) /\ ReadsOK(m, db)
  <2>1. Known(m) = Known(k)
    BY <1>4, <1>6 DEF Known
  <2> QED
    BY <1>4, <1>6, <1>7, <2>1 DEF ReadsOK
<1>12. m.rows = Inserted(s, m)
  BY <1>4, <1>6, <1>7, <1>8 DEF Inserted
<1>13. \A c \in Changed(m) \cup Known(m) :
         c \in Changed(k) \cup Known(k) \/ Locked(s, Row(c))
  BY <1>9, <1>11
<1> QED
  BY <1>3, <1>4, <1>5, <1>6, <1>10, <1>11, <1>12, <1>13, Sends

\* The winning can is granted when it fits.
LEMMA PrizeIInv ==
  ASSUME IInv, NEW s \in Calls, Prize(s)
  PROVE  IInv'
<1>1. PICK k : k = tx[s]
  OBVIOUS
<1>2. Doing(s) = "prize" /\ ~Waits(s)
  BY DEF Prize, Reaches
<1>3. CASE ~(tx[s].win /\ Fits(s, 1))
  BY <1>1, <1>2, <1>3, NoPrize DEF Prize
<1>4. CASE tx[s].win /\ Fits(s, 1)
  <2>0. k.win
    BY <1>1, <1>4
  <2>1. PICK c : c = Written("prize", k.op)
    OBVIOUS
  <2>2. /\ k.op.kind = "buy" /\ Sees(s)[c] = db[c] /\ db[c] \in Nat
        /\ c \in Items /\ c = k.op.item /\ MaxStack[c] \in Nat
    BY <1>1, <1>2, <2>0, <2>1, WriteFacts DEF Writes
  <2>3. PICK v : v = Sees(s)[c] + 1
    OBVIOUS
  <2>4. Write(s, c, v)
    BY <1>1, <1>4, <2>2, <2>3 DEF Prize, Op
  <2>5. Quantity(k) = 1
    BY <2>0, <2>2 DEF Quantity
  <2>6. v = db[c] + Quantity(k) /\ v \in Nat /\ v <= MaxStack[c]
    BY <1>1, <1>4, <2>2, <2>3, <2>5 DEF Fits, Op
  <2>7. Locked(s, Row(c))
    BY <1>1, <1>2, <2>0, <2>2, Locks, ItemRow
  <2>8. c \notin {"yen", "xp", "hp", "score", "dialogue"} /\ "prize" \in Writes
    BY <2>2, ColumnFacts DEF Writes
  <2> QED
    BY <1>1, <1>2, <2>0, <2>1, <2>4, <2>6, <2>7, <2>8, WriteIInv
<1> QED
  BY <1>3, <1>4


\* A request id that was sold: the call answers with the sale that was made.
LEMMA Replay ==
  ASSUME IInv, NEW s \in Calls, Doing(s) = "lookup", ~Waits(s), NEW k, k = tx[s],
         NEW sale \in Sale(k.op), sale.machine = k.op.machine,
         locks' = locks \cup Wants(s), db' = db, rows' = rows,
         tx' = [tx EXCEPT ![s] = Sent(@, Len(PurchaseVendingDrink) + 1, @.seen, @.new,
                                      @.rows, sale.win)]
  PROVE  IInv'
<1>1. /\ Running(s) /\ CallOK(s) /\ k.op \in Ops[s] /\ k.op.kind \in Kinds
      /\ k.at \in 1..Len(Program[k.op.kind]) /\ Program[k.op.kind][k.at] = "lookup"
      /\ Past(k) = Before(k.op.kind, k.at)
  BY Sending
<1>2. PICK w \in BOOLEAN : w = sale.win
  BY DEF Sale, IInv, TypeOK
<1> PICK at : at = Len(PurchaseVendingDrink) + 1
  OBVIOUS
<1>3. PICK m : m = Sent(k, at, k.seen, k.new, k.rows, w)
  OBVIOUS
<1>4. tx' = [tx EXCEPT ![s] = m] /\ k.answer = "open"
  BY <1>1, <1>2, <1>3 DEF Running
<1>5. /\ m = Fields(m) /\ m.op = k.op /\ m.at = at
      /\ m.seen = k.seen /\ m.new = k.new /\ m.rows = k.rows /\ m.answer = "open"
  BY <1>3, <1>4, SentFields
<1>6. m.win = w
  BY <1>3 DEF Sent
<1>7. k.op.kind = "buy" /\ at = 7 /\ Len(Program[k.op.kind]) = 6
  BY <1>1, <1>2, StatementKinds, StatementCounts
<1>8. Past(k) = {}
  BY <1>1, StatementOrder
<1>9. /\ DOMAIN k.new = {} /\ DOMAIN k.seen = {} /\ k.rows = {}
      /\ Changed(k) = {} /\ Known(k) = {}
  <2>1. Changed(k) = {} /\ Known(k) = {}
    BY <1>8 DEF Changed, Known
  <2>2. k.rows = {}
    BY <1>1, <1>8 DEF CallOK, Inserted
  <2> QED
    BY <2>1, <2>2, ColumnsMet
<1>10. Replayed(m) /\ Past(m) = {}
  BY <1>5, <1>7, <1>9, StatementCounts DEF Replayed, Past
<1>11. Changed(m) = {} /\ Known(m) = {}
  BY <1>10 DEF Changed, Known
<1>12. ChangesOK(m, db) /\ ReadsOK(m, db)
  BY <1>5, <1>9, <1>10, <1>11 DEF ChangesOK, ReadsOK
<1>13. m.rows = Inserted(s, m)
  BY <1>5, <1>9, <1>10 DEF Inserted
<1>14. m.at \in Nat /\ m.at > 0 /\ m.at <= Len(Program[m.op.kind]) + 1
  BY <1>5, <1>7
<1>15. \E r \in Sale(m.op) : r.machine = m.op.machine /\ r.win = m.win
  BY <1>2, <1>5, <1>6
<1> QED
  BY <1>1, <1>4, <1>5, <1>6, <1>10, <1>11, <1>12, <1>13, <1>14, <1>15, CallAdvances

\* A purchase is looked up by its request id.
LEMMA LookupIInv ==
  ASSUME IInv, NEW s \in Calls, Lookup(s)
  PROVE  IInv'
<1>1. PICK k : k = tx[s]
  OBVIOUS
<1>2. Doing(s) = "lookup" /\ ~Waits(s) /\ Running(s)
  BY DEF Lookup, Reaches, Doing
<1>3. CASE Rollback(s)
  BY <1>2, <1>3, RollbackIInv
<1>4. CASE Proceed(s, Nothing, Nothing, {})
  <2>1. PICK inserts : inserts = {}
    OBVIOUS
  <2>2. Proceed(s, Nothing, Nothing, inserts)
    BY <1>4, <2>1
  <2> QED
    BY <1>1, <1>2, <2>1, <2>2, InsertIInv
<1>5. ASSUME NEW sale \in Sale(Op(s)), sale.machine = Op(s).machine,
             locks' = locks \cup Wants(s), db' = db, rows' = rows,
             tx' = [tx EXCEPT ![s] = Sent(@, Len(PurchaseVendingDrink) + 1, @.seen, @.new,
                                          @.rows, sale.win)]
      PROVE  IInv'
  BY <1>1, <1>2, <1>5, Replay DEF Op
<1> QED
  BY <1>3, <1>4, <1>5 DEF Lookup


\* Only a running call waits, and one of a deadlock is rolled back.
LEMMA VictimIInv ==
  ASSUME IInv, NEW s \in Calls, DeadlockVictim(s)
  PROVE  IInv'
<1>1. \E t \in Calls : WaitsFor(s, t)
  BY DEF DeadlockVictim, InDeadlock, Waits
<1>2. Wants(s) # {}
  BY <1>1 DEF WaitsFor
<1>3. Running(s)
  <2>1. ASSUME ~Running(s)
        PROVE  Wants(s) = {}
    <3>1. Doing(s) = "nothing"
      BY <2>1 DEF Doing
    <3> QED
      BY <3>1 DEF Wants
  <2> QED
    BY <1>2, <2>1
<1> QED
  BY <1>3, RollbackIInv DEF DeadlockVictim

-----------------------------------------------------------------------------
(* The theorems *)

\* At the start no call is running and no event is committed.
LEMMA InitIInv == Init => IInv
<1> SUFFICES ASSUME Init PROVE IInv
  OBVIOUS
<1>1. PICK none : none = NoCall
  OBVIOUS
<1>2. /\ none = Fields(none) /\ none.at = 0 /\ none.answer = "open"
      /\ none.op.kind = "none"
  BY <1>1 DEF NoCall, Call, Fields
<1>3. none.win \in BOOLEAN
  BY <1>1 DEF NoCall, Call
<1>4. \A s \in Calls : tx[s] = none
  BY <1>1 DEF Init
<1>5. \A s \in Calls : CallType(s, tx[s])
  BY <1>1, <1>2, <1>3, <1>4 DEF CallType
<1>6. TypeOK
  BY <1>5, StartAssumption, FS_EmptySet DEF Init, TypeOK
<1>7. \A s \in Calls : ~Running(s)
  BY <1>2, <1>4 DEF Running
<1>8. LedgerAgrees
  <2>1. \A c : Change(c) = 0
    <3>1. \A c : Change(c) = Total({}, c)
      BY DEF Init, Change, Total
    <3> QED
      BY <3>1, TotalOfNone
  <2>2. \A c \in {"yen", "hp", "xp"} \cup Items : db[c] = Start[c] + Change(c)
    BY <2>1, StartAssumption, ColumnFacts DEF Init
  <2>3. WithinLimits
    BY StartAssumption, LimitsAssumption DEF Init, WithinLimits
  <2> QED
    BY <2>2, <2>3 DEF Init, LedgerAgrees, ItemsHeal
<1>9. ChargedOnce
  BY <1>2, <1>4 DEF Init, ChargedOnce, Op
<1>10. SavesAreKept
  <2>1. \A kind : Accepted(kind) = {}
    BY <1>2, <1>4 DEF Accepted
  <2>2. Cardinality(Accepted("talk")) = 0
    BY <2>1, FS_EmptySet
  <2>3. Start["dialogue"] \in Nat
    BY StartAssumption, ColumnFacts
  <2> QED
    BY <2>1, <2>2, <2>3 DEF Init, SavesAreKept
<1> QED
  BY <1>6, <1>7, <1>8, <1>9, <1>10 DEF Init, IInv, Exclusive

\* A step of something else.
LEMMA StutterIInv ==
  ASSUME IInv, UNCHANGED vars
  PROVE  IInv'
<1>1. db' = db /\ rows' = rows /\ locks' = locks /\ tx' = tx
  BY DEF vars
<1>2. TypeOK'
  BY <1>1 DEF IInv, TypeOK
<1>3. LedgerAgrees' /\ ChargedOnce' /\ SavesAreKept'
  BY <1>1, <1>2, StoreFrame
<1>4. Exclusive'
  BY <1>1 DEF IInv, Exclusive
<1>5. ASSUME NEW s \in Calls, Running(s)'
      PROVE  CallOK(s)'
  <2>1. CallOK(s)
    BY <1>1, <1>5 DEF IInv, Running
  <2> QED
    BY <1>1, <2>1, CallFrame
<1> QED
  BY <1>2, <1>3, <1>4, <1>5 DEF IInv

\* Every step.
LEMMA StepIInv == IInv /\ [Next]_vars => IInv'
<1> SUFFICES ASSUME IInv, [Next]_vars PROVE IInv'
  OBVIOUS
<1>1. ASSUME NEW s \in Calls, NEW o \in Ops[s], Begin(s, o)
      PROVE  IInv'
  BY <1>1, BeginIInv
<1>2. ASSUME NEW s \in Calls, Statement(s)
      PROVE  IInv'
  BY <1>2, KeyIInv, EconomyEventIInv, ProgressionEventIInv, PayIInv, StackIInv, PrizeIInv,
     TakeIInv, StoreIInv, LockIInv, FullIInv, ExperienceIInv, HealthIInv, LookupIInv,
     RecordSaleIInv, BestScoreIInv, SubmitScoreIInv, DialogueIInv, HideIInv DEF Statement
<1>3. ASSUME NEW s \in Calls, Commit(s)
      PROVE  IInv'
  BY <1>3, CommitIInv
<1>4. ASSUME NEW s \in Calls, DeadlockVictim(s)
      PROVE  IInv'
  BY <1>4, VictimIInv
<1>5. ASSUME NEW s \in Calls, GiveUp(s)
      PROVE  IInv'
  BY <1>5, RollbackIInv DEF GiveUp
<1>6. CASE UNCHANGED vars
  BY <1>6, StutterIInv
<1> QED
  BY <1>1, <1>2, <1>3, <1>4, <1>5, <1>6 DEF Next, Advance

\* Every call holds the locks on what it has read and changed, so both are as if it
\* ran alone; the ledger, the answers and the saves follow.
THEOREM Invariance == Spec => []IInv
BY InitIInv, StepIInv, PTL DEF Spec

\* Every column, row, lock and call keeps its type.
THEOREM TypeCorrect == Spec => []TypeOK
BY Invariance, PTL DEF IInv

\* Yen, items, experience and health are the start plus the committed events and
\* within their limits, and no healing item is used up without health gained.
THEOREM LedgerAlwaysAgrees == Spec => []LedgerAgrees
BY Invariance, PTL DEF IInv

\* A request id is charged once, an event key takes effect once, and a purchase is
\* answered with the sale that was made.
THEOREM AlwaysChargedOnce == Spec => []ChargedOnce
BY Invariance, PTL DEF IInv

\* No arcade score is lost under a lower one, and no accepted dialogue under another.
THEOREM SavesAreAlwaysKept == Spec => []SavesAreKept
BY Invariance, PTL DEF IInv

\* Two transactions never hold conflicting locks on a row.
THEOREM LocksExclude == Spec => []Exclusive
BY Invariance, PTL DEF IInv

=============================================================================
