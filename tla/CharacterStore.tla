--------------------------- MODULE CharacterStore ---------------------------
(***************************************************************************)
(* The transactions of internal/store on one character: yen, items,       *)
(* experience and health (economy.go, progression.go), vending machines   *)
(* (vending.go and HandleVendingPurchase of realtime/vending.go), arcade   *)
(* scores (arcade.go), the saved dialogue (dialogue.go) and the deletion   *)
(* of the character (characters.go).                                       *)
(*                                                                         *)
(* They run at READ COMMITTED and wait for each other's row locks.  A      *)
(* store method is the list of its SQL statements; a statement is one      *)
(* step.  `db' and `rows' hold what is committed, tx[s] what call s has    *)
(* read and changed.  A call may be given up at any statement (its context *)
(* ends, the connection breaks), its answer may be lost after the commit,  *)
(* and the client may then ask again with the same request id, at the same *)
(* time or later: that is another call with the same operation.            *)
(***************************************************************************)
EXTENDS Integers, Sequences, FiniteSetsExt

CONSTANTS NCalls,       \* calls 1..NCalls, numbered in the order they begin
          Ops,          \* Ops[s] is the set of operations call s may be of
          Items,        \* item_definitions
          MaxStack,     \* item_definitions.max_stack
          MaxHP,        \* characters.max_hp
          Start         \* what is committed when the run begins

Calls == 1..NCalls
Empty == ""     \* no item; an event_key that NULLIF makes NULL
Columns == {"alive", "yen", "hp", "xp", "score", "dialogue"} \cup Items

ASSUME CallsAssumption == NCalls \in Nat \ {0}
ASSUME ColumnsAssumption ==
    {Empty, "alive", "yen", "hp", "xp", "score", "dialogue"} \cap Items = {}
ASSUME LimitsAssumption == MaxStack \in [Items -> Nat] /\ MaxHP \in Nat \ {0}
ASSUME StartAssumption ==
    /\ Start \in [Columns -> Nat]
    /\ Start["hp"] <= MaxHP
    /\ \A i \in Items : Start[i] <= MaxStack[i]

(* What the methods' first lines let through, and their callers give: a     *)
(* purchase has a request id, consuming and using no event key, quantities  *)
(* are positive, and only three methods pay or earn.  Healing items heal.   *)
Operation == [kind : {"credit", "spend", "grant", "consume", "award", "change",
                      "use", "buy", "arcade", "talk", "delete"},
              key : STRING, item : STRING, amount : Nat, yen : Int, hp : Int,
              machine : STRING, win : BOOLEAN]
ASSUME OpsAssumption ==
    \A s \in Calls : Ops[s] \subseteq Operation /\ \A o \in Ops[s] :
        /\ o.kind \in {"grant", "consume", "use", "buy"} => o.item \in Items
        /\ o.kind \in {"grant", "consume", "use"} => o.amount > 0
        /\ o.kind \in {"credit", "spend"} => o.item = Empty
        /\ o.kind \notin {"credit", "spend", "buy"} => o.yen = 0
        /\ o.kind = "use" => o.hp > 0
        /\ o.kind = "consume" => o.key = Empty
        /\ o.kind = "buy" => o.key # Empty

VARIABLES
    db,     \* the columns of the character, its items and its machine's score
    rows,   \* the rows of the two event tables and of vending_purchases
    locks,  \* the row locks held: [by, row, mode]
    tx      \* the calls

vars == <<db, rows, locks, tx>>

Nothing == [c \in {} |-> 0]
Call(op, at, win, answer) ==
    [op |-> op, at |-> at, seen |-> Nothing, new |-> Nothing, rows |-> {}, win |-> win,
     answer |-> answer]
NoCall == Call([kind |-> "none"], 0, FALSE, "open")
Refused == Call([kind |-> "none"], 1, FALSE, "refused")

(***************************************************************************)
(* The store methods as the statements they send.                          *)
(*   key       INSERT of an event: wait for its event_key to be free       *)
(*   economy, progress  the rest of that INSERT: the reference to the      *)
(*             character                                                   *)
(*   pay       UPDATE characters SET yen ... RETURNING yen                 *)
(*   stack, prize  the upsert of character_inventory bounded by max_stack  *)
(*   take      SELECT the item's quantity FOR UPDATE                       *)
(*   store     UPDATE or DELETE that row                                   *)
(*   lock, full  SELECT the character FOR UPDATE, without and with the     *)
(*             question whether hp is full                                 *)
(*   xp, hp    UPDATE characters                                           *)
(*   lookup, sale  SELECT and INSERT of vending_purchases                  *)
(***************************************************************************)
CreditYen == <<"key", "economy", "pay">>
SpendYen == <<"pay", "key", "economy">>
GrantItem == <<"key", "economy", "stack">>
ConsumeItem == <<"take", "store", "economy">>
AwardExperience == <<"key", "progress", "lock", "xp">>
ChangeHP == <<"lock", "hp", "key", "progress">>
UseHealingItemMutant == <<"take", "store", "economy", "lock", "hp", "progress">>
UseHealingItem == <<"take", "full", "store", "economy", "lock", "hp", "progress">>
PurchaseVendingDrink == <<"lookup", "pay", "prize", "sale", "key", "economy">>
SubmitArcadeScore == <<"best", "score">>
SaveDialogueState == <<"dialogue">>
SoftDeleteCharacter == <<"hide">>

Program == [credit |-> CreditYen, spend |-> SpendYen, grant |-> GrantItem,
            consume |-> ConsumeItem, award |-> AwardExperience,
            change |-> ChangeHP, use |-> UseHealingItem,
            buy |-> PurchaseVendingDrink, arcade |-> SubmitArcadeScore,
            talk |-> SaveDialogueState, delete |-> SoftDeleteCharacter,
            none |-> <<>>]

-----------------------------------------------------------------------------
(* What a call sees and where it is.                                       *)
Op(s) == tx[s].op
Sees(s) == [c \in Columns |-> IF c \in DOMAIN tx[s].new THEN tx[s].new[c]
                                                        ELSE db[c]]
Running(s) == tx[s].at > 0 /\ tx[s].answer = "open"
AtEnd(s) == tx[s].at > Len(Program[Op(s).kind])
Doing(s) == IF Running(s) /\ ~AtEnd(s) THEN Program[Op(s).kind][tx[s].at] ELSE "nothing"

EventTable(o) == IF o.kind \in {"award", "change"} THEN "progression" ELSE "economy"
TakenMutant(table, key) == FALSE
Taken(table, key) == \E r \in rows : r.table = table /\ r.key = key /\ key # Empty
Sale(o) == {r \in rows : r.table = "purchases" /\ r.key = o.key}

(* The WHERE clause of the statement, on what is committed and the call's  *)
(* own changes.  A row that does not match is not waited for.              *)
Matches(s) ==
    LET o == Op(s)
        v == Sees(s)
    IN CASE Doing(s) = "pay" -> v["alive"] = 1 /\ v["yen"] + o.yen >= 0
         [] Doing(s) = "take" -> v[o.item] > 0
         [] Doing(s) \in {"lock", "full", "hide"} -> v["alive"] = 1
         [] Doing(s) = "lookup" -> Sale(o) # {}
         [] Doing(s) = "dialogue" -> v["alive"] = 1 /\ v["dialogue"] = o.amount
         [] OTHER -> TRUE

(***************************************************************************)
(* Row locks.  A foreign key takes KEY SHARE on the row it names, which    *)
(* only FOR UPDATE excludes; an UPDATE takes NO KEY UPDATE.  An INSERT     *)
(* waits for an uncommitted row with its unique key.  A better score names *)
(* the character; the one it beats is taken to be of another character.    *)
(***************************************************************************)
ReadModeMutant == "share"
ReadMode == "update"          \* every SELECT that a write depends on is FOR UPDATE
Character == <<"characters">>
Wants(s) ==
    LET o == Op(s)
        need(row, mode) == {[by |-> s, row |-> row, mode |-> mode]}
    IN IF ~Matches(s) THEN {} ELSE
       CASE Doing(s) = "key" /\ o.key # Empty -> need(<<EventTable(o), o.key>>, "update")
         [] Doing(s) \in {"economy", "progress"} -> need(Character, "share")
         [] Doing(s) \in {"pay", "xp", "hp", "hide"} -> need(Character, "nokey")
         [] Doing(s) \in {"lock", "full"} -> need(Character, ReadMode)
         [] Doing(s) = "stack" -> need(<<"inventory", o.item>>, "nokey")
         [] Doing(s) = "prize" /\ tx[s].win -> need(<<"inventory", o.item>>, "nokey")
         [] Doing(s) = "take" -> need(<<"inventory", o.item>>, ReadMode)
         [] Doing(s) = "store" -> need(<<"inventory", o.item>>, "update")
         [] Doing(s) = "lookup" -> need(<<"purchases", o.key>>, ReadMode)
         [] Doing(s) = "sale" -> need(<<"purchases", o.key>>, "update")
         [] Doing(s) = "best" -> need(<<"arcade">>, ReadMode)
         [] Doing(s) = "score" ->
                need(<<"arcade">>, "nokey")
                    \cup {w \in need(Character, "share") : o.amount > tx[s].seen["score"]}
         [] Doing(s) = "dialogue" -> need(<<"dialogue">>, "nokey")
                                       \cup need(Character, "share")
         [] OTHER -> {}

Clash(m1, m2) == "update" \in {m1, m2} \/ (m1 = "nokey" /\ m2 = "nokey")
WaitsFor(s, t) == /\ s # t
                  /\ \E w \in Wants(s), l \in locks : 
                        l.by = t /\ l.row = w.row /\ Clash(l.mode, w.mode)
Waits(s) == \E t \in Calls : WaitsFor(s, t)
InDeadlock(s) == /\ Waits(s)
                 /\ \E D \in SUBSET Calls :
                    /\ s \in D
                    /\ \A t \in D : /\ \E u \in D : WaitsFor(t, u)
                                    /\ \E u \in D : WaitsFor(u, t)
ReleasedMutant(s) == locks
Released(s) == {l \in locks : l.by # s}

-----------------------------------------------------------------------------
(* The end of a transaction.  Every method defers tx.Rollback().           *)
Rollback(s) ==
    /\ locks' = Released(s)
    /\ tx' = [tx EXCEPT ![s] = Refused]
    /\ UNCHANGED <<db, rows>>

Commit(s) ==
    /\ Running(s) /\ AtEnd(s)
    /\ db' = Sees(s)
    /\ rows' = rows \cup tx[s].rows
    /\ locks' = Released(s)
    /\ \E answer \in {"done", "lost"} :
          tx' = [tx EXCEPT ![s] = Call(Op(s), 1, tx[s].win, answer)]

(* One statement: it writes columns, remembers what it read, inserts rows. *)
Sent(k, at, seen, new, inserts, win) ==
    [op |-> k.op, at |-> at, seen |-> seen, new |-> new, rows |-> inserts, win |-> win,
     answer |-> k.answer]
Updated(f, g) ==
    [c \in DOMAIN f \cup DOMAIN g |-> IF c \in DOMAIN g THEN g[c] ELSE f[c]]
Proceed(s, writes, reads, inserts) ==
    /\ locks' = locks \cup Wants(s)
    /\ tx' = [tx EXCEPT ![s] = Sent(@, @.at + 1, Updated(@.seen, reads),
                                    Updated(@.new, writes), @.rows \cup inserts, @.win)]
    /\ UNCHANGED <<db, rows>>
Write(s, column, value) == Proceed(s, [c \in {column} |-> value], Nothing, {})
Read(s, columns) == Proceed(s, Nothing, [c \in columns |-> Sees(s)[c]], {})
Reaches(s, statement) == Doing(s) = statement /\ ~Waits(s)

(* A call begins, or its handler refuses it before it asks the store: the  *)
(* vending handler for the selection, the connection, the distance, the    *)
(* rate limit or the draw; the arcade and the character's handler for a    *)
(* bad body or a character that is gone.  The other methods have no        *)
(* handler yet.                                                            *)
Free(s) == tx[s].at = 0 /\ (s > 1 => tx[s - 1].at > 0)
Ask(s, o) ==
    /\ tx' = [tx EXCEPT ![s] = Call(o, 1, o.win, "open")]
    /\ UNCHANGED <<db, rows, locks>>
Refuse(s) ==
    /\ tx' = [tx EXCEPT ![s] = Refused]
    /\ UNCHANGED <<db, rows, locks>>

HandleVendingPurchase(s, o) == Free(s) /\ o.kind = "buy" /\ (Ask(s, o) \/ Refuse(s))
ArcadeScoreHandler(s, o) ==
    /\ Free(s) /\ o.kind = "arcade"
    /\ (db["alive"] = 1 /\ Ask(s, o)) \/ Refuse(s)
CharacterHandler(s, o) ==
    /\ Free(s) /\ o.kind \in {"use", "talk", "delete"}
    /\ (db["alive"] = 1 /\ Ask(s, o)) \/ Refuse(s)
StoreCall(s, o) ==
    Free(s) /\ o.kind \in {"credit", "spend", "grant", "consume", "award", "change"}
            /\ Ask(s, o)
Begin(s, o) == \/ HandleVendingPurchase(s, o) \/ ArcadeScoreHandler(s, o)
               \/ CharacterHandler(s, o) \/ StoreCall(s, o)

-----------------------------------------------------------------------------
(* recordEconomyEvent and the inserts into progression_events.             *)
Key(s) ==
    /\ Reaches(s, "key")
    /\ IF Taken(EventTable(Op(s)), Op(s).key) THEN Rollback(s)
       ELSE Proceed(s, Nothing, Nothing, {})

Event(s, table, delta) == [table |-> table, by |-> s, delta |-> delta,
                           key |-> IF Op(s).kind = "use" THEN Empty ELSE Op(s).key]
Quantity(k) == CASE k.op.kind = "grant" -> k.op.amount
                 [] k.op.kind \in {"consume", "use"} -> -k.op.amount
                 [] OTHER -> IF k.win THEN 1 ELSE 0

EconomyEvent(s) ==
    /\ Reaches(s, "economy")
    /\ Proceed(s, Nothing, Nothing,
               {Event(s, "economy", [c \in {"yen", Op(s).item} |->
                                       IF c = "yen" THEN Op(s).yen
                                       ELSE Quantity(tx[s])])})

ProgressionEvent(s) ==
    /\ Reaches(s, "progress")
    /\ Proceed(s, Nothing, Nothing,
               {Event(s, "progression",
                   IF Op(s).kind = "award" THEN [xp |-> Op(s).amount]
                   ELSE [hp |-> Sees(s)["hp"] - tx[s].seen["hp"]])})

(* UPDATE characters SET yen = yen + amount: refused when the row is gone  *)
(* or, for spending, holds too little.                                     *)
Pay(s) ==
    /\ Reaches(s, "pay")
    /\ IF Matches(s) THEN Write(s, "yen", Sees(s)["yen"] + Op(s).yen)
       ELSE Rollback(s)

(* The bounded upserts.  A full stack refuses a grant; it only turns a     *)
(* winning can into an ordinary one.                                       *)
Fits(s, quantity) == Sees(s)[Op(s).item] + quantity <= MaxStack[Op(s).item]
Stack(s) ==
    /\ Reaches(s, "stack")
    /\ IF Fits(s, Op(s).amount)
       THEN Write(s, Op(s).item, Sees(s)[Op(s).item] + Op(s).amount)
       ELSE Rollback(s)
Prize(s) ==
    /\ Reaches(s, "prize")
    /\ IF tx[s].win /\ Fits(s, 1) THEN Write(s, Op(s).item, Sees(s)[Op(s).item] + 1)
       ELSE /\ locks' = locks \cup Wants(s)
            /\ tx' = [tx EXCEPT ![s] = Sent(@, @.at + 1, @.seen, @.new, @.rows, FALSE)]
            /\ UNCHANGED <<db, rows>>

(* ConsumeItem and UseHealingItem: the quantity is read, then written.     *)
Take(s) ==
    /\ Reaches(s, "take")
    /\ IF Sees(s)[Op(s).item] < Op(s).amount THEN Rollback(s)
       ELSE Read(s, {Op(s).item})
Store(s) ==
    /\ Reaches(s, "store")
    /\ Write(s, Op(s).item, tx[s].seen[Op(s).item] - Op(s).amount)

(* The character read FOR UPDATE; an item is not used at full health.      *)
Lock(s) ==
    /\ Reaches(s, "lock")
    /\ IF Matches(s) THEN Read(s, {"hp", "xp"}) ELSE Rollback(s)
Full(s) ==
    /\ Reaches(s, "full")
    /\ IF ~Matches(s) THEN Rollback(s)
       ELSE IF Sees(s)["hp"] >= MaxHP THEN Rollback(s)
       ELSE Read(s, {"hp", "xp"})
Experience(s) ==
    /\ Reaches(s, "xp")
    /\ Write(s, "xp", tx[s].seen["xp"] + Op(s).amount)
Health(s) ==
    /\ Reaches(s, "hp")
    /\ Write(s, "hp", Min({MaxHP, Max({0, tx[s].seen["hp"] + Op(s).hp})}))

(* PurchaseVendingDrink: a request id that was sold is answered again; for *)
(* another machine or drink it is a duplicate.                             *)
Lookup(s) ==
    /\ Reaches(s, "lookup")
    /\ \/ /\ Sale(Op(s)) = {}
          /\ Proceed(s, Nothing, Nothing, {})
       \/ \E sale \in Sale(Op(s)) :
             IF sale.machine # Op(s).machine THEN Rollback(s)
             ELSE IF Sees(s)["alive"] = 0 THEN Rollback(s)
             ELSE /\ locks' = locks \cup Wants(s)
                  /\ tx' = [tx EXCEPT ![s] = Sent(@, Len(PurchaseVendingDrink) + 1,
                                                  @.seen, @.new, @.rows, sale.win)]
                  /\ UNCHANGED <<db, rows>>
RecordSale(s) ==
    /\ Reaches(s, "sale")
    /\ IF Sale(Op(s)) # {} THEN Rollback(s)
       ELSE Proceed(s, Nothing, Nothing,
                    {[table |-> "purchases", key |-> Op(s).key, by |-> s,
                      machine |-> Op(s).machine, win |-> tx[s].win]})

(* Arcade scores, the dialogue's compare-and-swap, and the deletion.       *)
BestScore(s) == Reaches(s, "best") /\ Read(s, {"score"})
SubmitScore(s) ==
    /\ Reaches(s, "score")
    /\ Write(s, "score", Max({tx[s].seen["score"], Op(s).amount}))
AnyRevisionMutant(s) ==
    /\ Reaches(s, "dialogue")
    /\ IF Sees(s)["alive"] = 1 THEN Write(s, "dialogue", Op(s).amount + 1)
       ELSE Rollback(s)
Dialogue(s) ==
    /\ Reaches(s, "dialogue")
    /\ IF Matches(s) THEN Write(s, "dialogue", Op(s).amount + 1)
       ELSE Rollback(s)
Hide(s) ==
    /\ Reaches(s, "hide")
    /\ IF Matches(s) THEN Write(s, "alive", 0) ELSE Rollback(s)

(* PostgreSQL ends one transaction of a deadlock; a context may end, or    *)
(* the connection break, at any time.                                      *)
DeadlockVictim(s) == InDeadlock(s) /\ Rollback(s)
GiveUp(s) == Running(s) /\ Rollback(s)

-----------------------------------------------------------------------------
Init ==
    /\ db = Start
    /\ rows = {}
    /\ locks = {}
    /\ tx = [s \in Calls |-> NoCall]

Statement(s) ==
    \/ Key(s) \/ EconomyEvent(s) \/ ProgressionEvent(s)
    \/ Pay(s) \/ Stack(s) \/ Prize(s) \/ Take(s) \/ Store(s)
    \/ Lock(s) \/ Full(s) \/ Experience(s) \/ Health(s)
    \/ Lookup(s) \/ RecordSale(s)
    \/ BestScore(s) \/ SubmitScore(s) \/ Dialogue(s) \/ Hide(s)
Advance(s) == Running(s) /\ (Statement(s) \/ Commit(s))

Next ==
    \/ \E s \in Calls : \E o \in Ops[s] : Begin(s, o)
    \/ \E s \in Calls : Advance(s) \/ DeadlockVictim(s) \/ GiveUp(s)

Spec == Init /\ [][Next]_vars

(* As long as some statement can run, or some deadlock can be broken, the  *)
(* database does one of these; nothing is assumed of contexts and          *)
(* connections.                                                            *)
FairSpec == Spec /\ WF_vars(\E s \in Calls : Advance(s) \/ DeadlockVictim(s))
-----------------------------------------------------------------------------
WithinLimits ==
    /\ \A c \in Columns : db[c] >= 0
    /\ db["hp"] <= MaxHP
    /\ \A i \in Items : db[i] <= MaxStack[i]

(* The event tables account for every change: yen, items, experience and   *)
(* health are the start plus the committed events, whatever ran at the     *)
(* same time, was refused, deadlocked or was given up; and what comes out  *)
(* is within its limits: no debt, no stack above its maximum.  An item is  *)
(* never used up without health gained, although others may restore health *)
(* between the check and the use.                                          *)
Amount(r, column) == IF r.table # "purchases" /\ column \in DOMAIN r.delta
                     THEN r.delta[column] ELSE 0
Change(column) ==
    SumFunction([r \in rows |-> Amount(r, column)])
ItemsHeal ==
    \A e \in rows : e.table = "economy" /\ Op(e.by).kind = "use" =>
        \E p \in rows : p.table = "progression" /\ p.by = e.by /\ p.delta["hp"] > 0
LedgerAgrees ==
    /\ \A c \in {"yen", "hp", "xp"} \cup Items : db[c] = Start[c] + Change(c)
    /\ WithinLimits
    /\ ItemsHeal

(* A request id is charged once and an event key takes effect once, however *)
(* often and however concurrently the client asks; and every answer that a  *)
(* purchase gets tells of the sale that was made, prize included.           *)
ChargedOnce ==
    /\ \A r1, r2 \in rows :
          r1.table = r2.table /\ r1.key = r2.key /\ r1.key # Empty => r1 = r2
    /\ \A s \in Calls :
          Op(s).kind = "buy" /\ tx[s].answer = "done" =>
             \E r \in Sale(Op(s)) : r.machine = Op(s).machine /\ r.win = tx[s].win

(* No committed arcade score is above the best one, and no accepted save of *)
(* the dialogue is lost under another: each one made a revision of its own. *)
Accepted(kind) == {s \in Calls : Op(s).kind = kind /\ tx[s].answer \in {"done", "lost"}}
SavesAreKept ==
    /\ \A s \in Accepted("arcade") : Op(s).amount <= db["score"]
    /\ db["dialogue"] = Start["dialogue"] + Cardinality(Accepted("talk"))

(* No call waits for ever: the lock orders of the methods differ, and a     *)
(* deadlock ends with the loss of one call, never with both hanging.  Only  *)
(* NCalls calls begin, so in the end none is running.                       *)
EveryCallEnds == <>[](\A s \in Calls : ~Running(s))

-----------------------------------------------------------------------------
(* The inductive invariant.                                                *)
Fields(k) == [op |-> k.op, at |-> k.at, seen |-> k.seen, new |-> k.new,
              rows |-> k.rows, win |-> k.win, answer |-> k.answer]
CallType(s, k) ==
    /\ k = Fields(k)
    /\ k.at \in Nat /\ k.win \in BOOLEAN
    /\ k.answer \in {"open", "refused", "done", "lost"}
    /\ k.at = 0 => k = NoCall
    /\ IF k.at > 0 /\ k.answer # "refused" THEN k.op \in Ops[s]
                                           ELSE k.op.kind = "none"
TypeOK ==
    /\ db \in [Columns -> Nat]
    /\ IsFiniteSet(rows)
    /\ \A r \in rows :
          /\ r.table \in {"economy", "progression", "purchases"}
          /\ r.table # "purchases" => \A c \in DOMAIN r.delta : r.delta[c] \in Int
          /\ r.table = "purchases" => r.win \in BOOLEAN
          /\ r.by \in Calls /\ tx[r.by].answer \in {"done", "lost"}
    /\ \A l \in locks : l.by \in Calls /\ l.mode \in {"share", "nokey", "update"}
    /\ DOMAIN tx = Calls
    /\ \A s \in Calls : CallType(s, tx[s])

Holds(s, row) == \E l \in locks : l.by = s /\ l.row = row /\ l.mode # "share"
Exclusive ==
    \A l1, l2 \in locks :
        l1.row = l2.row /\ Clash(l1.mode, l2.mode) => l1.by = l2.by

Row(c) == CASE c \in Items -> <<"inventory", c>>
            [] c = "score" -> <<"arcade">>
            [] c = "dialogue" -> <<"dialogue">>
            [] OTHER -> Character

(* The statements call k has sent; those that a purchase which was only    *)
(* answered again left out do not count.                                   *)
Replayed(k) == k.op.kind = "buy" /\ k.at > Len(PurchaseVendingDrink) /\ k.rows = {}
Past(k) == IF Replayed(k) THEN {}
           ELSE {Program[k.op.kind][i] : i \in 1..(k.at - 1)}

Changed(k) == {c \in Columns :
    \/ c = "yen" /\ "pay" \in Past(k)
    \/ c = "hp" /\ "hp" \in Past(k)
    \/ c = "xp" /\ "xp" \in Past(k)
    \/ c = "score" /\ "score" \in Past(k)
    \/ c = "dialogue" /\ "dialogue" \in Past(k)
    \/ c = "alive" /\ "hide" \in Past(k)
    \/ c = k.op.item /\ \/ "stack" \in Past(k) \/ "store" \in Past(k)
                        \/ "prize" \in Past(k) /\ k.win}
ChangesOK(k, d) ==
    /\ DOMAIN k.new = Changed(k)
    /\ \A c \in Changed(k) : k.new[c] \in Nat
    /\ "yen" \in Changed(k) => k.new["yen"] = d["yen"] + k.op.yen
    /\ "xp" \in Changed(k) => k.new["xp"] = d["xp"] + k.op.amount
    /\ "hp" \in Changed(k) => /\ k.new["hp"] <= MaxHP
                              /\ k.op.kind = "use" => k.new["hp"] > d["hp"]
    /\ "score" \in Changed(k) => /\ k.new["score"] >= d["score"]
                                 /\ k.new["score"] >= k.op.amount
    /\ "dialogue" \in Changed(k) => k.new["dialogue"] = d["dialogue"] + 1
    /\ \A i \in Items : i \in Changed(k) => /\ k.new[i] = d[i] + Quantity(k)
                                            /\ k.new[i] <= MaxStack[i]

Known(k) == {c \in Columns :
    \/ c \in {"hp", "xp"} /\ ("lock" \in Past(k) \/ "full" \in Past(k))
    \/ c = "score" /\ "best" \in Past(k)
    \/ c = k.op.item /\ "take" \in Past(k)}
ReadsOK(k, d) ==
    /\ DOMAIN k.seen = Known(k)
    /\ \A c \in Known(k) : k.seen[c] = d[c]
    /\ "take" \in Past(k) => k.seen[k.op.item] >= k.op.amount
    /\ "full" \in Past(k) => k.seen["hp"] < MaxHP

EconomyRow(s, k) ==
    [table |-> "economy", by |-> s,
     delta |-> [c \in {"yen", k.op.item} |-> IF c = "yen" THEN k.op.yen ELSE Quantity(k)],
     key |-> IF k.op.kind = "use" THEN Empty ELSE k.op.key]
ProgressionRow(s, k) ==
    [table |-> "progression", by |-> s,
     delta |-> IF k.op.kind = "award" THEN [xp |-> k.op.amount]
               ELSE [hp |-> k.new["hp"] - k.seen["hp"]],
     key |-> IF k.op.kind = "use" THEN Empty ELSE k.op.key]
SaleRow(s, k) == [table |-> "purchases", key |-> k.op.key, by |-> s,
                  machine |-> k.op.machine, win |-> k.win]
Inserted(s, k) == (IF "economy" \in Past(k) THEN {EconomyRow(s, k)} ELSE {})
             \cup (IF "progress" \in Past(k) THEN {ProgressionRow(s, k)} ELSE {})
             \cup (IF "sale" \in Past(k) THEN {SaleRow(s, k)} ELSE {})

CallOK(s) ==
    LET k == tx[s]
    IN /\ k.at <= Len(Program[k.op.kind]) + 1
       /\ ChangesOK(k, db)
       /\ ReadsOK(k, db)
       /\ k.rows = Inserted(s, k)
       /\ \A c \in Changed(k) \cup Known(k) : Holds(s, Row(c))
       /\ "key" \in Past(k) /\ k.op.key # Empty =>
             /\ Holds(s, <<EventTable(k.op), k.op.key>>)
             /\ ~Taken(EventTable(k.op), k.op.key)
       /\ "sale" \in Past(k) => Holds(s, <<"purchases", k.op.key>>) /\ Sale(k.op) = {}
       /\ Replayed(k) => \E r \in Sale(k.op) : r.machine = k.op.machine /\ r.win = k.win

IInv ==
    /\ TypeOK
    /\ Exclusive
    /\ \A s \in Calls : Running(s) => CallOK(s)
    /\ LedgerAgrees
    /\ ChargedOnce
    /\ SavesAreKept
=============================================================================
