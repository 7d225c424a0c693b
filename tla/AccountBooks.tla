------------------------------ MODULE AccountBooks ------------------------------
(***************************************************************************)
(* The account app on top of the service layer: creations, updates and     *)
(* deletions of accounts, categories, movements, budgets, positions and    *)
(* lines, each one a transaction that declares its writes to the computed  *)
(* field context and flushes it before it commits.                         *)
(*                                                                         *)
(* A transaction reads what is committed plus what it wrote itself (READ   *)
(* COMMITTED), and holds the lock of each row it wrote until it ends.      *)
(* `balance` is a generated column of the account row and always the sum   *)
(* of the two totals; the color of a position is kept like its name.       *)
(***************************************************************************)
EXTENDS ComputedFields

CONSTANTS Procs, Amounts, Names

VARIABLES
    db,   \* the committed rows
    tx    \* the unit of work of each process

vars == <<db, tx>>

--------------------------------------------------------------------------------
(***************************************************************************)
(* The models: foreign keys, and stored computed fields with what they     *)
(* depend on.  These are the values of the constants of ComputedFields.    *)
(***************************************************************************)
AccountForward ==
    [k \in {<<"category", "account">>, <<"movement", "account">>, <<"movement", "category">>,
            <<"budget", "account">>, <<"position", "budget">>, <<"position", "category">>,
            <<"line", "position">>, <<"line", "budget">>} |-> k[2]]

AccountRelated ==
    [k \in {<<"account", "categories">>, <<"account", "movements">>, <<"account", "budgets">>,
            <<"category", "movements">>, <<"category", "budget_positions">>,
            <<"budget", "positions">>, <<"budget", "lines">>, <<"position", "lines">>} |->
       CASE k = <<"account", "categories">>        -> <<"category", "account">>
         [] k = <<"account", "movements">>         -> <<"movement", "account">>
         [] k = <<"account", "budgets">>           -> <<"budget", "account">>
         [] k = <<"category", "movements">>        -> <<"movement", "category">>
         [] k = <<"category", "budget_positions">> -> <<"position", "category">>
         [] k = <<"budget", "positions">>          -> <<"position", "budget">>
         [] k = <<"budget", "lines">>              -> <<"line", "budget">>
         [] k = <<"position", "lines">>            -> <<"line", "position">>]

AccountOnDelete ==
    [k \in DOMAIN AccountForward |->
       CASE k \in {<<"movement", "account">>, <<"budget", "account">>} -> "PROTECT"
         [] k = <<"movement", "category">>                             -> "SET_NULL"
         [] OTHER                                                      -> "CASCADE"]

AccountDependsOn ==
    [c \in {<<"account", "total_debit">>, <<"account", "total_credit">>,
            <<"budget", "total_planned_amount">>, <<"budget", "total_practical_amount">>,
            <<"position", "name">>, <<"position", "total_planned">>,
            <<"position", "total_practical">>} |->
       CASE c[1] = "account" -> {<<"movements">>, <<"movements", "amount">>}
         [] c = <<"budget", "total_planned_amount">> ->
              {<<"positions">>, <<"positions", "total_planned">>}
         [] c = <<"budget", "total_practical_amount">> ->
              {<<"positions">>, <<"positions", "total_practical">>}
         [] c = <<"position", "name">> -> {<<"category">>, <<"category", "name">>}
         [] c = <<"position", "total_planned">> -> {<<"lines">>, <<"lines", "planned_amount">>}
         [] c = <<"position", "total_practical">> ->
              {<<"category">>, <<"budget", "account">>, <<"category", "movements">>,
               <<"category", "movements", "amount">>, <<"category", "movements", "account">>}]

AccountModels == {"account", "category", "movement", "budget", "position", "line"}

ASSUME AccountAssumption ==
    /\ Forward = AccountForward /\ Related = AccountRelated
    /\ OnDelete = AccountOnDelete /\ DependsOn = AccountDependsOn
    /\ Model \in [Rows -> AccountModels]
    /\ Null \notin Rows

Accounts   == {r \in Rows : Model[r] = "account"}
Categories == {r \in Rows : Model[r] = "category"}
Movements  == {r \in Rows : Model[r] = "movement"}
Budgets    == {r \in Rows : Model[r] = "budget"}
Positions  == {r \in Rows : Model[r] = "position"}
Lines      == {r \in Rows : Model[r] = "line"}

\* The columns that a write gives a value to, by model; stored fields apart.
Columns ==
    [m \in AccountModels |->
       CASE m = "account"  -> {}
         [] m = "category" -> {"account", "name"}
         [] m = "movement" -> {"account", "category", "amount"}
         [] m = "budget"   -> {"account"}
         [] m = "position" -> {"budget", "category"}
         [] m = "line"     -> {"position", "budget", "planned_amount"}]

StoredColumns(m) == {c[2] : c \in {x \in Stored : x[1] = m}}

\* A row that does not exist.
NoRow(m) == [n \in Columns[m] \cup StoredColumns(m) \cup {"live"} |->
               IF n = "live" THEN FALSE ELSE Null]

(***************************************************************************)
(* The methods of the stored fields.                                       *)
(***************************************************************************)
SumOf(view, S, column) ==
    SumFunction([r \in {x \in S : view[x][column] # Null} |-> view[r][column]])

\* What the method of the stored field c gives for the row r.
Fresh(view, c, r) ==
    LET movements == Live(view, "movement")
        positions == PointingTo(view, <<"position", "budget">>, r) IN
    CASE c = <<"account", "total_debit">> ->
           SumOf(view, {x \in movements : view[x].account = r /\ view[x].amount < 0}, "amount")
      [] c = <<"account", "total_credit">> ->
           SumOf(view, {x \in movements : view[x].account = r /\ view[x].amount > 0}, "amount")
      [] c = <<"budget", "total_planned_amount">> -> SumOf(view, positions, "total_planned")
      [] c = <<"budget", "total_practical_amount">> -> SumOf(view, positions, "total_practical")
      [] c = <<"position", "name">> ->
           IF view[view[r].category].live THEN view[view[r].category].name ELSE "#"
      [] c = <<"position", "total_planned">> ->
           SumOf(view, PointingTo(view, <<"line", "position">>, r), "planned_amount")
      [] c = <<"position", "total_practical">> ->
           SumOf(view, {x \in movements : /\ view[x].account = view[view[r].budget].account
                                          /\ view[x].category = view[r].category}, "amount")

--------------------------------------------------------------------------------
(***************************************************************************)
(* Transactions.  `written` holds the rows a transaction has written, and  *)
(* so locked; `pending` is the _pending of its context; `fresh` the values *)
(* a flush has read and not stored yet.                                    *)
(***************************************************************************)
Nothing == [x \in {} |-> x]

Idle == [pc |-> "idle", kind |-> "none", rows |-> {}, values |-> Nothing,
         written |-> Nothing, pending |-> {}, fresh |-> Nothing]

\* One function laid over another: what a write gives over what was there.
Overlay(new, old) ==
    [x \in DOMAIN new \cup DOMAIN old |-> IF x \in DOMAIN new THEN new[x] ELSE old[x]]

View(p) == Overlay(tx[p].written, db)

Init ==
    /\ db = [r \in Rows |-> NoRow(Model[r])]
    /\ tx = [p \in Procs |-> Idle]

\* The rows S are not locked by another transaction.
CanWrite(p, S) == \A q \in Procs \ {p} : DOMAIN tx[q].written \cap S = {}

\* A primary key is a ULID: no row has it and no open transaction knows it.
NewKey(r) ==
    /\ ~db[r].live
    /\ \A q \in Procs : /\ r \notin tx[q].rows \cup DOMAIN tx[q].written
                        /\ \A n \in DOMAIN tx[q].values : tx[q].values[n] # r
                        /\ \A x \in tx[q].pending : x[2] # r

\* Relations are resolved, and validate_data passes, before anything is written.
Begin(p, kind, rows, values, pending) ==
    /\ tx[p].pc = "idle"
    /\ tx' = [tx EXCEPT ![p] = [pc |-> "write", kind |-> kind, rows |-> rows, values |-> values,
                                written |-> Nothing, pending |-> pending, fresh |-> Nothing]]
    /\ UNCHANGED db

\* A category is usable on what belongs to account a: general, or scoped to a.
Usable(view, c, a) == view[c].account \in {Null, a}

CreateAccount(p, r) == NewKey(r) /\ Begin(p, "create", {r}, Nothing, {})

CreateCategory(p, r, scope, name) ==
    /\ NewKey(r)
    /\ scope \in Live(db, "account") \cup {Null}
    /\ Begin(p, "create", {r}, [account |-> scope, name |-> name], {})

CreateMovement(p, r, a, c, amount) ==
    /\ NewKey(r)
    /\ a \in Live(db, "account")
    /\ c \in Live(db, "category") \cup {Null}
    /\ c # Null => Usable(db, c, a)
    /\ Begin(p, "create", {r}, [account |-> a, category |-> c, amount |-> amount], {})

CreateBudget(p, r, a) ==
    /\ NewKey(r)
    /\ a \in Live(db, "account")
    /\ Begin(p, "create", {r}, [account |-> a], {})

CreatePosition(p, r, b, c) ==
    /\ NewKey(r)
    /\ b \in Live(db, "budget") /\ c \in Live(db, "category")
    /\ Usable(db, c, db[b].account)
    /\ Begin(p, "create", {r}, [budget |-> b, category |-> c], {})

\* The budget of a line is derived from its position.
CreateLine(p, r, q, amount) ==
    /\ NewKey(r)
    /\ q \in Live(db, "position")
    /\ Begin(p, "create", {r},
             [position |-> q, budget |-> db[q].budget, planned_amount |-> amount], {})

(***************************************************************************)
(* _update_atomic up to the UPDATE: the rows are read, and the roots that  *)
(* a moved row is about to leave are captured.                             *)
(***************************************************************************)

\* Mutant of Update: the roots are only looked for after the write.
Update_NoCapture(p, m, rows, values) ==
    /\ rows # {} /\ rows \subseteq Live(db, m)
    /\ Begin(p, "update", rows, values, {})

Update(p, m, rows, values) ==
    /\ rows # {} /\ rows \subseteq Live(db, m)
    /\ Begin(p, "update", rows, values,
             IF HasRelationToModify(m, DOMAIN values)
               THEN Modified(db, m, rows, DOMAIN values, TRUE) ELSE {})

UpdateCategory(p, rows, name) == Update(p, "category", rows, [name |-> name])

UpdateMovementAmount(p, rows, amount) == Update(p, "movement", rows, [amount |-> amount])

UpdateMovementCategory(p, rows, c) ==
    /\ c \in Live(db, "category") \cup {Null}
    /\ c # Null => \A r \in rows : Usable(db, c, db[r].account)
    /\ Update(p, "movement", rows, [category |-> c])

UpdatePosition(p, rows, c) ==
    /\ c \in Live(db, "category")
    /\ \A r \in rows : db[r].live => Usable(db, c, db[db[r].budget].account)
    /\ Update(p, "position", rows, [category |-> c])

UpdateLineAmount(p, rows, amount) == Update(p, "line", rows, [planned_amount |-> amount])

\* The QuerySet rewrites the budget too, with the one validate_data has required.
UpdateLinePosition(p, rows, q) ==
    /\ q \in Live(db, "position")
    /\ \A r \in rows : db[r].budget = db[q].budget
    /\ Update(p, "line", rows, [position |-> q])

\* _delete_atomic up to the DELETE.
Delete(p, m, rows) ==
    /\ rows # {} /\ rows \subseteq Live(db, m)
    /\ Protecting(db, rows) = {}
    /\ Begin(p, "delete", rows, Nothing, Deleted(db, m, rows))

--------------------------------------------------------------------------------
(***************************************************************************)
(* The write, its declaration, the flush and the commit.                   *)
(***************************************************************************)
ModelOf(t) == Model[CHOOSE r \in t.rows : TRUE]

\* INSERT: the stored columns are NULL.
WriteCreate(p) ==
    /\ tx[p].pc = "write" /\ tx[p].kind = "create"
    /\ tx' = [tx EXCEPT ![p].pc = "declare",
                        ![p].written = [r \in tx[p].rows |->
                            Overlay(tx[p].values, [NoRow(Model[r]) EXCEPT !.live = TRUE])]]
    /\ UNCHANGED db

\* UPDATE: the rows that still exist once their locks are obtained.
WriteUpdate(p) ==
    LET rows == {r \in tx[p].rows : db[r].live} IN
    /\ tx[p].pc = "write" /\ tx[p].kind = "update"
    /\ CanWrite(p, tx[p].rows)
    /\ tx' = [tx EXCEPT ![p].pc = "declare",
                        ![p].written = [r \in rows |-> Overlay(tx[p].values, db[r])]]
    /\ UNCHANGED db

\* DELETE, with what on_delete does to the rows that point to the deleted ones.
WriteDelete(p) ==
    LET gone == Collected(db, {r \in tx[p].rows : db[r].live})
        nulls(x) == {n \in Columns[Model[x]] : /\ <<Model[x], n>> \in DOMAIN OnDelete
                                               /\ OnDelete[<<Model[x], n>>] = "SET_NULL"
                                               /\ db[x][n] \in gone}
        nulled == {x \in Rows \ gone : db[x].live /\ nulls(x) # {}} IN
    /\ tx[p].pc = "write" /\ tx[p].kind = "delete"
    /\ Protecting(db, tx[p].rows) = {}
    /\ CanWrite(p, gone \cup nulled)
    /\ tx' = [tx EXCEPT ![p].pc = "flush",
                        ![p].written = [x \in gone \cup nulled |->
                            IF x \in gone THEN NoRow(Model[x])
                                          ELSE Overlay([n \in nulls(x) |-> Null], db[x])]]
    /\ UNCHANGED db

DeclareCreated(p) ==
    /\ tx[p].pc = "declare" /\ tx[p].kind = "create"
    /\ tx' = [tx EXCEPT ![p].pc = "flush",
                        ![p].pending = @ \cup Created(View(p), ModelOf(tx[p]), tx[p].rows)]
    /\ UNCHANGED db

DeclareModified(p) ==
    /\ tx[p].pc = "declare" /\ tx[p].kind = "update"
    /\ tx' = [tx EXCEPT ![p].pc = "flush",
                        ![p].pending = @ \cup Modified(View(p), ModelOf(tx[p]), tx[p].rows,
                                                       DOMAIN tx[p].values, FALSE)]
    /\ UNCHANGED db

\* Mutant of Batch: fields are refreshed in any order of depth.
Batch_AnyDepth(pending, m) == {x \in pending : x[1][1] = m}

\* What one round of `flush` refreshes on model m: its shallowest pending fields.
Batch(pending, m) == {x \in pending : x[1][1] = m /\ Depth[x[1]] = Level(pending)}

\* bulk_refresh_fields reads: every field of the batch, on the union of the rows.
FlushRead(p, m) ==
    LET batch == Batch(tx[p].pending, m)
        rows  == {x[2] : x \in batch} \cap Live(View(p), m) IN
    /\ tx[p].pc = "flush" /\ batch # {}
    /\ tx' = [tx EXCEPT ![p].pc = "store", ![p].pending = @ \ batch,
                        ![p].fresh = [k \in {x[1] : x \in batch} \X rows |->
                                        Fresh(View(p), k[1], k[2])],
                        ![p].rows = rows]
    /\ UNCHANGED db

\* bulk_refresh_fields writes, and the write is fed back through modified().
FlushStore(p) ==
    LET t     == tx[p]
        rows  == {r \in t.rows : View(p)[r].live}
        names == {k[1][2] : k \in DOMAIN t.fresh}
        stored == [r \in rows |-> Overlay([n \in names |-> t.fresh[<<<<Model[r], n>>, r>>]],
                                          View(p)[r])]
        view  == Overlay(stored, View(p)) IN
    /\ t.pc = "store"
    /\ CanWrite(p, t.rows)
    /\ tx' = [tx EXCEPT ![p].pc = "flush", ![p].fresh = Nothing,
                        ![p].written = Overlay(stored, @),
                        ![p].pending = @ \cup
                            IF rows = {} THEN {}
                            ELSE Modified(view, ModelOf(t), t.rows, names, FALSE)]
    /\ UNCHANGED db

\* The constraints of the database: foreign keys, one position per category in a
\* budget, and one category per name, general or within an account.
Integrity(view) ==
    /\ \A k \in DOMAIN Forward : \A r \in Live(view, k[1]) :
         view[r][k[2]] # Null => view[r][k[2]] \in Live(view, Forward[k])
    /\ \A r, s \in Live(view, "position") :
         view[r].budget = view[s].budget /\ view[r].category = view[s].category => r = s
    /\ \A r, s \in Live(view, "category") :
         view[r].account = view[s].account /\ view[r].name = view[s].name => r = s

\* The context is flushed: COMMIT.
Commit(p) ==
    /\ tx[p].pc = "flush" /\ tx[p].pending = {}
    /\ Integrity(View(p))
    /\ db' = View(p)
    /\ tx' = [tx EXCEPT ![p] = Idle]

\* A constraint refuses the transaction: DatabaseError, reported as invalid data.
Refuse(p) ==
    /\ \/ tx[p].pc = "flush" /\ tx[p].pending = {} /\ ~Integrity(View(p))
       \/ tx[p].kind = "delete" /\ tx[p].pc = "write" /\ Protecting(db, tx[p].rows) # {}
    /\ tx' = [tx EXCEPT ![p] = Idle]
    /\ UNCHANGED db

\* The worker dies, the access rules refuse, or PostgreSQL aborts a deadlock.
Rollback(p) ==
    /\ tx[p].pc # "idle"
    /\ tx' = [tx EXCEPT ![p] = Idle]
    /\ UNCHANGED db

Write(p) == WriteCreate(p) \/ WriteUpdate(p) \/ WriteDelete(p)

Step(p) ==
    \/ Write(p)
    \/ DeclareCreated(p) \/ DeclareModified(p)
    \/ \E m \in Models : FlushRead(p, m)
    \/ FlushStore(p)
    \/ Commit(p) \/ Refuse(p)

Request(p) ==
    \/ \E r \in Accounts : CreateAccount(p, r)
    \/ \E r \in Categories, a \in Accounts \cup {Null}, n \in Names : CreateCategory(p, r, a, n)
    \/ \E r \in Movements, a \in Accounts, c \in Categories \cup {Null}, v \in Amounts :
         CreateMovement(p, r, a, c, v)
    \/ \E r \in Budgets, a \in Accounts : CreateBudget(p, r, a)
    \/ \E r \in Positions, b \in Budgets, c \in Categories : CreatePosition(p, r, b, c)
    \/ \E r \in Lines, q \in Positions, v \in Amounts : CreateLine(p, r, q, v)
    \/ \E S \in SUBSET Categories, n \in Names : UpdateCategory(p, S, n)
    \/ \E S \in SUBSET Movements, v \in Amounts : UpdateMovementAmount(p, S, v)
    \/ \E S \in SUBSET Movements, c \in Categories \cup {Null} : UpdateMovementCategory(p, S, c)
    \/ \E S \in SUBSET Positions, c \in Categories : UpdatePosition(p, S, c)
    \/ \E S \in SUBSET Lines, v \in Amounts : UpdateLineAmount(p, S, v)
    \/ \E S \in SUBSET Lines, q \in Positions : UpdateLinePosition(p, S, q)
    \/ \E m \in Models : \E S \in SUBSET {r \in Rows : Model[r] = m} : Delete(p, m, S)

Next == \E p \in Procs : Request(p) \/ Step(p) \/ Rollback(p)

Spec == Init /\ [][Next]_vars

--------------------------------------------------------------------------------
(***************************************************************************)
(* Properties.                                                             *)
(***************************************************************************)

\* Every variable has its type.
TypeOK ==
    /\ DOMAIN db = Rows
    /\ \A r \in Rows :
         /\ Columns[Model[r]] \subseteq DOMAIN db[r]
         /\ db[r].live \in BOOLEAN
         /\ \A k \in DOMAIN Forward : Model[r] = k[1] => db[r][k[2]] \in Rows \cup {Null}
    /\ \A p \in Procs :
         /\ tx[p].pc \in {"idle", "write", "declare", "flush", "store"}
         /\ tx[p].rows \subseteq Rows /\ DOMAIN tx[p].written \subseteq Rows
         /\ tx[p].pending \cup DOMAIN tx[p].fresh \subseteq
              {x \in Stored \X Rows : x[1][1] = Model[x[2]]}

\* The stored columns are in sync with what they are computed from: whatever is
\* created, moved, changed, nulled or deleted through the services, each committed
\* total and name is the one its method would give now.
InSync ==
    \A c \in Stored : \A r \in Live(db, c[1]) : db[r][c[2]] = Fresh(db, c, r)

\* A flush never refreshes a field while a shallower one, that it may read, is
\* still pending, and storing a field only queues deeper ones: so each round of the
\* loop of `flush` works on final values, and the loop ends.
FlushGoesDeeper ==
    [][\A p \in Procs : tx[p].pc = "store" =>
         \A k \in DOMAIN tx[p].fresh :
           /\ \A x \in tx[p].pending : Depth[k[1]] <= Depth[x[1]]
           /\ \A x \in tx'[p].pending \ tx[p].pending : Depth[k[1]] < Depth[x[1]]]_vars

================================================================================
