----------------------------- MODULE ComputedFields -----------------------------
(***************************************************************************)
(* The engine that keeps stored computed fields in sync: the registry that *)
(* `depends_on` is parsed into (dependency.py), and what the context of a  *)
(* unit of work queues when a write is declared to it (context.py).        *)
(*                                                                         *)
(* A stored computed field is a pair <<model, name>>, a dependency a path  *)
(* of field names, and `view` the rows as one transaction sees them.       *)
(***************************************************************************)
EXTENDS Integers, SequencesExt

CONSTANTS
    Model,      \* the model of each row
    Forward,    \* <<model, foreign key>> -> the model it points to
    Related,    \* <<model, related name>> -> <<model, foreign key>> it reverses
    OnDelete,   \* <<model, foreign key>> -> "CASCADE", "SET_NULL" or "PROTECT"
    DependsOn,  \* stored computed field -> its dependencies
    Null

Rows   == DOMAIN Model
Stored == DOMAIN DependsOn
Models == {k[1] : k \in DOMAIN Related} \cup {k[1] : k \in DOMAIN Forward}

IsRelation(m, n) == <<m, n>> \in DOMAIN Forward \cup DOMAIN Related

ASSUME SchemaAssumption ==
    /\ \A k \in DOMAIN Related : Forward[Related[k]] = k[1]
    /\ DOMAIN OnDelete = DOMAIN Forward
    /\ DOMAIN Forward \cap DOMAIN Related = {}

--------------------------------------------------------------------------------
(***************************************************************************)
(* The registry.                                                           *)
(***************************************************************************)

\* The model at the other end of a relation.
Target(m, n) ==
    IF <<m, n>> \in DOMAIN Forward THEN Forward[<<m, n>>] ELSE Related[<<m, n>>][1]

\* The model a path of relations leads to.
Walk(m, path) ==
    LET at[i \in 0..Len(path)] == IF i = 0 THEN m ELSE Target(at[i - 1], path[i])
    IN at[Len(path)]

\* The paths that _parse_dependency watches: one per relation crossed, and the
\* empty one, the root itself.
WatchedPaths(c) ==
    {q \in UNION {Prefixes(d) : d \in DependsOn[c]} :
        \A i \in DOMAIN q : IsRelation(Walk(c[1], SubSeq(q, 1, i - 1)), q[i])}

\* The foreign key a path ends on when its last relation is a reverse one.
WayBack(c, q) ==
    IF q = <<>> THEN {}
    ELSE LET k == <<Walk(c[1], Front(q)), Last(q)>>
         IN IF k \in DOMAIN Related THEN {Related[k][2]} ELSE {}

\* The names that come right after q in the dependencies and are written on the
\* model q leads to: columns and forward keys.
WrittenThere(c, q) ==
    {n \in {d[Len(q) + 1] : d \in {e \in DependsOn[c] : IsStrictPrefix(q, e)}} :
        <<Walk(c[1], q), n>> \notin DOMAIN Related}

\* Binding: when `triggers` of `watched` are written, or rows of it appear or
\* disappear, `field` is stale on the rows that reach them through `path`.
Binding(c, q) ==
    [field      |-> c,
     watched    |-> Walk(c[1], q),
     path       |-> q,
     triggers   |-> WrittenThere(c, q) \cup WayBack(c, q),
     membership |-> WayBack(c, q),
     existence  |-> q # <<>>]

Bindings == UNION {{Binding(c, q) : q \in WatchedPaths(c)} : c \in Stored}

\* The stored computed fields that a field reads.
Reads(c) ==
    Stored \cap
      UNION {{<<b.watched, n>> : n \in b.triggers} : b \in {x \in Bindings : x.field = c}}

\* _compute_depths: a field is deeper than every stored field it reads.
Depth[c \in Stored] ==
    IF Reads(c) = {} THEN 0 ELSE 1 + Max({Depth[d] : d \in Reads(c)})

\* No field reads itself, directly or not: refused at startup otherwise.
ASSUME DepthAssumption ==
    \A c \in Stored : Depth[c] \in Nat /\ \A d \in Reads(c) : Depth[d] < Depth[c]

\* _compute_cascades: the models that a deletion of rows of m may delete from,
\* and whose existence some binding watches.
CascadingKeys  == {k \in DOMAIN Forward : OnDelete[k] = "CASCADE"}
NullingKeys    == {k \in DOMAIN Forward : OnDelete[k] = "SET_NULL"}
ProtectingKeys == {k \in DOMAIN Forward : OnDelete[k] = "PROTECT"}

CascadesTo(m) == {k[1] : k \in {f \in CascadingKeys : Forward[f] = m}}

\* No chain of cascades crosses more models than those that cascade.
CascadeSteps == Cardinality({k[1] : k \in CascadingKeys})

CascadeClosure(m) ==
    LET grow[n \in 0..CascadeSteps] ==
          IF n = 0 THEN CascadesTo(m)
          ELSE LET S == grow[n - 1] IN S \cup UNION {CascadesTo(x) : x \in S}
    IN grow[CascadeSteps]

\* No model of this schema cascades to itself, so Collected is complete.
ASSUME CascadeAssumption == \A m \in Models : m \notin CascadeClosure(m)

ExistenceWatched == {b.watched : b \in {x \in Bindings : x.existence}}

CascadeDeleted ==
    {d \in Models \X Models : d[2] \in CascadeClosure(d[1]) \cap ExistenceWatched}

\* The watched keys that a deletion of rows of m may rewrite.
CascadeNulled ==
    {d \in Models \X NullingKeys :
        /\ Forward[d[2]] \in {d[1]} \cup CascadeClosure(d[1])
        /\ \E b \in Bindings : b.watched = d[2][1] /\ d[2][2] \in b.triggers}

--------------------------------------------------------------------------------
(***************************************************************************)
(* The rows a transaction sees, and what relations lead to.                *)
(***************************************************************************)
Live(view, m) == {r \in Rows : Model[r] = m /\ view[r].live}

\* The rows whose foreign key k points to r.
PointingTo(view, k, r) == {x \in Live(view, k[1]) : view[x][k[2]] = r}

Follow(view, r, n) ==
    LET k == <<Model[r], n>> IN
    IF k \in DOMAIN Forward THEN {view[r][n]} \cap Live(view, Forward[k])
                            ELSE PointingTo(view, Related[k], r)

Reached(view, r, path) ==
    LET at[i \in 0..Len(path)] ==
          IF i = 0 THEN {r} ELSE UNION {Follow(view, x, path[i]) : x \in at[i - 1]}
    IN at[Len(path)]

\* Rows with one of the keys K pointing into S.
PointingInto(view, K, S) ==
    {x \in Rows : view[x].live /\ \E k \in K : k[1] = Model[x] /\ view[x][k[2]] \in S}

\* Rows that a deletion of S deletes, S included.
Collected(view, S) ==
    LET grow[n \in 0..CascadeSteps] ==
          IF n = 0 THEN S
          ELSE LET T == grow[n - 1] IN T \cup PointingInto(view, CascadingKeys, T)
    IN grow[CascadeSteps]

\* Rows that refuse the deletion of S: ProtectedError.
Protecting(view, S) ==
    PointingInto(view, ProtectingKeys, Collected(view, S))

--------------------------------------------------------------------------------
(***************************************************************************)
(* RefreshComputedFieldsContext: what each declaration adds to _pending, a *)
(* set of pairs <<stored field, row>>.                                     *)
(***************************************************************************)

\* Mutant of Roots: the written rows themselves, not the roots that reach them.
Roots_Written(view, b, pks) == {r \in pks : view[r].live}

\* _roots
Roots(view, b, pks) ==
    {r \in Live(view, b.field[1]) : Reached(view, r, b.path) \cap pks # {}}

\* _resolve
Resolve(view, B, pks) ==
    UNION {{<<b.field, r>> : r \in Roots(view, b, pks)} : b \in B}

\* _existence_changed
ExistenceChanged(view, m, pks) ==
    Resolve(view, {b \in Bindings : b.watched = m /\ b.existence}, pks)

Created(view, m, pks) ==
    ({c \in Stored : c[1] = m} \X pks) \cup ExistenceChanged(view, m, pks)

Modified(view, m, pks, names, before) ==
    Resolve(view, {b \in Bindings : /\ b.watched = m
                                    /\ b.triggers \cap names # {}
                                    /\ before => b.membership \cap names # {}}, pks)

HasRelationToModify(m, names) ==
    \E b \in Bindings : b.watched = m /\ b.membership \cap names # {}

\* Mutant of Deleted: only the rows asked for, not what on_delete does to others.
Deleted_NoCascade(view, m, pks) == ExistenceChanged(view, m, pks)

\* Called before the delete: the cascade is collected up front.
Deleted(view, m, pks) ==
    LET gone == Collected(view, pks) IN
    ExistenceChanged(view, m, pks)
      \cup (UNION {ExistenceChanged(view, x, {r \in gone \ pks : Model[r] = x}) :
                     x \in {y \in Models : <<m, y>> \in CascadeDeleted}})
      \cup (UNION {Modified(view, k[1], PointingInto(view, {k}, gone), {k[2]}, TRUE) :
                     k \in {y \in DOMAIN Forward : <<m, y>> \in CascadeNulled}})

\* The depth that `flush` refreshes next.
Level(pending) == Min({Depth[x[1]] : x \in pending})

================================================================================
