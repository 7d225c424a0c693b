--------------------------- MODULE AccountBooksProofs ---------------------------
(***************************************************************************)
(* Proofs about the account books, for any rows, amounts and names.  The   *)
(* types and the order of a flush hold for any number of units of work;    *)
(* that committed totals and names are in sync is proved for units of work *)
(* that run one at a time, since two that overlap may leave a total stale. *)
(*                                                                         *)
(* First the schema and the bindings the registry makes of it, then what   *)
(* each method reads, and that the declarations queue a field whenever a   *)
(* row it reads is created, written, moved or deleted; then the invariants.*)
(***************************************************************************)
EXTENDS AccountBooks, FiniteSetTheorems, WellFoundedInduction, TLAPS

--------------------------------------------------------------------------------
(***************************************************************************)
(* The schema of the account app.                                          *)
(***************************************************************************)
LEMMA TheKeys ==
    /\ DOMAIN Forward =
         {<<"category", "account">>, <<"movement", "account">>, <<"movement", "category">>,
          <<"budget", "account">>, <<"position", "budget">>, <<"position", "category">>,
          <<"line", "position">>, <<"line", "budget">>}
    /\ \A k \in DOMAIN Forward : Forward[k] = k[2] /\ k = <<k[1], k[2]>>
BY AccountAssumption DEF AccountForward

LEMMA TheRelatedNames ==
    /\ DOMAIN Related =
         {<<"account", "categories">>, <<"account", "movements">>, <<"account", "budgets">>,
          <<"category", "movements">>, <<"category", "budget_positions">>,
          <<"budget", "positions">>, <<"budget", "lines">>, <<"position", "lines">>}
    /\ Related[<<"account", "movements">>] = <<"movement", "account">>
    /\ Related[<<"category", "movements">>] = <<"movement", "category">>
    /\ Related[<<"budget", "positions">>] = <<"position", "budget">>
    /\ Related[<<"position", "lines">>] = <<"line", "position">>
BY AccountAssumption DEF AccountRelated

TotalDebit      == <<"account", "total_debit">>
TotalCredit     == <<"account", "total_credit">>
PlannedAmount   == <<"budget", "total_planned_amount">>
PracticalAmount == <<"budget", "total_practical_amount">>
PositionName    == <<"position", "name">>
Planned         == <<"position", "total_planned">>
Practical       == <<"position", "total_practical">>

LEMMA TheStored ==
    Stored = {<<"account", "total_debit">>, <<"account", "total_credit">>,
              <<"budget", "total_planned_amount">>, <<"budget", "total_practical_amount">>,
              <<"position", "name">>, <<"position", "total_planned">>,
              <<"position", "total_practical">>}
BY AccountAssumption DEF AccountDependsOn, Stored

LEMMA TheDependencies ==
    /\ DependsOn[<<"account", "total_debit">>] = {<<"movements">>, <<"movements", "amount">>}
    /\ DependsOn[<<"account", "total_credit">>] = {<<"movements">>, <<"movements", "amount">>}
    /\ DependsOn[<<"budget", "total_planned_amount">>] =
         {<<"positions">>, <<"positions", "total_planned">>}
    /\ DependsOn[<<"budget", "total_practical_amount">>] =
         {<<"positions">>, <<"positions", "total_practical">>}
    /\ DependsOn[<<"position", "name">>] = {<<"category">>, <<"category", "name">>}
    /\ DependsOn[<<"position", "total_planned">>] = {<<"lines">>, <<"lines", "planned_amount">>}
    /\ DependsOn[<<"position", "total_practical">>] =
         {<<"category">>, <<"budget", "account">>, <<"category", "movements">>,
          <<"category", "movements", "amount">>, <<"category", "movements", "account">>}
BY AccountAssumption DEF AccountDependsOn

LEMMA TheColumns ==
    /\ Columns["account"] = {} /\ Columns["category"] = {"account", "name"}
    /\ Columns["movement"] = {"account", "category", "amount"}
    /\ Columns["budget"] = {"account"} /\ Columns["position"] = {"budget", "category"}
    /\ Columns["line"] = {"position", "budget", "planned_amount"}
BY DEF Columns, AccountModels

LEMMA TheStoredColumns ==
    /\ StoredColumns("account") = {"total_debit", "total_credit"}
    /\ StoredColumns("budget") = {"total_planned_amount", "total_practical_amount"}
    /\ StoredColumns("position") = {"name", "total_planned", "total_practical"}
    /\ StoredColumns("category") = {} /\ StoredColumns("movement") = {}
    /\ StoredColumns("line") = {}
<1>1. \A m, n : n \in StoredColumns(m) <=> <<m, n>> \in Stored
  <2>1. \A c \in Stored : c = <<c[1], c[2]>>
    BY TheStored
  <2>2. QED BY <2>1 DEF StoredColumns
<1>2. QED BY <1>1, TheStored

LEMMA TheCascades ==
    CascadingKeys = {<<"category", "account">>, <<"position", "budget">>,
                     <<"position", "category">>, <<"line", "position">>, <<"line", "budget">>}
BY TheKeys, AccountAssumption DEF CascadingKeys, AccountOnDelete, AccountForward

LEMMA TheModels == Models = AccountModels
BY TheKeys, TheRelatedNames DEF Models, AccountModels

\* Foreign keys are columns, and no stored field is one of them.
LEMMA KeysAreColumns ==
    ASSUME NEW m \in AccountModels
    PROVE  /\ \A n : <<m, n>> \in DOMAIN Forward => n \in Columns[m] /\ n \notin StoredColumns(m)
           /\ "live" \notin Columns[m] /\ "live" \notin StoredColumns(m)
           /\ Columns[m] \cap StoredColumns(m) = {}
BY TheKeys, TheColumns, TheStoredColumns DEF AccountModels

--------------------------------------------------------------------------------
(***************************************************************************)
(* Paths of at most two relations, and the bindings along them.            *)
(***************************************************************************)
LEMMA WalkNowhere == ASSUME NEW m PROVE Walk(m, <<>>) = m
<1> DEFINE body(f) == [i \in 0..0 |-> IF i = 0 THEN m ELSE Target(f[i - 1], <<>>[i])]
           g == [i \in 0..0 |-> m]
           at == CHOOSE f : f = body(f)
<1>1. g = body(g)
  OBVIOUS
<1>2. at = body(at)
  BY <1>1
<1>3. at[0] = m
  <2> HIDE DEF at
  <2> QED BY <1>2
<1>4. Walk(m, <<>>) = at[0]
  BY DEF Walk
<1>5. QED BY <1>3, <1>4

LEMMA WalkOnce == ASSUME NEW m, NEW a PROVE Walk(m, <<a>>) = Target(m, a)
<1> DEFINE body(f) == [i \in 0..1 |-> IF i = 0 THEN m ELSE Target(f[i - 1], <<a>>[i])]
           g == [i \in 0..1 |-> IF i = 0 THEN m ELSE Target(m, a)]
           at == CHOOSE f : f = body(f)
<1>1. g = body(g)
  OBVIOUS
<1>2. at = body(at)
  BY <1>1
<1>3. at[1] = Target(m, a)
  <2> HIDE DEF at
  <2>1. at[0] = m
    BY <1>2
  <2>2. at[1] = Target(at[0], a)
    BY <1>2
  <2> QED BY <2>1, <2>2
<1>4. Walk(m, <<a>>) = at[1]
  BY DEF Walk
<1>5. QED BY <1>3, <1>4

LEMMA WalkTwice ==
    ASSUME NEW m, NEW a, NEW b
    PROVE  Walk(m, <<a, b>>) = Target(Target(m, a), b)
<1> DEFINE body(f) == [i \in 0..2 |-> IF i = 0 THEN m ELSE Target(f[i - 1], <<a, b>>[i])]
           A == Target(m, a)
           B == Target(A, b)
           g == [i \in 0..2 |-> IF i = 0 THEN m ELSE IF i = 1 THEN A ELSE B]
           at == CHOOSE f : f = body(f)
<1>1. g = body(g)
  <2>1. ASSUME NEW i \in 0..2
        PROVE  g[i] = IF i = 0 THEN m ELSE Target(g[i - 1], <<a, b>>[i])
    <3>1. CASE i = 0
      BY <3>1
    <3>2. CASE i = 1
      BY <3>2
    <3>3. CASE i = 2
      BY <3>3
    <3>4. QED BY <3>1, <3>2, <3>3
  <2>2. QED BY <2>1
<1>2. at = body(at)
  BY <1>1
<1>3. at[2] = B
  <2> HIDE DEF at
  <2>1. at[0] = m
    BY <1>2
  <2>2. at[1] = Target(at[0], a)
    BY <1>2
  <2>3. at[2] = Target(at[1], b)
    BY <1>2
  <2> QED BY <2>1, <2>2, <2>3
<1>4. Walk(m, <<a, b>>) = at[2]
  BY DEF Walk
<1>5. QED BY <1>3, <1>4

LEMMA ReachedNowhere == ASSUME NEW V, NEW r PROVE Reached(V, r, <<>>) = {r}
<1> DEFINE body(f) == [i \in 0..0 |->
                IF i = 0 THEN {r} ELSE UNION {Follow(V, x, <<>>[i]) : x \in f[i - 1]}]
           g == [i \in 0..0 |-> {r}]
           at == CHOOSE f : f = body(f)
<1>1. g = body(g)
  OBVIOUS
<1>2. at = body(at)
  BY <1>1
<1>3. at[0] = {r}
  <2> HIDE DEF at
  <2> QED BY <1>2
<1>4. Reached(V, r, <<>>) = at[0]
  BY DEF Reached
<1>5. QED BY <1>3, <1>4

LEMMA ReachedOnce == ASSUME NEW V, NEW r, NEW a PROVE Reached(V, r, <<a>>) = Follow(V, r, a)
<1> DEFINE body(f) == [i \in 0..1 |->
                IF i = 0 THEN {r} ELSE UNION {Follow(V, x, <<a>>[i]) : x \in f[i - 1]}]
           g == [i \in 0..1 |-> IF i = 0 THEN {r} ELSE UNION {Follow(V, x, a) : x \in {r}}]
           at == CHOOSE f : f = body(f)
<1>1. g = body(g)
  OBVIOUS
<1>2. at = body(at)
  BY <1>1
<1>3. at[1] = UNION {Follow(V, x, a) : x \in {r}}
  <2> HIDE DEF at
  <2>1. at[0] = {r}
    BY <1>2
  <2>2. at[1] = UNION {Follow(V, x, a) : x \in at[0]}
    BY <1>2
  <2> QED BY <2>1, <2>2
<1>4. Reached(V, r, <<a>>) = at[1]
  BY DEF Reached
<1>5. QED BY <1>3, <1>4

LEMMA ReachedTwice ==
    ASSUME NEW V, NEW r, NEW a, NEW b
    PROVE  Reached(V, r, <<a, b>>) = UNION {Follow(V, x, b) : x \in Follow(V, r, a)}
<1> DEFINE body(f) == [i \in 0..2 |->
                IF i = 0 THEN {r} ELSE UNION {Follow(V, x, <<a, b>>[i]) : x \in f[i - 1]}]
           A == UNION {Follow(V, x, a) : x \in {r}}
           B == UNION {Follow(V, x, b) : x \in A}
           g == [i \in 0..2 |-> IF i = 0 THEN {r} ELSE IF i = 1 THEN A ELSE B]
           at == CHOOSE f : f = body(f)
<1>1. g = body(g)
  <2>1. ASSUME NEW i \in 0..2
        PROVE  g[i] = IF i = 0 THEN {r} ELSE UNION {Follow(V, x, <<a, b>>[i]) : x \in g[i - 1]}
    <3>1. CASE i = 0
      BY <3>1
    <3>2. CASE i = 1
      BY <3>2
    <3>3. CASE i = 2
      BY <3>3
    <3>4. QED BY <3>1, <3>2, <3>3
  <2>2. QED BY <2>1
<1>2. at = body(at)
  BY <1>1
<1>3. at[2] = B
  <2> HIDE DEF at
  <2>1. at[0] = {r}
    BY <1>2
  <2>2. at[1] = UNION {Follow(V, x, a) : x \in at[0]}
    BY <1>2
  <2>3. at[2] = UNION {Follow(V, x, b) : x \in at[1]}
    BY <1>2
  <2> QED BY <2>1, <2>2, <2>3
<1>4. Reached(V, r, <<a, b>>) = at[2]
  BY DEF Reached
<1>5. A = Follow(V, r, a)
  OBVIOUS
<1>6. QED BY <1>3, <1>4, <1>5

LEMMA NoPrefix == ASSUME NEW S, NEW s \in Seq(S) PROVE SubSeq(s, 1, 0) = <<>>
<1>1. SubSeq(s, 1, 0) \in Seq(S) /\ Len(SubSeq(s, 1, 0)) = 0
  OBVIOUS
<1>2. QED BY <1>1

LEMMA FirstOfTwo == ASSUME NEW a, NEW b PROVE SubSeq(<<a, b>>, 1, 1) = <<a>>
<1> DEFINE q == <<a, b>>
           s == SubSeq(q, 1, 1)
<1>1. q \in Seq({a, b}) /\ Len(q) = 2 /\ q[1] = a
  OBVIOUS
<1> HIDE DEF q
<1>2. s \in Seq({a, b}) /\ Len(s) = 1 /\ s[1] = a
  BY <1>1
<1> HIDE DEF s
<1>3. s = <<a>>
  BY <1>2
<1>4. QED BY <1>3 DEF s, q

\* The registry watches the root of a dependency, and each relation it crosses.
LEMMA RootBound ==
    ASSUME NEW c \in Stored, NEW d \in DependsOn[c], NEW S, d \in Seq(S)
    PROVE  Binding(c, <<>>) \in Bindings
<1>1. <<>> \in Prefixes(d)
  BY NoPrefix DEF Prefixes
<1>2. <<>> \in WatchedPaths(c)
  BY <1>1 DEF WatchedPaths
<1>3. QED BY <1>2 DEF Bindings

LEMMA RelationBound ==
    ASSUME NEW c \in Stored, NEW a, <<a>> \in DependsOn[c], IsRelation(c[1], a)
    PROVE  Binding(c, <<a>>) \in Bindings
<1> DEFINE q == <<a>>
<1>1. q = SubSeq(q, 1, 1) /\ 1 \in 0..Len(q)
  OBVIOUS
<1>2. q \in UNION {Prefixes(d) : d \in DependsOn[c]}
  BY <1>1 DEF Prefixes
<1>3. ASSUME NEW i \in DOMAIN q PROVE IsRelation(Walk(c[1], SubSeq(q, 1, i - 1)), q[i])
  <2>1. i = 1 /\ i - 1 = 0 /\ q[i] = a /\ q \in Seq({a})
    OBVIOUS
  <2>2. SubSeq(q, 1, i - 1) = <<>>
    BY <2>1, NoPrefix
  <2>3. QED BY <2>1, <2>2, WalkNowhere
<1>4. q \in WatchedPaths(c)
  BY <1>2, <1>3 DEF WatchedPaths
<1>5. QED BY <1>4 DEF Bindings

LEMMA RelationsBound ==
    ASSUME NEW c \in Stored, NEW a, NEW b, <<a, b>> \in DependsOn[c],
           IsRelation(c[1], a), IsRelation(Target(c[1], a), b)
    PROVE  Binding(c, <<a, b>>) \in Bindings
<1> DEFINE q == <<a, b>>
<1>1. q = SubSeq(q, 1, 2) /\ 2 \in 0..Len(q)
  OBVIOUS
<1>2. q \in UNION {Prefixes(d) : d \in DependsOn[c]}
  BY <1>1 DEF Prefixes
<1>3. ASSUME NEW i \in DOMAIN q PROVE IsRelation(Walk(c[1], SubSeq(q, 1, i - 1)), q[i])
  <2>1. CASE i = 1
    <3>1. i - 1 = 0 /\ q[i] = a /\ q \in Seq({a, b})
      BY <2>1
    <3>2. SubSeq(q, 1, i - 1) = <<>>
      BY <3>1, NoPrefix
    <3>3. QED BY <3>1, <3>2, WalkNowhere
  <2>2. CASE i = 2
    <3>1. i - 1 = 1 /\ q[i] = b
      BY <2>2
    <3>2. SubSeq(q, 1, 1) = <<a>>
      BY FirstOfTwo
    <3>3. QED BY <3>1, <3>2, WalkOnce
  <2>3. QED BY <2>1, <2>2
<1>4. q \in WatchedPaths(c)
  BY <1>2, <1>3 DEF WatchedPaths
<1>5. QED BY <1>4 DEF Bindings

\* What follows the path q in a dependency triggers its binding.
LEMMA NextTriggers ==
    ASSUME NEW c, NEW q, NEW d \in DependsOn[c], NEW n, IsStrictPrefix(q, d),
           n = d[Len(q) + 1], <<Walk(c[1], q), n>> \notin DOMAIN Related
    PROVE  n \in Binding(c, q).triggers
<1>1. n \in WrittenThere(c, q)
  BY DEF WrittenThere
<1>2. QED BY <1>1 DEF Binding

LEMMA AfterTheRoot ==
    ASSUME NEW S, NEW d \in Seq(S), d # <<>>
    PROVE  IsStrictPrefix(<<>>, d)
<1>1. SubSeq(<<>>, 1, 0) = <<>> /\ SubSeq(d, 1, 0) = <<>>
  <2>1. <<>> \in Seq(S)
    OBVIOUS
  <2>2. QED BY <2>1, NoPrefix
<1>2. QED BY <1>1 DEF IsStrictPrefix, IsPrefix

LEMMA AfterARelation == ASSUME NEW a, NEW b PROVE IsStrictPrefix(<<a>>, <<a, b>>)
BY DEF IsStrictPrefix, IsPrefix

LEMMA AfterTwoRelations ==
    ASSUME NEW a, NEW b, NEW c
    PROVE  IsStrictPrefix(<<a, b>>, <<a, b, c>>)
BY DEF IsStrictPrefix, IsPrefix

\* The field c is bound through q to the columns `names` of the model m.
Bound(c, q, m, names) ==
    /\ Binding(c, q) \in Bindings
    /\ Binding(c, q).field = c /\ Binding(c, q).path = q
    /\ Binding(c, q).watched = m
    /\ names \subseteq Binding(c, q).triggers
    /\ q # <<>> => Binding(c, q).existence

LEMMA WayOut ==
    ASSUME NEW m, NEW a, NEW k, <<m, a>> \in DOMAIN Related, Related[<<m, a>>] = k,
           <<m, a>> \notin DOMAIN Forward
    PROVE  IsRelation(m, a) /\ Target(m, a) = k[1]
<1>1. IsRelation(m, a)
  BY DEF IsRelation
<1>2. Target(m, a) = k[1]
  BY DEF Target
<1>3. QED BY <1>1, <1>2

LEMMA Pointer ==
    ASSUME NEW m, NEW a, <<m, a>> \in DOMAIN Forward
    PROVE  IsRelation(m, a) /\ Target(m, a) = a
BY TheKeys DEF IsRelation, Target

\* A field that sums a column n over the rows that point back through a.
LEMMA SumIsBound ==
    ASSUME NEW c \in Stored, NEW a, NEW n, NEW k \in DOMAIN Forward,
           DependsOn[c] = {<<a>>, <<a, n>>},
           <<c[1], a>> \in DOMAIN Related, Related[<<c[1], a>>] = k,
           <<c[1], a>> \notin DOMAIN Forward, <<k[1], n>> \notin DOMAIN Related
    PROVE  /\ Bound(c, <<a>>, k[1], {n, k[2]})
           /\ k[2] \in Binding(c, <<a>>).membership
<1> DEFINE q == <<a>>
<1>1. IsRelation(c[1], a) /\ Target(c[1], a) = k[1]
  BY WayOut
<1>a. Walk(c[1], q) = k[1]
  BY <1>1, WalkOnce
<1>2. Binding(c, q) \in Bindings
  BY <1>1, RelationBound
<1>3. n \in Binding(c, q).triggers
  <2>1. n = <<a, n>>[Len(q) + 1]
    OBVIOUS
  <2>2. QED BY <1>a, <2>1, AfterARelation, NextTriggers
<1>4. WayBack(c, q) = {k[2]}
  <2>1. Front(q) = <<>> /\ Last(q) = a /\ q # <<>>
    <3>1. q \in Seq({a}) /\ Len(q) - 1 = 0
      OBVIOUS
    <3>2. QED BY <3>1, NoPrefix DEF Front, Last
  <2>2. Walk(c[1], Front(q)) = c[1]
    BY <2>1, WalkNowhere
  <2>3. QED BY <2>1, <2>2 DEF WayBack
<1>5. QED BY <1>a, <1>2, <1>3, <1>4 DEF Bound, Binding

LEMMA TheSums ==
    /\ \A n \in {"total_debit", "total_credit"} :
         /\ Bound(<<"account", n>>, <<"movements">>, "movement", {"amount", "account"})
         /\ "account" \in Binding(<<"account", n>>, <<"movements">>).membership
    /\ Bound(<<"budget", "total_planned_amount">>, <<"positions">>, "position",
             {"total_planned", "budget"})
    /\ "budget" \in Binding(<<"budget", "total_planned_amount">>, <<"positions">>).membership
    /\ Bound(<<"budget", "total_practical_amount">>, <<"positions">>, "position",
             {"total_practical", "budget"})
    /\ "budget" \in Binding(<<"budget", "total_practical_amount">>, <<"positions">>).membership
    /\ Bound(<<"position", "total_planned">>, <<"lines">>, "line",
             {"planned_amount", "position"})
    /\ "position" \in Binding(<<"position", "total_planned">>, <<"lines">>).membership
<1>1. \A m \in AccountModels, n \in {"amount", "total_planned", "total_practical",
                                     "planned_amount"} : <<m, n>> \notin DOMAIN Related
  BY TheRelatedNames
<1>2. DOMAIN Related \cap DOMAIN Forward = {}
  BY SchemaAssumption
<1>3. /\ Bound(<<"account", "total_debit">>, <<"movements">>, "movement", {"amount", "account"})
      /\ "account" \in Binding(<<"account", "total_debit">>, <<"movements">>).membership
  <2> DEFINE c == <<"account", "total_debit">>
             k == <<"movement", "account">>
  <2>1. c \in Stored /\ DependsOn[c] = {<<"movements">>, <<"movements", "amount">>}
    BY TheStored, TheDependencies
  <2>2. k \in DOMAIN Forward /\ <<c[1], "movements">> \in DOMAIN Related
        /\ Related[<<c[1], "movements">>] = k
    BY TheKeys, TheRelatedNames
  <2>3. <<k[1], "amount">> \notin DOMAIN Related /\ <<c[1], "movements">> \notin DOMAIN Forward
    BY <1>1, <1>2, <2>2 DEF AccountModels
  <2> HIDE DEF c, k
  <2>4. Bound(c, <<"movements">>, k[1], {"amount", k[2]})
        /\ k[2] \in Binding(c, <<"movements">>).membership
    BY <2>1, <2>2, <2>3, SumIsBound
  <2>5. QED BY <2>4 DEF c, k
<1>4. /\ Bound(<<"account", "total_credit">>, <<"movements">>, "movement", {"amount", "account"})
      /\ "account" \in Binding(<<"account", "total_credit">>, <<"movements">>).membership
  <2> DEFINE c == <<"account", "total_credit">>
             k == <<"movement", "account">>
  <2>1. c \in Stored /\ DependsOn[c] = {<<"movements">>, <<"movements", "amount">>}
    BY TheStored, TheDependencies
  <2>2. k \in DOMAIN Forward /\ <<c[1], "movements">> \in DOMAIN Related
        /\ Related[<<c[1], "movements">>] = k
    BY TheKeys, TheRelatedNames
  <2>3. <<k[1], "amount">> \notin DOMAIN Related /\ <<c[1], "movements">> \notin DOMAIN Forward
    BY <1>1, <1>2, <2>2 DEF AccountModels
  <2> HIDE DEF c, k
  <2>4. Bound(c, <<"movements">>, k[1], {"amount", k[2]})
        /\ k[2] \in Binding(c, <<"movements">>).membership
    BY <2>1, <2>2, <2>3, SumIsBound
  <2>5. QED BY <2>4 DEF c, k
<1>5. /\ Bound(<<"budget", "total_planned_amount">>, <<"positions">>, "position",
               {"total_planned", "budget"})
      /\ "budget" \in Binding(<<"budget", "total_planned_amount">>, <<"positions">>).membership
  <2> DEFINE c == <<"budget", "total_planned_amount">>
             k == <<"position", "budget">>
  <2>1. c \in Stored /\ DependsOn[c] = {<<"positions">>, <<"positions", "total_planned">>}
    BY TheStored, TheDependencies
  <2>2. k \in DOMAIN Forward /\ <<c[1], "positions">> \in DOMAIN Related
        /\ Related[<<c[1], "positions">>] = k
    BY TheKeys, TheRelatedNames
  <2>3. /\ <<k[1], "total_planned">> \notin DOMAIN Related
        /\ <<c[1], "positions">> \notin DOMAIN Forward
    BY <1>1, <1>2, <2>2 DEF AccountModels
  <2> HIDE DEF c, k
  <2>4. Bound(c, <<"positions">>, k[1], {"total_planned", k[2]})
        /\ k[2] \in Binding(c, <<"positions">>).membership
    BY <2>1, <2>2, <2>3, SumIsBound
  <2>5. QED BY <2>4 DEF c, k
<1>6. /\ Bound(<<"budget", "total_practical_amount">>, <<"positions">>, "position",
               {"total_practical", "budget"})
      /\ "budget" \in Binding(<<"budget", "total_practical_amount">>, <<"positions">>).membership
  <2> DEFINE c == <<"budget", "total_practical_amount">>
             k == <<"position", "budget">>
  <2>1. c \in Stored /\ DependsOn[c] = {<<"positions">>, <<"positions", "total_practical">>}
    BY TheStored, TheDependencies
  <2>2. k \in DOMAIN Forward /\ <<c[1], "positions">> \in DOMAIN Related
        /\ Related[<<c[1], "positions">>] = k
    BY TheKeys, TheRelatedNames
  <2>3. /\ <<k[1], "total_practical">> \notin DOMAIN Related
        /\ <<c[1], "positions">> \notin DOMAIN Forward
    BY <1>1, <1>2, <2>2 DEF AccountModels
  <2> HIDE DEF c, k
  <2>4. Bound(c, <<"positions">>, k[1], {"total_practical", k[2]})
        /\ k[2] \in Binding(c, <<"positions">>).membership
    BY <2>1, <2>2, <2>3, SumIsBound
  <2>5. QED BY <2>4 DEF c, k
<1>7. /\ Bound(<<"position", "total_planned">>, <<"lines">>, "line",
               {"planned_amount", "position"})
      /\ "position" \in Binding(<<"position", "total_planned">>, <<"lines">>).membership
  <2> DEFINE c == <<"position", "total_planned">>
             k == <<"line", "position">>
  <2>1. c \in Stored /\ DependsOn[c] = {<<"lines">>, <<"lines", "planned_amount">>}
    BY TheStored, TheDependencies
  <2>2. k \in DOMAIN Forward /\ <<c[1], "lines">> \in DOMAIN Related
        /\ Related[<<c[1], "lines">>] = k
    BY TheKeys, TheRelatedNames
  <2>3. <<k[1], "planned_amount">> \notin DOMAIN Related /\ <<c[1], "lines">> \notin DOMAIN Forward
    BY <1>1, <1>2, <2>2 DEF AccountModels
  <2> HIDE DEF c, k
  <2>4. Bound(c, <<"lines">>, k[1], {"planned_amount", k[2]})
        /\ k[2] \in Binding(c, <<"lines">>).membership
    BY <2>1, <2>2, <2>3, SumIsBound
  <2>5. QED BY <2>4 DEF c, k
<1>8. QED BY <1>3, <1>4, <1>5, <1>6, <1>7

\* The category of a position, for its name and its practical total.
LEMMA CategoryIsBound ==
    ASSUME NEW c \in Stored, c[1] = "position", <<"category">> \in DependsOn[c]
    PROVE  Bound(c, <<>>, "position", {"category"})
<1> DEFINE d == <<"category">>
<1>1. d \in Seq({"category"}) /\ d # <<>> /\ d[0 + 1] = "category" /\ Len(<<>>) = 0
  OBVIOUS
<1>2. Walk(c[1], <<>>) = "position"
  BY WalkNowhere
<1>3. Binding(c, <<>>) \in Bindings
  BY <1>1, RootBound
<1>4. <<Walk(c[1], <<>>), "category">> \notin DOMAIN Related
  BY <1>2, TheRelatedNames
<1>5. "category" \in Binding(c, <<>>).triggers
  BY <1>1, <1>4, AfterTheRoot, NextTriggers
<1>6. QED BY <1>2, <1>3, <1>5 DEF Bound, Binding

LEMMA TheNameIsBound ==
    Bound(<<"position", "name">>, <<"category">>, "category", {"name"})
<1> DEFINE c == <<"position", "name">>
           q == <<"category">>
<1>1. c \in Stored /\ q \in DependsOn[c] /\ <<"category", "name">> \in DependsOn[c]
  BY TheStored, TheDependencies
<1>2. <<c[1], "category">> \in DOMAIN Forward
  BY TheKeys
<1>3. IsRelation(c[1], "category") /\ Target(c[1], "category") = "category"
  BY <1>2, Pointer
<1>4. Walk(c[1], q) = "category"
  BY <1>3, WalkOnce
<1>5. Binding(c, q) \in Bindings
  BY <1>1, <1>3, RelationBound
<1>6. <<Walk(c[1], q), "name">> \notin DOMAIN Related
  BY <1>4, TheRelatedNames
<1>7. "name" \in Binding(c, q).triggers
  <2>1. "name" = <<"category", "name">>[Len(q) + 1]
    OBVIOUS
  <2>2. IsStrictPrefix(q, <<"category", "name">>)
    BY AfterARelation
  <2>3. QED BY <1>1, <1>6, <2>1, <2>2, NextTriggers
<1>8. q # <<>>
  OBVIOUS
<1>9. QED BY <1>4, <1>5, <1>7, <1>8 DEF Bound, Binding

LEMMA ThePracticalIsBound ==
    /\ Bound(Practical, <<"category", "movements">>, "movement",
             {"amount", "account", "category"})
    /\ "category" \in Binding(Practical, <<"category", "movements">>).membership
<1> DEFINE c == Practical
           q == <<"category", "movements">>
<1>1. c \in Stored /\ c[1] = "position" /\ q \in DependsOn[c]
      /\ <<"category", "movements", "amount">> \in DependsOn[c]
      /\ <<"category", "movements", "account">> \in DependsOn[c]
  BY TheStored, TheDependencies DEF Practical
<1>2. <<c[1], "category">> \in DOMAIN Forward /\ <<"category", "movements">> \in DOMAIN Related
      /\ Related[<<"category", "movements">>] = <<"movement", "category">>
      /\ <<"category", "movements">> \notin DOMAIN Forward
  BY <1>1, TheKeys, TheRelatedNames
<1>3. IsRelation(c[1], "category") /\ Target(c[1], "category") = "category"
  BY <1>2, Pointer
<1>4. IsRelation("category", "movements") /\ Target("category", "movements") = "movement"
  <2>1. Target("category", "movements") = <<"movement", "category">>[1]
    BY <1>2, WayOut
  <2>2. QED BY <1>2, <2>1, WayOut
<1>5. Binding(c, q) \in Bindings
  BY <1>1, <1>3, <1>4, RelationsBound
<1>6. Front(q) = <<"category">> /\ Last(q) = "movements" /\ q # <<>>
  <2>1. Len(q) - 1 = 1 /\ q[Len(q)] = "movements"
    OBVIOUS
  <2>2. SubSeq(q, 1, 1) = <<"category">>
    BY FirstOfTwo
  <2>3. QED BY <2>1, <2>2 DEF Front, Last
<1>7. Walk(c[1], <<"category">>) = "category"
  BY <1>3, WalkOnce
<1>8. Walk(c[1], q) = "movement"
  BY <1>3, <1>4, WalkTwice
<1>9. WayBack(c, q) = {"category"}
  BY <1>2, <1>6, <1>7 DEF WayBack
<1>10. \A n \in {"amount", "account"} : <<Walk(c[1], q), n>> \notin DOMAIN Related
  BY <1>8, TheRelatedNames
<1>11. \A n \in {"amount", "account"} : n \in Binding(c, q).triggers
  <2> SUFFICES ASSUME NEW n \in {"amount", "account"} PROVE n \in Binding(c, q).triggers
    OBVIOUS
  <2>1. n = <<"category", "movements", n>>[Len(q) + 1]
    <3>1. Len(q) + 1 = 3
      OBVIOUS
    <3>2. QED BY <3>1
  <2>2. IsStrictPrefix(q, <<"category", "movements", n>>)
    BY AfterTwoRelations
  <2>3. <<"category", "movements", n>> \in DependsOn[c]
    BY <1>1
  <2>4. QED BY <1>10, <2>1, <2>2, <2>3, NextTriggers
<1>12. QED BY <1>5, <1>6, <1>8, <1>9, <1>11 DEF Bound, Binding

--------------------------------------------------------------------------------
(***************************************************************************)
(* What the method of a stored field reads: columns `Inputs` of the rows   *)
(* of one model, Source, that it finds through the column Key.             *)
(***************************************************************************)
Source(c) ==
    CASE c[1] = "account"    -> "movement"
      [] c[1] = "budget"     -> "position"
      [] c = PositionName    -> "category"
      [] c = Planned         -> "line"
      [] c = Practical       -> "movement"

Path(c) ==
    CASE c[1] = "account"    -> <<"movements">>
      [] c[1] = "budget"     -> <<"positions">>
      [] c = PositionName    -> <<"category">>
      [] c = Planned         -> <<"lines">>
      [] c = Practical       -> <<"category", "movements">>

Key(c) ==
    CASE c[1] = "account"    -> "account"
      [] c[1] = "budget"     -> "budget"
      [] c = Planned         -> "position"
      [] c = Practical       -> "category"

Keys(c) == IF c = PositionName THEN {} ELSE {Key(c)}

Inputs(c) ==
    CASE c[1] = "account"    -> {"amount"}
      [] c = PlannedAmount   -> {"total_planned"}
      [] c = PracticalAmount -> {"total_practical"}
      [] c = PositionName    -> {"name"}
      [] c = Planned         -> {"planned_amount"}
      [] c = Practical       -> {"amount", "account"}

\* The rows that the field c of the row r is computed from.
Uses(V, c, r, x) ==
    IF c = PositionName THEN x = V[r].category
    ELSE x \in Live(V, Source(c)) /\ V[x][Key(c)] = IF c = Practical THEN V[r].category ELSE r

Field(c, path, source, keys, inputs) ==
    /\ Path(c) = path /\ Source(c) = source /\ Keys(c) = keys /\ Inputs(c) = inputs
    /\ keys # {} => keys = {Key(c)}

LEMMA TheFields ==
    /\ Field(TotalDebit, <<"movements">>, "movement", {"account"}, {"amount"})
    /\ Field(TotalCredit, <<"movements">>, "movement", {"account"}, {"amount"})
    /\ Field(PlannedAmount, <<"positions">>, "position", {"budget"}, {"total_planned"})
    /\ Field(PracticalAmount, <<"positions">>, "position", {"budget"}, {"total_practical"})
    /\ Field(PositionName, <<"category">>, "category", {}, {"name"})
    /\ Field(Planned, <<"lines">>, "line", {"position"}, {"planned_amount"})
    /\ Field(Practical, <<"category", "movements">>, "movement", {"category"},
             {"amount", "account"})
<1> USE DEF Path, Source, Keys, Key, Inputs, Field
<1> USE DEF TotalDebit, TotalCredit, PlannedAmount, PracticalAmount, PositionName, Planned,
            Practical
<1>1. Field(TotalDebit, <<"movements">>, "movement", {"account"}, {"amount"})
  OBVIOUS
<1>2. Field(TotalCredit, <<"movements">>, "movement", {"account"}, {"amount"})
  OBVIOUS
<1>3. Field(PlannedAmount, <<"positions">>, "position", {"budget"}, {"total_planned"})
  OBVIOUS
<1>4. Field(PracticalAmount, <<"positions">>, "position", {"budget"}, {"total_practical"})
  OBVIOUS
<1>5. Field(PositionName, <<"category">>, "category", {}, {"name"})
  OBVIOUS
<1>6. Field(Planned, <<"lines">>, "line", {"position"}, {"planned_amount"})
  OBVIOUS
<1>7. Field(Practical, <<"category", "movements">>, "movement", {"category"},
            {"amount", "account"})
  OBVIOUS
<1>8. QED BY <1>1, <1>2, <1>3, <1>4, <1>5, <1>6, <1>7

LEMMA SevenFields ==
    ASSUME NEW c \in Stored
    PROVE  c \in {TotalDebit, TotalCredit, PlannedAmount, PracticalAmount, PositionName,
                  Planned, Practical}
BY TheStored DEF TotalDebit, TotalCredit, PlannedAmount, PracticalAmount, PositionName,
                 Planned, Practical

\* The registry watches what the methods read.
LEMMA InputsAreBound ==
    ASSUME NEW c \in Stored
    PROVE  /\ Bound(c, Path(c), Source(c), Inputs(c) \cup Keys(c))
           /\ Keys(c) \subseteq Binding(c, Path(c)).membership
           /\ Path(c) # <<>>
<1>1. CASE c = TotalDebit \/ c = TotalCredit
  <2>1. Field(c, <<"movements">>, "movement", {"account"}, {"amount"})
    BY <1>1, TheFields
  <2>2. \E n \in {"total_debit", "total_credit"} : c = <<"account", n>>
    BY <1>1 DEF TotalDebit, TotalCredit
  <2>3. Inputs(c) \cup Keys(c) = {"amount", "account"}
    BY <2>1 DEF Field
  <2>4. Bound(c, <<"movements">>, "movement", {"amount", "account"})
        /\ "account" \in Binding(c, <<"movements">>).membership
    BY <2>2, TheSums
  <2>5. QED BY <2>1, <2>3, <2>4 DEF Field
<1>2. CASE c = PlannedAmount
  <2>1. Field(c, <<"positions">>, "position", {"budget"}, {"total_planned"})
    BY <1>2, TheFields
  <2>2. Inputs(c) \cup Keys(c) = {"total_planned", "budget"}
    BY <2>1 DEF Field
  <2>3. Bound(c, <<"positions">>, "position", {"total_planned", "budget"})
        /\ "budget" \in Binding(c, <<"positions">>).membership
    BY <1>2, TheSums DEF PlannedAmount
  <2>4. QED BY <2>1, <2>2, <2>3 DEF Field
<1>3. CASE c = PracticalAmount
  <2>1. Field(c, <<"positions">>, "position", {"budget"}, {"total_practical"})
    BY <1>3, TheFields
  <2>2. Inputs(c) \cup Keys(c) = {"total_practical", "budget"}
    BY <2>1 DEF Field
  <2>3. Bound(c, <<"positions">>, "position", {"total_practical", "budget"})
        /\ "budget" \in Binding(c, <<"positions">>).membership
    BY <1>3, TheSums DEF PracticalAmount
  <2>4. QED BY <2>1, <2>2, <2>3 DEF Field
<1>4. CASE c = PositionName
  <2>1. Field(c, <<"category">>, "category", {}, {"name"})
    BY <1>4, TheFields
  <2>2. Inputs(c) \cup Keys(c) = {"name"}
    BY <2>1 DEF Field
  <2>3. Bound(c, <<"category">>, "category", {"name"})
    BY <1>4, TheNameIsBound DEF PositionName
  <2>4. QED BY <2>1, <2>2, <2>3 DEF Field
<1>5. CASE c = Planned
  <2>1. Field(c, <<"lines">>, "line", {"position"}, {"planned_amount"})
    BY <1>5, TheFields
  <2>2. Inputs(c) \cup Keys(c) = {"planned_amount", "position"}
    BY <2>1 DEF Field
  <2>3. Bound(c, <<"lines">>, "line", {"planned_amount", "position"})
        /\ "position" \in Binding(c, <<"lines">>).membership
    BY <1>5, TheSums DEF Planned
  <2>4. QED BY <2>1, <2>2, <2>3 DEF Field
<1>6. CASE c = Practical
  <2>1. Field(c, <<"category", "movements">>, "movement", {"category"}, {"amount", "account"})
    BY <1>6, TheFields
  <2>2. Inputs(c) \cup Keys(c) = {"amount", "account", "category"}
    BY <2>1 DEF Field
  <2>3. Bound(c, <<"category", "movements">>, "movement", {"amount", "account", "category"})
        /\ "category" \in Binding(c, <<"category", "movements">>).membership
    BY <1>6, ThePracticalIsBound
  <2>4. QED BY <2>1, <2>2, <2>3 DEF Field
<1>7. QED BY <1>1, <1>2, <1>3, <1>4, <1>5, <1>6, SevenFields

--------------------------------------------------------------------------------
(***************************************************************************)
(* What a method reads is reached along the path of its binding, so the    *)
(* declarations queue the field when it is written.                        *)
(***************************************************************************)

\* Every position has a category and a budget.
Anchored(V) ==
    \A r \in Live(V, "position") :
        V[r].category \in Live(V, "category") /\ V[r].budget \in Live(V, "budget")

LEMMA FollowBack ==
    ASSUME NEW V, NEW r, NEW n, NEW k, NEW x \in Live(V, k[1]), V[x][k[2]] = r,
           <<Model[r], n>> \in DOMAIN Related, Related[<<Model[r], n>>] = k
    PROVE  x \in Follow(V, r, n)
<1>1. <<Model[r], n>> \notin DOMAIN Forward
  BY SchemaAssumption
<1>2. x \in PointingTo(V, k, r)
  BY DEF PointingTo
<1>3. QED BY <1>1, <1>2 DEF Follow

LEMMA FollowForward ==
    ASSUME NEW V, NEW r, NEW n, V[r][n] \in Live(V, n), <<Model[r], n>> \in DOMAIN Forward
    PROVE  V[r][n] \in Follow(V, r, n)
BY TheKeys DEF Follow

LEMMA UsedIsReached ==
    ASSUME NEW V, Anchored(V), NEW c \in Stored, NEW r \in Live(V, c[1]), NEW x,
           Uses(V, c, r, x)
    PROVE  x \in Live(V, Source(c)) /\ x \in Reached(V, r, Path(c))
<1>1. Model[r] = c[1]
  BY DEF Live
<1>2. ASSUME c # PositionName, c # Practical, NEW a, NEW k, NEW i,
             Field(c, <<a>>, k[1], {k[2]}, i), <<c[1], a>> \in DOMAIN Related,
             Related[<<c[1], a>>] = k
      PROVE  x \in Live(V, Source(c)) /\ x \in Reached(V, r, Path(c))
  <2>1. Path(c) = <<a>> /\ Source(c) = k[1] /\ Key(c) = k[2]
    BY <1>2 DEF Field
  <2>2. x \in Live(V, k[1]) /\ V[x][k[2]] = r
    BY <1>2, <2>1 DEF Uses
  <2>3. QED BY <1>1, <1>2, <2>1, <2>2, FollowBack, ReachedOnce
<1>3. CASE c = TotalDebit \/ c = TotalCredit
  <2> DEFINE k == <<"movement", "account">>
  <2>1. Field(c, <<"movements">>, k[1], {k[2]}, {"amount"})
    BY <1>3, TheFields
  <2>2. <<c[1], "movements">> \in DOMAIN Related /\ Related[<<c[1], "movements">>] = k
    BY <1>3, TheRelatedNames DEF TotalDebit, TotalCredit
  <2>3. c # PositionName /\ c # Practical
    BY <1>3 DEF TotalDebit, TotalCredit, PositionName, Practical
  <2> HIDE DEF k
  <2>4. QED BY <1>2, <2>1, <2>2, <2>3
<1>4. CASE c = PlannedAmount \/ c = PracticalAmount
  <2> DEFINE k == <<"position", "budget">>
  <2>1. \E i : Field(c, <<"positions">>, k[1], {k[2]}, i)
    BY <1>4, TheFields
  <2>2. <<c[1], "positions">> \in DOMAIN Related /\ Related[<<c[1], "positions">>] = k
    BY <1>4, TheRelatedNames DEF PlannedAmount, PracticalAmount
  <2>3. c # PositionName /\ c # Practical
    BY <1>4 DEF PlannedAmount, PracticalAmount, PositionName, Practical
  <2> HIDE DEF k
  <2>4. QED BY <1>2, <2>1, <2>2, <2>3
<1>5. CASE c = Planned
  <2> DEFINE k == <<"line", "position">>
  <2>1. Field(c, <<"lines">>, k[1], {k[2]}, {"planned_amount"})
    BY <1>5, TheFields
  <2>2. <<c[1], "lines">> \in DOMAIN Related /\ Related[<<c[1], "lines">>] = k
    BY <1>5, TheRelatedNames DEF Planned
  <2>3. c # PositionName /\ c # Practical
    BY <1>5 DEF Planned, PositionName, Practical
  <2> HIDE DEF k
  <2>4. QED BY <1>2, <2>1, <2>2, <2>3
<1>6. ASSUME c[1] = "position"
      PROVE  V[r].category \in Live(V, "category")
             /\ V[r].category \in Follow(V, r, "category")
  <2>1. V[r]["category"] \in Live(V, "category")
    BY <1>6 DEF Anchored
  <2>2. <<Model[r], "category">> \in DOMAIN Forward
    BY <1>1, <1>6, TheKeys
  <2>3. QED BY <2>1, <2>2, FollowForward
<1>7. CASE c = PositionName
  <2>1. Path(c) = <<"category">> /\ Source(c) = "category"
    BY <1>7, TheFields DEF Field
  <2>2. x = V[r].category /\ c[1] = "position"
    BY <1>7 DEF Uses, PositionName
  <2>3. QED BY <1>6, <2>1, <2>2, ReachedOnce
<1>8. CASE c = Practical
  <2> DEFINE k == <<"movement", "category">>
             y == V[r].category
  <2>1. Path(c) = <<"category", "movements">> /\ Source(c) = "movement" /\ Key(c) = "category"
    BY <1>8, TheFields DEF Field
  <2>2. c[1] = "position" /\ c # PositionName
    BY <1>8 DEF Practical, PositionName
  <2>3. x \in Live(V, k[1]) /\ V[x][k[2]] = y
    BY <1>8, <2>1, <2>2 DEF Uses
  <2>4. Model[y] = "category"
    BY <1>6, <2>2 DEF Live
  <2>5. <<Model[y], "movements">> \in DOMAIN Related /\ Related[<<Model[y], "movements">>] = k
    BY <2>4, TheRelatedNames
  <2> HIDE DEF k, y
  <2>6. x \in Follow(V, y, "movements")
    BY <2>3, <2>5, FollowBack
  <2>7. x \in UNION {Follow(V, z, "movements") : z \in Follow(V, r, "category")}
    BY <1>6, <2>2, <2>6 DEF y
  <2>8. QED BY <2>1, <2>3, <2>7, ReachedTwice DEF k
<1>9. QED BY <1>3, <1>4, <1>5, <1>7, <1>8, SevenFields

\* A field is queued when rows it uses appear or disappear,
LEMMA QueuedByExistence ==
    ASSUME NEW V, Anchored(V), NEW c \in Stored, NEW r \in Live(V, c[1]), NEW pks, NEW x \in pks,
           Uses(V, c, r, x)
    PROVE  <<c, r>> \in ExistenceChanged(V, Source(c), pks)
<1> DEFINE b == Binding(c, Path(c))
<1>1. b \in Bindings /\ b.field = c /\ b.path = Path(c) /\ b.watched = Source(c) /\ b.existence
  BY InputsAreBound DEF Bound
<1> HIDE DEF b
<1>2. r \in Roots(V, b, pks)
  BY <1>1, UsedIsReached DEF Roots
<1>3. QED BY <1>1, <1>2 DEF ExistenceChanged, Resolve

\* when what it reads of them is written,
LEMMA QueuedByWrite ==
    ASSUME NEW V, Anchored(V), NEW c \in Stored, NEW r \in Live(V, c[1]), NEW pks, NEW x \in pks,
           Uses(V, c, r, x), NEW names, NEW n \in names, n \in Inputs(c) \cup Keys(c)
    PROVE  <<c, r>> \in Modified(V, Source(c), pks, names, FALSE)
<1> DEFINE b == Binding(c, Path(c))
<1>1. b \in Bindings /\ b.field = c /\ b.path = Path(c) /\ b.watched = Source(c)
      /\ n \in b.triggers
  BY InputsAreBound DEF Bound
<1> HIDE DEF b
<1>2. r \in Roots(V, b, pks)
  BY <1>1, UsedIsReached DEF Roots
<1>3. b.triggers \cap names # {}
  BY <1>1
<1>4. QED BY <1>1, <1>2, <1>3 DEF Modified, Resolve

\* and when they are about to leave it.
LEMMA QueuedByMove ==
    ASSUME NEW V, Anchored(V), NEW c \in Stored, NEW r \in Live(V, c[1]), NEW pks, NEW x \in pks,
           Uses(V, c, r, x), NEW names, NEW n \in names, n \in Keys(c)
    PROVE  /\ HasRelationToModify(Source(c), names)
           /\ <<c, r>> \in Modified(V, Source(c), pks, names, TRUE)
<1> DEFINE b == Binding(c, Path(c))
<1>1. b \in Bindings /\ b.field = c /\ b.path = Path(c) /\ b.watched = Source(c)
      /\ n \in b.triggers /\ n \in b.membership
  BY InputsAreBound DEF Bound
<1> HIDE DEF b
<1>2. r \in Roots(V, b, pks)
  BY <1>1, UsedIsReached DEF Roots
<1>3. b.triggers \cap names # {} /\ b.membership \cap names # {}
  BY <1>1
<1>4. QED BY <1>1, <1>2, <1>3 DEF Modified, Resolve, HasRelationToModify

\* The row itself, when it changes category.
LEMMA QueuedByCategory ==
    ASSUME NEW V, NEW c \in {PositionName, Practical}, NEW r \in Live(V, "position"),
           NEW pks, r \in pks, NEW names, "category" \in names
    PROVE  <<c, r>> \in Modified(V, "position", pks, names, FALSE)
<1> DEFINE b == Binding(c, <<>>)
<1>1. c \in Stored /\ c[1] = "position" /\ <<"category">> \in DependsOn[c]
  BY TheStored, TheDependencies DEF PositionName, Practical
<1>2. b \in Bindings /\ b.field = c /\ b.path = <<>> /\ b.watched = "position"
      /\ "category" \in b.triggers
  BY <1>1, CategoryIsBound DEF Bound
<1> HIDE DEF b
<1>3. r \in Roots(V, b, pks)
  BY <1>1, <1>2, ReachedNowhere DEF Roots
<1>4. b.triggers \cap names # {}
  BY <1>2
<1>5. QED BY <1>2, <1>3, <1>4 DEF Modified, Resolve

--------------------------------------------------------------------------------
(***************************************************************************)
(* A method gives the same on two views that agree on what it reads.       *)
(***************************************************************************)
Agree(V, W, c, r) ==
    /\ c \in {PositionName, Practical} => V[r].category = W[r].category
    /\ c = Practical => /\ V[r].budget = W[r].budget
                        /\ V[V[r].budget].account = W[V[r].budget].account
    /\ \A x \in Rows : Uses(V, c, r, x) <=> Uses(W, c, r, x)
    /\ \A x \in Rows : Uses(V, c, r, x) =>
         V[x].live = W[x].live /\ \A n \in Inputs(c) : V[x][n] = W[x][n]

LEMMA SameSum ==
    ASSUME NEW V, NEW W, NEW S, NEW n, \A x \in S : V[x][n] = W[x][n]
    PROVE  SumOf(V, S, n) = SumOf(W, S, n)
<1>1. {x \in S : V[x][n] # Null} = {x \in S : W[x][n] # Null}
  OBVIOUS
<1>2. [x \in {y \in S : V[y][n] # Null} |-> V[x][n]]
        = [x \in {y \in S : W[y][n] # Null} |-> W[x][n]]
  BY <1>1
<1>3. QED BY <1>2 DEF SumOf

LEMMA AgreedIsSame ==
    ASSUME NEW V, NEW W, NEW c \in Stored, NEW r \in Rows, Agree(V, W, c, r),
           c = PositionName => V[r].category \in Rows
    PROVE  Fresh(V, c, r) = Fresh(W, c, r)
<1> DEFINE M(U) == Live(U, "movement")
<1>1. ASSUME NEW U PROVE M(U) \subseteq Rows
  BY DEF Live
<1>2. CASE c = TotalDebit \/ c = TotalCredit
  <2>1. Source(c) = "movement" /\ Key(c) = "account" /\ Inputs(c) = {"amount"}
    BY <1>2, TheFields DEF Field
  <2>2. c # PositionName /\ c # Practical
    BY <1>2 DEF TotalDebit, TotalCredit, PositionName, Practical
  <2>3. ASSUME NEW U, NEW x PROVE Uses(U, c, r, x) <=> x \in M(U) /\ U[x].account = r
    BY <2>1, <2>2 DEF Uses
  <2>4. ASSUME NEW x \in Rows
        PROVE  /\ (x \in M(V) /\ V[x].account = r) <=> (x \in M(W) /\ W[x].account = r)
               /\ x \in M(V) /\ V[x].account = r => V[x].amount = W[x].amount
    <3>1. Uses(V, c, r, x) <=> Uses(W, c, r, x)
      BY DEF Agree
    <3>2. Uses(V, c, r, x) => V[x]["amount"] = W[x]["amount"]
      BY <2>1 DEF Agree
    <3>3. QED BY <2>3, <3>1, <3>2
  <2> HIDE DEF M
  <2> DEFINE Below(U) == {x \in M(U) : U[x].account = r /\ U[x].amount < 0}
             Above(U) == {x \in M(U) : U[x].account = r /\ U[x].amount > 0}
  <2>5. ASSUME NEW U
        PROVE  /\ c = TotalDebit => Fresh(U, c, r) = SumOf(U, Below(U), "amount")
               /\ c = TotalCredit => Fresh(U, c, r) = SumOf(U, Above(U), "amount")
    BY DEF Fresh, TotalDebit, TotalCredit, M
  <2>6. ASSUME NEW x \in Rows
        PROVE  /\ x \in Below(V) <=> x \in Below(W)
               /\ x \in Above(V) <=> x \in Above(W)
               /\ x \in Below(V) \cup Above(V) => V[x]["amount"] = W[x]["amount"]
    <3>1. (x \in M(V) /\ V[x].account = r) <=> (x \in M(W) /\ W[x].account = r)
      BY <2>4
    <3>2. x \in M(V) /\ V[x].account = r => V[x].amount = W[x].amount
      BY <2>4
    <3>3. x \in Below(V) <=> x \in Below(W)
      BY <3>1, <3>2
    <3>4. x \in Above(V) <=> x \in Above(W)
      BY <3>1, <3>2
    <3>5. x \in Below(V) \cup Above(V) => V[x]["amount"] = W[x]["amount"]
      BY <3>2
    <3> HIDE DEF Below, Above
    <3>6. QED BY <3>3, <3>4, <3>5
  <2>a. Below(V) \cup Above(V) \cup Below(W) \cup Above(W) \subseteq Rows
    BY <1>1
  <2> HIDE DEF Below, Above
  <2>7. Below(V) = Below(W) /\ Above(V) = Above(W)
        /\ \A x \in Below(V) \cup Above(V) : V[x]["amount"] = W[x]["amount"]
    BY <2>6, <2>a
  <2>8. SumOf(V, Below(V), "amount") = SumOf(W, Below(W), "amount")
        /\ SumOf(V, Above(V), "amount") = SumOf(W, Above(W), "amount")
    BY <2>7, SameSum
  <2>9. QED BY <1>2, <2>5, <2>8
<1>3. ASSUME c \notin {PositionName, Practical}, NEW k, Source(c) = k[1], Key(c) = k[2],
             NEW n, Inputs(c) = {n}
      PROVE  SumOf(V, PointingTo(V, k, r), n) = SumOf(W, PointingTo(W, k, r), n)
  <2> DEFINE S(U) == PointingTo(U, k, r)
  <2>1. ASSUME NEW U, NEW x PROVE Uses(U, c, r, x) <=> x \in S(U)
    BY <1>3 DEF Uses, PointingTo
  <2>2. ASSUME NEW U PROVE S(U) \subseteq Rows
    BY DEF PointingTo, Live
  <2> HIDE DEF S
  <2>3. S(V) = S(W)
    BY <2>1, <2>2 DEF Agree
  <2>4. \A x \in S(V) : V[x][n] = W[x][n]
    BY <1>3, <2>1, <2>2 DEF Agree
  <2>5. SumOf(V, S(V), n) = SumOf(W, S(W), n)
    BY <2>3, <2>4, SameSum
  <2>6. QED BY <2>5 DEF S
<1>4. CASE c = PlannedAmount
  <2> DEFINE k == <<"position", "budget">>
  <2>1. Source(c) = k[1] /\ Key(c) = k[2] /\ Inputs(c) = {"total_planned"}
    BY <1>4, TheFields DEF Field
  <2>2. c \notin {PositionName, Practical}
    BY <1>4 DEF PlannedAmount, PositionName, Practical
  <2>3. ASSUME NEW U PROVE Fresh(U, c, r) = SumOf(U, PointingTo(U, k, r), "total_planned")
    BY <1>4 DEF Fresh, PlannedAmount
  <2> HIDE DEF k
  <2>4. QED BY <1>3, <2>1, <2>2, <2>3
<1>5. CASE c = PracticalAmount
  <2> DEFINE k == <<"position", "budget">>
  <2>1. Source(c) = k[1] /\ Key(c) = k[2] /\ Inputs(c) = {"total_practical"}
    BY <1>5, TheFields DEF Field
  <2>2. c \notin {PositionName, Practical}
    BY <1>5 DEF PracticalAmount, PositionName, Practical
  <2>3. ASSUME NEW U PROVE Fresh(U, c, r) = SumOf(U, PointingTo(U, k, r), "total_practical")
    BY <1>5 DEF Fresh, PracticalAmount
  <2> HIDE DEF k
  <2>4. QED BY <1>3, <2>1, <2>2, <2>3
<1>6. CASE c = Planned
  <2> DEFINE k == <<"line", "position">>
  <2>1. Source(c) = k[1] /\ Key(c) = k[2] /\ Inputs(c) = {"planned_amount"}
    BY <1>6, TheFields DEF Field
  <2>2. c \notin {PositionName, Practical}
    BY <1>6 DEF Planned, PositionName, Practical
  <2>3. ASSUME NEW U PROVE Fresh(U, c, r) = SumOf(U, PointingTo(U, k, r), "planned_amount")
    BY <1>6 DEF Fresh, Planned
  <2> HIDE DEF k
  <2>4. QED BY <1>3, <2>1, <2>2, <2>3
<1>7. CASE c = PositionName
  <2>1. ASSUME NEW U
        PROVE  Fresh(U, c, r) = IF U[U[r].category].live THEN U[U[r].category].name ELSE "#"
    BY <1>7 DEF Fresh, PositionName
  <2> DEFINE y == V[r].category
  <2>2. W[r].category = y
    BY <1>7 DEF Agree
  <2>3. Uses(V, c, r, y) /\ y \in Rows /\ Inputs(c) = {"name"}
    BY <1>7, TheFields DEF Uses, Field
  <2>4. V[y].live = W[y].live /\ V[y]["name"] = W[y]["name"]
    BY <2>3 DEF Agree
  <2>5. Fresh(V, c, r) = IF V[y].live THEN V[y].name ELSE "#"
    BY <2>1
  <2>6. Fresh(W, c, r) = IF W[y].live THEN W[y].name ELSE "#"
    BY <2>1, <2>2
  <2> HIDE DEF y
  <2>7. QED BY <2>4, <2>5, <2>6
<1>8. CASE c = Practical
  <2> DEFINE S(U) == {x \in M(U) : /\ U[x].account = U[U[r].budget].account
                                   /\ U[x].category = U[r].category}
  <2>1. ASSUME NEW U PROVE Fresh(U, c, r) = SumOf(U, S(U), "amount")
    BY <1>8 DEF Fresh, Practical
  <2>2. Source(c) = "movement" /\ Key(c) = "category" /\ Inputs(c) = {"amount", "account"}
        /\ c # PositionName
    BY <1>8, TheFields DEF Field, Practical, PositionName
  <2>3. ASSUME NEW U, NEW x PROVE Uses(U, c, r, x) <=> x \in M(U) /\ U[x].category = U[r].category
    BY <1>8, <2>2 DEF Uses
  <2>4. ASSUME NEW x \in Rows, \/ x \in M(V) /\ V[x].category = V[r].category
                               \/ x \in M(W) /\ W[x].category = W[r].category
        PROVE  /\ x \in M(V) /\ V[x].category = V[r].category
               /\ x \in M(W) /\ W[x].category = W[r].category
               /\ V[x].amount = W[x].amount /\ V[x].account = W[x].account
    <3>1. Uses(V, c, r, x) /\ Uses(W, c, r, x)
      BY <2>3, <2>4 DEF Agree
    <3>2. V[x]["amount"] = W[x]["amount"] /\ V[x]["account"] = W[x]["account"]
      BY <2>2, <3>1 DEF Agree
    <3>3. QED BY <2>3, <3>1, <3>2
  <2>5. V[V[r].budget].account = W[W[r].budget].account
    BY <1>8 DEF Agree
  <2>6. S(V) = S(W)
    BY <1>1, <2>4, <2>5
  <2>7. \A x \in S(V) : V[x]["amount"] = W[x]["amount"]
    BY <1>1, <2>4
  <2> HIDE DEF S
  <2>8. QED BY <2>1, <2>6, <2>7, SameSum
<1>9. QED BY <1>2, <1>4, <1>5, <1>6, <1>7, <1>8, SevenFields

--------------------------------------------------------------------------------
(***************************************************************************)
(* What a deletion takes with it.                                          *)
(***************************************************************************)

\* A row has its columns, and a foreign key points to a row of its model.
RowOK(m, f) ==
    /\ DOMAIN f = Columns[m] \cup StoredColumns(m) \cup {"live"}
    /\ f.live \in BOOLEAN
    /\ \A n : <<m, n>> \in DOMAIN Forward /\ f[n] # Null => f[n] \in Rows /\ Model[f[n]] = n

Typed(V) == \A r \in Rows : RowOK(Model[r], V[r])

\* One round of a cascade, on rows and on models.
Pull(V, T) == T \cup PointingInto(V, CascadingKeys, T)
Spread(C)  == C \cup UNION {CascadesTo(x) : x \in C}

LEMMA ThreeRounds == CascadeSteps = 3
<1>1. {k[1] : k \in CascadingKeys} = {"category", "position", "line"}
  BY TheCascades
<1>2. IsFiniteSet({}) /\ Cardinality({}) = 0
  BY FS_EmptySet
<1>3. IsFiniteSet({"category"}) /\ Cardinality({"category"}) = 1
  BY FS_Singleton
<1>4. IsFiniteSet({"category"} \cup {"position"}) /\ Cardinality({"category"} \cup {"position"}) = 2
  BY <1>3, FS_AddElement
<1>5. Cardinality(({"category"} \cup {"position"}) \cup {"line"}) = 3
  BY <1>4, FS_AddElement
<1>6. ({"category"} \cup {"position"}) \cup {"line"} = {"category", "position", "line"}
  OBVIOUS
<1>7. QED BY <1>1, <1>5, <1>6 DEF CascadeSteps

LEMMA CollectedRounds ==
    ASSUME NEW V, NEW S
    PROVE  Collected(V, S) = Pull(V, Pull(V, Pull(V, S)))
<1> DEFINE body(f) == [n \in 0..3 |-> IF n = 0 THEN S
                         ELSE LET T == f[n - 1] IN T \cup PointingInto(V, CascadingKeys, T)]
           A == Pull(V, S)
           B == Pull(V, A)
           C == Pull(V, B)
           g == [n \in 0..3 |-> IF n = 0 THEN S ELSE IF n = 1 THEN A ELSE IF n = 2 THEN B ELSE C]
           grow == CHOOSE f : f = body(f)
<1>1. g = body(g)
  <2> HIDE DEF A, B, C
  <2>0. A = Pull(V, S) /\ B = Pull(V, A) /\ C = Pull(V, B)
    BY DEF A, B, C
  <2>1. ASSUME NEW n \in 0..3 PROVE g[n] = IF n = 0 THEN S ELSE Pull(V, g[n - 1])
    <3>1. CASE n = 0
      BY <3>1
    <3>2. CASE n = 1
      BY <3>2, <2>0
    <3>3. CASE n = 2
      BY <3>3, <2>0
    <3>4. CASE n = 3
      BY <3>4, <2>0
    <3>5. QED BY <3>1, <3>2, <3>3, <3>4
  <2>2. QED BY <2>1 DEF Pull
<1>2. grow = body(grow)
  BY <1>1
<1>3. grow[3] = C
  <2> HIDE DEF grow
  <2>1. grow[0] = S
    BY <1>2
  <2>2. grow[1] = Pull(V, grow[0])
    BY <1>2 DEF Pull
  <2>3. grow[2] = Pull(V, grow[1])
    BY <1>2 DEF Pull
  <2>4. grow[3] = Pull(V, grow[2])
    BY <1>2 DEF Pull
  <2>5. QED BY <2>1, <2>2, <2>3, <2>4
<1>4. Collected(V, S) = grow[3]
  BY ThreeRounds DEF Collected
<1>5. QED BY <1>3, <1>4

LEMMA ClosureRounds ==
    ASSUME NEW m
    PROVE  CascadeClosure(m) = Spread(Spread(Spread(CascadesTo(m))))
<1> DEFINE body(f) == [n \in 0..3 |-> IF n = 0 THEN CascadesTo(m)
                         ELSE LET S == f[n - 1] IN S \cup UNION {CascadesTo(x) : x \in S}]
           A == Spread(CascadesTo(m))
           B == Spread(A)
           C == Spread(B)
           g == [n \in 0..3 |-> IF n = 0 THEN CascadesTo(m)
                                ELSE IF n = 1 THEN A ELSE IF n = 2 THEN B ELSE C]
           grow == CHOOSE f : f = body(f)
<1>1. g = body(g)
  <2> HIDE DEF A, B, C
  <2>0. A = Spread(CascadesTo(m)) /\ B = Spread(A) /\ C = Spread(B)
    BY DEF A, B, C
  <2>1. ASSUME NEW n \in 0..3 PROVE g[n] = IF n = 0 THEN CascadesTo(m) ELSE Spread(g[n - 1])
    <3>1. CASE n = 0
      BY <3>1
    <3>2. CASE n = 1
      BY <3>2, <2>0
    <3>3. CASE n = 2
      BY <3>3, <2>0
    <3>4. CASE n = 3
      BY <3>4, <2>0
    <3>5. QED BY <3>1, <3>2, <3>3, <3>4
  <2>2. QED BY <2>1 DEF Spread
<1>2. grow = body(grow)
  BY <1>1
<1>3. grow[3] = C
  <2> HIDE DEF grow
  <2>1. grow[0] = CascadesTo(m)
    BY <1>2
  <2>2. grow[1] = Spread(grow[0])
    BY <1>2 DEF Spread
  <2>3. grow[2] = Spread(grow[1])
    BY <1>2 DEF Spread
  <2>4. grow[3] = Spread(grow[2])
    BY <1>2 DEF Spread
  <2>5. QED BY <2>1, <2>2, <2>3, <2>4
<1>4. CascadeClosure(m) = grow[3]
  BY ThreeRounds DEF CascadeClosure
<1>5. QED BY <1>3, <1>4

\* The key through which a row is pulled.
LEMMA PulledBy ==
    ASSUME NEW V, Typed(V), NEW T, T \subseteq Rows, NEW x \in Pull(V, T), x \notin T
    PROVE  /\ x \in Rows /\ V[x].live
           /\ \E n : <<Model[x], n>> \in CascadingKeys /\ V[x][n] \in T /\ Model[V[x][n]] = n
<1>1. x \in PointingInto(V, CascadingKeys, T)
  BY DEF Pull
<1>2. x \in Rows /\ V[x].live
  BY <1>1 DEF PointingInto
<1>3. PICK k \in CascadingKeys : k[1] = Model[x] /\ V[x][k[2]] \in T
  BY <1>1 DEF PointingInto
<1>4. k = <<Model[x], k[2]>> /\ k \in DOMAIN Forward
  BY <1>3, TheKeys DEF CascadingKeys
<1>5. V[x][k[2]] \in Rows /\ V[x][k[2]] # Null
  BY <1>3, AccountAssumption
<1>6. Model[V[x][k[2]]] = k[2]
  BY <1>2, <1>4, <1>5 DEF Typed, RowOK
<1>7. QED BY <1>2, <1>3, <1>4, <1>6

\* The models of the rows that a deletion of rows of m takes are in the closure of m.
Inside(T, S, C) == T \subseteq Rows /\ \A x \in T : x \in S \/ Model[x] \in C

LEMMA PullStaysInside ==
    ASSUME NEW V, Typed(V), NEW m, NEW S, \A x \in S : Model[x] = m,
           NEW T, NEW C, CascadesTo(m) \subseteq C, Inside(T, S, C)
    PROVE  Inside(Pull(V, T), S, Spread(C)) /\ CascadesTo(m) \subseteq Spread(C)
<1>1. ASSUME NEW x \in Pull(V, T) PROVE x \in Rows /\ (x \in S \/ Model[x] \in Spread(C))
  <2>1. CASE x \in T
    BY <2>1 DEF Inside, Spread
  <2>2. CASE x \notin T
    <3>1. PICK n : <<Model[x], n>> \in CascadingKeys /\ V[x][n] \in T /\ Model[V[x][n]] = n
      BY <2>2, PulledBy DEF Inside
    <3>2. x \in Rows
      BY <2>2, PulledBy DEF Inside
    <3>3. Model[x] \in CascadesTo(n)
      <4>1. Forward[<<Model[x], n>>] = n
        BY <3>1, TheKeys DEF CascadingKeys
      <4>2. QED BY <3>1, <4>1 DEF CascadesTo
    <3>4. n = m \/ n \in C
      BY <3>1 DEF Inside
    <3>5. QED BY <3>2, <3>3, <3>4 DEF Spread
  <2>3. QED BY <2>1, <2>2
<1>2. CascadesTo(m) \subseteq Spread(C)
  BY DEF Spread
<1>3. QED BY <1>1, <1>2 DEF Inside

LEMMA CollectedInside ==
    ASSUME NEW V, Typed(V), NEW m, NEW S, S \subseteq Rows, \A x \in S : Model[x] = m
    PROVE  Inside(Collected(V, S), S, CascadeClosure(m))
<1> DEFINE C == CascadesTo(m)
<1>1. Inside(S, S, C) /\ CascadesTo(m) \subseteq C
  BY DEF Inside
<1> HIDE DEF C
<1>2. Inside(Pull(V, S), S, Spread(C)) /\ CascadesTo(m) \subseteq Spread(C)
  BY <1>1, PullStaysInside
<1>3. Inside(Pull(V, Pull(V, S)), S, Spread(Spread(C)))
      /\ CascadesTo(m) \subseteq Spread(Spread(C))
  BY <1>2, PullStaysInside
<1>4. Inside(Pull(V, Pull(V, Pull(V, S))), S, Spread(Spread(Spread(C))))
  BY <1>3, PullStaysInside
<1>5. QED BY <1>4, CollectedRounds, ClosureRounds DEF C

\* A position is deleted with its category and with its budget, which three rounds
\* are enough to find: only the deletion of an account takes two before.
LEMMA PositionsFollow ==
    ASSUME NEW V, Typed(V), Anchored(V), NEW S, S \subseteq Rows, NEW r \in Live(V, "position"),
           V[r].category \in Collected(V, S) \/ V[r].budget \in Collected(V, S)
    PROVE  r \in Collected(V, S)
<1> DEFINE A == Pull(V, S)
           B == Pull(V, A)
           C == Pull(V, B)
<1>1. Collected(V, S) = C
  BY CollectedRounds
<1>2. S \subseteq A /\ A \subseteq B /\ B \subseteq C
  BY DEF Pull
<1>3. ASSUME NEW T, T \subseteq Rows PROVE Pull(V, T) \subseteq Rows
  BY <1>3 DEF Pull, PointingInto
<1>4. A \subseteq Rows /\ B \subseteq Rows
  BY <1>3
<1>5. ASSUME NEW T, T \subseteq Rows, NEW x \in Pull(V, T), Model[x] \in {"account", "budget"}
      PROVE  x \in T
  <2> SUFFICES ASSUME x \notin T PROVE FALSE
    OBVIOUS
  <2>1. PICK n : <<Model[x], n>> \in CascadingKeys
    BY <1>5, PulledBy
  <2>2. QED BY <1>5, <2>1, TheCascades
<1>6. ASSUME NEW T, V[r].category \in T \/ V[r].budget \in T
      PROVE  r \in Pull(V, T)
  <2>1. <<"position", "category">> \in CascadingKeys /\ <<"position", "budget">> \in CascadingKeys
    BY TheCascades
  <2>2. r \in Rows /\ V[r].live /\ Model[r] = "position"
    BY DEF Live
  <2>3. V[r]["category"] \in T \/ V[r]["budget"] \in T
    BY <1>6
  <2>4. r \in PointingInto(V, CascadingKeys, T)
    BY <2>1, <2>2, <2>3 DEF PointingInto
  <2>5. QED BY <2>4 DEF Pull
<1> HIDE DEF A, B, C
<1>7. CASE V[r].budget \in C
  <2>1. Model[V[r].budget] = "budget"
    BY DEF Anchored, Live
  <2>2. V[r].budget \in B
    BY <1>4, <1>5, <1>7, <2>1 DEF C
  <2>3. QED BY <1>1, <1>6, <2>2 DEF C
<1>8. CASE V[r].category \in C
  <2> DEFINE k == V[r].category
  <2>1. Model[k] = "category"
    BY DEF Anchored, Live
  <2>2. CASE k \in B
    BY <1>1, <1>6, <2>2 DEF C
  <2>3. CASE k \notin B
    <3>1. PICK n : <<Model[k], n>> \in CascadingKeys /\ V[k][n] \in B /\ Model[V[k][n]] = n
      BY <1>4, <1>8, <2>3, PulledBy DEF C
    <3>2. n = "account"
      BY <2>1, <3>1, TheCascades
    <3>3. V[k][n] \in A
      BY <1>4, <1>5, <3>1, <3>2 DEF B
    <3>4. k \in PointingInto(V, CascadingKeys, A)
      <4>1. k \in Rows /\ V[k].live
        BY DEF Anchored, Live
      <4>2. QED BY <2>1, <3>1, <3>3, <4>1 DEF PointingInto
    <3>5. k \in B
      BY <3>4 DEF B, Pull
    <3>6. QED BY <2>3, <3>5
  <2>4. QED BY <2>2, <2>3
<1>9. QED BY <1>1, <1>7, <1>8

\* A field is queued when a deletion takes a row it uses, directly or not.
LEMMA QueuedByDeletion ==
    ASSUME NEW V, Typed(V), Anchored(V), NEW c \in Stored, NEW r \in Live(V, c[1]),
           NEW m \in AccountModels, NEW S, S \subseteq Rows, \A x \in S : Model[x] = m,
           NEW x \in Collected(V, S), Uses(V, c, r, x)
    PROVE  <<c, r>> \in Deleted(V, m, S)
<1> DEFINE y == Source(c)
           gone == Collected(V, S)
           cascaded == {z \in gone \ S : Model[z] = y}
<1>1. Inside(gone, S, CascadeClosure(m))
  BY CollectedInside
<1>2. x \in Rows /\ Model[x] = y
  BY UsedIsReached DEF Live
<1>3. CASE x \in S
  <2>1. y = m
    BY <1>2, <1>3
  <2>2. <<c, r>> \in ExistenceChanged(V, y, S)
    BY <1>3, QueuedByExistence
  <2>3. QED BY <2>1, <2>2 DEF Deleted
<1>4. CASE x \notin S
  <2>1. y \in CascadeClosure(m)
    BY <1>1, <1>2, <1>4 DEF Inside
  <2>2. y \in ExistenceWatched
    BY InputsAreBound DEF Bound, ExistenceWatched
  <2>3. y \in Models /\ m \in Models
    BY <1>2, AccountAssumption, TheModels
  <2>4. <<m, y>> \in CascadeDeleted
    BY <2>1, <2>2, <2>3 DEF CascadeDeleted
  <2>5. x \in cascaded
    BY <1>2, <1>4
  <2> HIDE DEF cascaded
  <2>6. <<c, r>> \in ExistenceChanged(V, y, cascaded)
    BY <2>5, QueuedByExistence
  <2>7. QED BY <2>3, <2>4, <2>6 DEF Deleted, cascaded
<1>5. QED BY <1>3, <1>4

--------------------------------------------------------------------------------
(***************************************************************************)
(* Types, for any number of units of work.                                 *)
(***************************************************************************)
Fields == {x \in Stored \X Rows : x[1][1] = Model[x[2]]}

\* What a request gives the columns of rows of m.
ValuesOK(m, v) ==
    /\ DOMAIN v \subseteq Columns[m]
    /\ \A n \in DOMAIN v : <<m, n>> \in DOMAIN Forward /\ v[n] # Null
                            => v[n] \in Rows /\ Model[v[n]] = n

UnitOK(t) ==
    /\ t = [pc |-> t.pc, kind |-> t.kind, rows |-> t.rows, values |-> t.values,
            written |-> t.written, pending |-> t.pending, fresh |-> t.fresh]
    /\ t.pc \in {"idle", "write", "declare", "flush", "store"}
    /\ t.rows \subseteq Rows /\ \A r, s \in t.rows : Model[r] = Model[s]
    /\ DOMAIN t.written \subseteq Rows
    /\ \A r \in DOMAIN t.written : RowOK(Model[r], t.written[r])
    /\ t.pending \subseteq Fields /\ DOMAIN t.fresh \subseteq Fields
    /\ t.pc \in {"write", "declare"} =>
         t.rows # {} /\ \A r \in t.rows : ValuesOK(Model[r], t.values)
    /\ t.pc = "store" => \A k \in DOMAIN t.fresh : k[2] \in t.rows

TypeInv ==
    /\ DOMAIN db = Rows /\ Typed(db)
    /\ tx = [p \in Procs |-> tx[p]]
    /\ \A p \in Procs : UnitOK(tx[p])

LEMMA NoRowIsOK ==
    ASSUME NEW m \in AccountModels
    PROVE  /\ RowOK(m, NoRow(m)) /\ NoRow(m).live = FALSE
           /\ RowOK(m, [NoRow(m) EXCEPT !.live = TRUE]) /\ [NoRow(m) EXCEPT !.live = TRUE].live
<1> DEFINE f == NoRow(m)
           g == [f EXCEPT !.live = TRUE]
<1>1. DOMAIN f = Columns[m] \cup StoredColumns(m) \cup {"live"}
      /\ \A n \in DOMAIN f : f[n] = IF n = "live" THEN FALSE ELSE Null
  BY DEF NoRow
<1>2. DOMAIN g = DOMAIN f /\ g["live"] = TRUE /\ \A n \in DOMAIN f : n # "live" => g[n] = f[n]
  BY <1>1
<1>3. ASSUME NEW n, <<m, n>> \in DOMAIN Forward PROVE n \in DOMAIN f /\ n # "live"
  BY <1>1, <1>3, KeysAreColumns
<1>4. f["live"] = FALSE
  BY <1>1
<1> HIDE DEF f, g
<1>5. RowOK(m, f)
  BY <1>1, <1>3, <1>4 DEF RowOK
<1>6. RowOK(m, g)
  BY <1>1, <1>2, <1>3 DEF RowOK
<1>7. QED BY <1>2, <1>4, <1>5, <1>6 DEF f, g

LEMMA GivenRowIsOK ==
    ASSUME NEW m \in AccountModels, NEW f, RowOK(m, f), NEW v, ValuesOK(m, v)
    PROVE  /\ RowOK(m, Overlay(v, f))
           /\ Overlay(v, f).live = f.live
           /\ \A n \in DOMAIN f : n \notin DOMAIN v => Overlay(v, f)[n] = f[n]
           /\ \A n \in DOMAIN v : Overlay(v, f)[n] = v[n]
<1> DEFINE g == Overlay(v, f)
<1>1. DOMAIN g = DOMAIN v \cup DOMAIN f
      /\ \A n \in DOMAIN g : g[n] = IF n \in DOMAIN v THEN v[n] ELSE f[n]
  BY DEF Overlay
<1> HIDE DEF g
<1>2. DOMAIN v \subseteq Columns[m] /\ "live" \notin DOMAIN v
  BY KeysAreColumns DEF ValuesOK
<1>3. DOMAIN g = Columns[m] \cup StoredColumns(m) \cup {"live"}
  BY <1>1, <1>2 DEF RowOK
<1>4. g["live"] = f["live"]
  BY <1>1, <1>2, <1>3
<1>5. ASSUME NEW n, <<m, n>> \in DOMAIN Forward, g[n] # Null PROVE g[n] \in Rows /\ Model[g[n]] = n
  <2>1. n \in DOMAIN g
    BY <1>3, <1>5, KeysAreColumns
  <2>2. QED BY <1>1, <1>5, <2>1 DEF RowOK, ValuesOK
<1>6. RowOK(m, g)
  BY <1>3, <1>4, <1>5 DEF RowOK
<1>7. QED BY <1>1, <1>4, <1>6 DEF g

LEMMA ViewIsTyped ==
    ASSUME TypeInv, NEW p \in Procs
    PROVE  /\ DOMAIN View(p) = Rows /\ Typed(View(p))
           /\ \A r \in Rows : View(p)[r] = IF r \in DOMAIN tx[p].written THEN tx[p].written[r]
                                            ELSE db[r]
<1> DEFINE V == View(p)
<1>1. DOMAIN V = DOMAIN tx[p].written \cup Rows
      /\ \A r \in DOMAIN V : V[r] = IF r \in DOMAIN tx[p].written THEN tx[p].written[r] ELSE db[r]
  BY DEF View, Overlay, TypeInv
<1> HIDE DEF V
<1>2. DOMAIN tx[p].written \subseteq Rows
  BY DEF TypeInv, UnitOK
<1>3. ASSUME NEW r \in Rows PROVE RowOK(Model[r], V[r])
  BY <1>1, <1>2 DEF TypeInv, UnitOK, Typed
<1>4. QED BY <1>1, <1>2, <1>3 DEF Typed, V

LEMMA RowsHaveModels == ASSUME NEW r \in Rows PROVE Model[r] \in AccountModels
BY AccountAssumption

\* The declarations queue fields of rows that have them.
LEMMA ResolvedFields ==
    ASSUME NEW V, NEW B, B \subseteq Bindings, NEW pks
    PROVE  Resolve(V, B, pks) \subseteq Fields
<1>1. \A b \in Bindings : b.field \in Stored
  BY DEF Bindings, Binding
<1>2. QED BY <1>1 DEF Resolve, Roots, Live, Fields

LEMMA DeclaredFields ==
    ASSUME NEW V, NEW m
    PROVE  /\ \A pks, names, before : Modified(V, m, pks, names, before) \subseteq Fields
           /\ \A pks : ExistenceChanged(V, m, pks) \subseteq Fields
BY ResolvedFields DEF Modified, ExistenceChanged

LEMMA CreatedFields ==
    ASSUME NEW V, NEW m, NEW pks, pks \subseteq Rows, \A r \in pks : Model[r] = m
    PROVE  Created(V, m, pks) \subseteq Fields
BY DeclaredFields DEF Created, Fields

LEMMA DeletedFields ==
    ASSUME NEW V, NEW m, NEW pks
    PROVE  Deleted(V, m, pks) \subseteq Fields
<1>1. \A y, S : ExistenceChanged(V, y, S) \subseteq Fields
  BY DeclaredFields
<1>2. \A y, S, names : Modified(V, y, S, names, TRUE) \subseteq Fields
  BY DeclaredFields
<1>3. ASSUME NEW x \in Deleted(V, m, pks)
      PROVE  \/ \E y, S : x \in ExistenceChanged(V, y, S)
             \/ \E y, S, names : x \in Modified(V, y, S, names, TRUE)
  BY <1>3 DEF Deleted
<1>4. QED BY <1>1, <1>2, <1>3

LEMMA TheModelOf ==
    ASSUME NEW t, NEW r \in t.rows, \A x, y \in t.rows : Model[x] = Model[y]
    PROVE  ModelOf(t) = Model[r]
BY DEF ModelOf

\* What a request has resolved and validated when its transaction begins, on rows
\* of m: a new row with its references, a column that may change, or a deletion.
CreationOK(m, rows, values) ==
    /\ \E r \in Rows : rows = {r} /\ ~db[r].live
    /\ m = "position" => /\ {"category", "budget"} \subseteq DOMAIN values
                         /\ values.category \in Live(db, "category")
                         /\ values.budget \in Live(db, "budget")

Updatable ==
    {<<"category", "name">>, <<"movement", "amount">>, <<"movement", "category">>,
     <<"position", "category">>, <<"line", "planned_amount">>, <<"line", "position">>}

UpdateOK(m, rows, values, pending) ==
    /\ rows \subseteq Live(db, m)
    /\ \E k \in Updatable : m = k[1] /\ DOMAIN values = {k[2]}
    /\ m = "position" => values.category \in Live(db, "category")
    /\ HasRelationToModify(m, DOMAIN values)
         => Modified(db, m, rows, DOMAIN values, TRUE) \subseteq pending

DeletionOK(m, rows, pending) ==
    rows \subseteq Live(db, m) /\ Deleted(db, m, rows) \subseteq pending

RequestOK(kind, m, rows, values, pending) ==
    /\ rows # {} /\ rows \subseteq Rows /\ \A r \in rows : Model[r] = m
    /\ ValuesOK(m, values) /\ pending \subseteq Fields
    /\ \/ kind = "create" /\ CreationOK(m, rows, values)
       \/ kind = "update" /\ UpdateOK(m, rows, values, pending)
       \/ kind = "delete" /\ DeletionOK(m, rows, pending)

Begins(p) ==
    \E kind, m, rows, values, pending :
        Begin(p, kind, rows, values, pending) /\ RequestOK(kind, m, rows, values, pending)

LEMMA NothingIsOK == ASSUME NEW m PROVE ValuesOK(m, Nothing)
BY DEF ValuesOK, Nothing

LEMMA Creates ==
    ASSUME NEW p, NEW r \in Rows, ~db[r].live, NEW values, ValuesOK(Model[r], values),
           Begin(p, "create", {r}, values, {}), CreationOK(Model[r], {r}, values)
    PROVE  Begins(p)
<1>1. RequestOK("create", Model[r], {r}, values, {})
  BY DEF RequestOK
<1>2. QED BY <1>1 DEF Begins

LEMMA Updates ==
    ASSUME NEW p, NEW m, NEW rows, NEW n, NEW values, Update(p, m, rows, values),
           DOMAIN values = {n}, <<m, n>> \in Updatable, ValuesOK(m, values),
           m = "position" => values.category \in Live(db, "category")
    PROVE  Begins(p)
<1> DEFINE pending == IF HasRelationToModify(m, DOMAIN values)
                        THEN Modified(db, m, rows, DOMAIN values, TRUE) ELSE {}
<1>1. Begin(p, "update", rows, values, pending) /\ rows # {} /\ rows \subseteq Live(db, m)
  BY DEF Update
<1>2. pending \subseteq Fields
  BY DeclaredFields
<1>3. UpdateOK(m, rows, values, pending)
  BY <1>1 DEF UpdateOK
<1> HIDE DEF pending
<1>4. rows \subseteq Rows /\ \A r \in rows : Model[r] = m
  BY <1>1 DEF Live
<1>5. RequestOK("update", m, rows, values, pending)
  BY <1>1, <1>2, <1>3, <1>4 DEF RequestOK
<1>6. QED BY <1>1, <1>5 DEF Begins

LEMMA Deletes ==
    ASSUME NEW p, NEW m, NEW rows, Delete(p, m, rows)
    PROVE  Begins(p)
<1>1. Begin(p, "delete", rows, Nothing, Deleted(db, m, rows)) /\ rows # {}
      /\ rows \subseteq Live(db, m)
  BY DEF Delete
<1>2. rows \subseteq Rows /\ \A r \in rows : Model[r] = m
  BY <1>1 DEF Live
<1>3. RequestOK("delete", m, rows, Nothing, Deleted(db, m, rows))
  BY <1>1, <1>2, NothingIsOK, DeletedFields DEF RequestOK, DeletionOK
<1>4. QED BY <1>1, <1>3 DEF Begins

LEMMA RequestsBegin ==
    ASSUME TypeInv, NEW p \in Procs, Request(p)
    PROVE  Begins(p)
<1>1. ASSUME NEW r \in Accounts, CreateAccount(p, r) PROVE Begins(p)
  <2>1. r \in Rows /\ Model[r] = "account" /\ ~db[r].live /\ Begin(p, "create", {r}, Nothing, {})
    BY <1>1 DEF Accounts, CreateAccount, NewKey
  <2>2. CreationOK(Model[r], {r}, Nothing)
    BY <2>1 DEF CreationOK
  <2>3. QED BY <2>1, <2>2, NothingIsOK, Creates
<1>2. ASSUME NEW r \in Categories, NEW a \in Accounts \cup {Null}, NEW n \in Names,
             CreateCategory(p, r, a, n)
      PROVE  Begins(p)
  <2> DEFINE v == [account |-> a, name |-> n]
  <2>1. r \in Rows /\ Model[r] = "category" /\ ~db[r].live /\ Begin(p, "create", {r}, v, {})
    BY <1>2 DEF Categories, CreateCategory, NewKey
  <2>2. CreationOK(Model[r], {r}, v)
    BY <2>1 DEF CreationOK
  <2>3. DOMAIN v = {"account", "name"} /\ v["account"] = a
    OBVIOUS
  <2>4. a # Null => a \in Rows /\ Model[a] = "account"
    BY DEF Accounts
  <2>5. <<"category", "name">> \notin DOMAIN Forward
    BY TheKeys
  <2> HIDE DEF v
  <2>6. ValuesOK("category", v)
    BY <2>3, <2>4, <2>5, TheColumns DEF ValuesOK
  <2>7. QED BY <2>1, <2>2, <2>6, Creates
<1>3. ASSUME NEW r \in Movements, NEW a \in Accounts, NEW c \in Categories \cup {Null},
             NEW x \in Amounts, CreateMovement(p, r, a, c, x)
      PROVE  Begins(p)
  <2> DEFINE v == [account |-> a, category |-> c, amount |-> x]
  <2>1. r \in Rows /\ Model[r] = "movement" /\ ~db[r].live /\ Begin(p, "create", {r}, v, {})
    BY <1>3 DEF Movements, CreateMovement, NewKey
  <2>2. CreationOK(Model[r], {r}, v)
    BY <2>1 DEF CreationOK
  <2>3. DOMAIN v = {"account", "category", "amount"} /\ v["account"] = a /\ v["category"] = c
    OBVIOUS
  <2>4. /\ a \in Rows /\ Model[a] = "account"
        /\ c # Null => c \in Rows /\ Model[c] = "category"
    BY DEF Accounts, Categories
  <2>5. <<"movement", "amount">> \notin DOMAIN Forward
    BY TheKeys
  <2> HIDE DEF v
  <2>6. ValuesOK("movement", v)
    BY <2>3, <2>4, <2>5, TheColumns DEF ValuesOK
  <2>7. QED BY <2>1, <2>2, <2>6, Creates
<1>4. ASSUME NEW r \in Budgets, NEW a \in Accounts, CreateBudget(p, r, a) PROVE Begins(p)
  <2> DEFINE v == [account |-> a]
  <2>1. r \in Rows /\ Model[r] = "budget" /\ ~db[r].live /\ Begin(p, "create", {r}, v, {})
    BY <1>4 DEF Budgets, CreateBudget, NewKey
  <2>2. CreationOK(Model[r], {r}, v)
    BY <2>1 DEF CreationOK
  <2>3. DOMAIN v = {"account"} /\ v["account"] = a
    OBVIOUS
  <2>4. a \in Rows /\ Model[a] = "account"
    BY DEF Accounts
  <2> HIDE DEF v
  <2>5. ValuesOK("budget", v)
    BY <2>3, <2>4, TheColumns DEF ValuesOK
  <2>6. QED BY <2>1, <2>2, <2>5, Creates
<1>5. ASSUME NEW r \in Positions, NEW b \in Budgets, NEW c \in Categories,
             CreatePosition(p, r, b, c)
      PROVE  Begins(p)
  <2> DEFINE v == [budget |-> b, category |-> c]
  <2>1. r \in Rows /\ Model[r] = "position" /\ ~db[r].live /\ Begin(p, "create", {r}, v, {})
        /\ b \in Live(db, "budget") /\ c \in Live(db, "category")
    BY <1>5 DEF Positions, CreatePosition, NewKey
  <2>2. DOMAIN v = {"budget", "category"} /\ v["budget"] = b /\ v["category"] = c
        /\ v.budget = b /\ v.category = c
    OBVIOUS
  <2> HIDE DEF v
  <2>3. CreationOK(Model[r], {r}, v)
    BY <2>1, <2>2 DEF CreationOK
  <2>4. ValuesOK("position", v)
    BY <2>1, <2>2, TheColumns DEF ValuesOK, Live
  <2>5. QED BY <2>1, <2>3, <2>4, Creates
<1>6. ASSUME NEW r \in Lines, NEW q \in Positions, NEW x \in Amounts, CreateLine(p, r, q, x)
      PROVE  Begins(p)
  <2> DEFINE b == db[q].budget
             v == [position |-> q, budget |-> b, planned_amount |-> x]
  <2>1. r \in Rows /\ Model[r] = "line" /\ ~db[r].live /\ Begin(p, "create", {r}, v, {})
    BY <1>6 DEF Lines, CreateLine, NewKey
  <2>2. CreationOK(Model[r], {r}, v)
    BY <2>1 DEF CreationOK
  <2>3. q \in Rows /\ Model[q] = "position"
    BY DEF Positions
  <2>4. b # Null => b \in Rows /\ Model[b] = "budget"
    <3>1. RowOK("position", db[q]) /\ <<"position", "budget">> \in DOMAIN Forward
      BY <2>3, TheKeys DEF TypeInv, Typed
    <3>2. db[q]["budget"] # Null => db[q]["budget"] \in Rows /\ Model[db[q]["budget"]] = "budget"
      BY <3>1 DEF RowOK
    <3>3. QED BY <3>2
  <2> HIDE DEF b
  <2>5. DOMAIN v = {"position", "budget", "planned_amount"} /\ v["position"] = q
        /\ v["budget"] = b
    OBVIOUS
  <2>6. <<"line", "planned_amount">> \notin DOMAIN Forward
    BY TheKeys
  <2> HIDE DEF v
  <2>7. ValuesOK("line", v)
    BY <2>3, <2>4, <2>5, <2>6, TheColumns DEF ValuesOK
  <2>8. QED BY <2>1, <2>2, <2>7, Creates
<1>7. ASSUME NEW S, NEW n, UpdateCategory(p, S, n) PROVE Begins(p)
  <2> DEFINE v == [name |-> n]
  <2>1. Update(p, "category", S, v)
    BY <1>7 DEF UpdateCategory
  <2>2. DOMAIN v = {"name"} /\ <<"category", "name">> \notin DOMAIN Forward
        /\ <<"category", "name">> \in Updatable
    BY TheKeys DEF Updatable
  <2> HIDE DEF v
  <2>3. ValuesOK("category", v)
    BY <2>2, TheColumns DEF ValuesOK
  <2>4. QED BY <2>1, <2>2, <2>3, Updates
<1>8. ASSUME NEW S, NEW n, UpdateMovementAmount(p, S, n) PROVE Begins(p)
  <2> DEFINE v == [amount |-> n]
  <2>1. Update(p, "movement", S, v)
    BY <1>8 DEF UpdateMovementAmount
  <2>2. DOMAIN v = {"amount"} /\ <<"movement", "amount">> \notin DOMAIN Forward
        /\ <<"movement", "amount">> \in Updatable
    BY TheKeys DEF Updatable
  <2> HIDE DEF v
  <2>3. ValuesOK("movement", v)
    BY <2>2, TheColumns DEF ValuesOK
  <2>4. QED BY <2>1, <2>2, <2>3, Updates
<1>9. ASSUME NEW S, NEW c \in Categories \cup {Null}, UpdateMovementCategory(p, S, c)
      PROVE  Begins(p)
  <2> DEFINE v == [category |-> c]
  <2>1. Update(p, "movement", S, v)
    BY <1>9 DEF UpdateMovementCategory
  <2>2. DOMAIN v = {"category"} /\ v["category"] = c /\ <<"movement", "category">> \in Updatable
    BY DEF Updatable
  <2>3. c # Null => c \in Rows /\ Model[c] = "category"
    BY DEF Categories
  <2> HIDE DEF v
  <2>4. ValuesOK("movement", v)
    BY <2>2, <2>3, TheColumns DEF ValuesOK
  <2>5. QED BY <2>1, <2>2, <2>4, Updates
<1>10. ASSUME NEW S, NEW c \in Categories, UpdatePosition(p, S, c) PROVE Begins(p)
  <2> DEFINE v == [category |-> c]
  <2>1. Update(p, "position", S, v) /\ c \in Live(db, "category")
    BY <1>10 DEF UpdatePosition
  <2>2. DOMAIN v = {"category"} /\ v["category"] = c /\ <<"position", "category">> \in Updatable
        /\ v.category = c
    BY DEF Updatable
  <2> HIDE DEF v
  <2>3. ValuesOK("position", v)
    BY <2>1, <2>2, TheColumns DEF ValuesOK, Live
  <2>4. QED BY <2>1, <2>2, <2>3, Updates
<1>11. ASSUME NEW S, NEW n, UpdateLineAmount(p, S, n) PROVE Begins(p)
  <2> DEFINE v == [planned_amount |-> n]
  <2>1. Update(p, "line", S, v)
    BY <1>11 DEF UpdateLineAmount
  <2>2. DOMAIN v = {"planned_amount"} /\ <<"line", "planned_amount">> \notin DOMAIN Forward
        /\ <<"line", "planned_amount">> \in Updatable
    BY TheKeys DEF Updatable
  <2> HIDE DEF v
  <2>3. ValuesOK("line", v)
    BY <2>2, TheColumns DEF ValuesOK
  <2>4. QED BY <2>1, <2>2, <2>3, Updates
<1>12. ASSUME NEW S, NEW q \in Positions, UpdateLinePosition(p, S, q) PROVE Begins(p)
  <2> DEFINE v == [position |-> q]
  <2>1. Update(p, "line", S, v)
    BY <1>12 DEF UpdateLinePosition
  <2>2. DOMAIN v = {"position"} /\ v["position"] = q /\ <<"line", "position">> \in Updatable
    BY DEF Updatable
  <2>3. q \in Rows /\ Model[q] = "position"
    BY DEF Positions
  <2> HIDE DEF v
  <2>4. ValuesOK("line", v)
    BY <2>2, <2>3, TheColumns DEF ValuesOK
  <2>5. QED BY <2>1, <2>2, <2>4, Updates
<1>13. QED BY <1>1, <1>2, <1>3, <1>4, <1>5, <1>6, <1>7, <1>8, <1>9, <1>10, <1>11, <1>12,
              Deletes DEF Request

\* What a step of p may leave: everything else as it was.
Only(p) ==
    /\ tx' = [q \in Procs |-> tx'[q]]
    /\ \A q \in Procs \ {p} : tx'[q] = tx[q]

LEMMA UnitStep ==
    ASSUME TypeInv, NEW p \in Procs, Only(p), UnitOK(tx'[p]), DOMAIN db' = Rows, Typed(db')
    PROVE  TypeInv'
<1>1. \A q \in Procs : UnitOK(tx'[q])
  BY DEF TypeInv, Only
<1>2. QED BY <1>1 DEF TypeInv, Only

LEMMA IdleIsOK == UnitOK(Idle)
<1>1. DOMAIN Nothing = {}
  BY DEF Nothing
<1>2. QED BY <1>1 DEF Idle, UnitOK

LEMMA BeginsKeepsTypes ==
    ASSUME TypeInv, NEW p \in Procs, Begins(p)
    PROVE  TypeInv'
<1>1. PICK kind, m, rows, values, pending :
        Begin(p, kind, rows, values, pending) /\ RequestOK(kind, m, rows, values, pending)
  BY DEF Begins
<1> DEFINE t == [pc |-> "write", kind |-> kind, rows |-> rows, values |-> values,
                 written |-> Nothing, pending |-> pending, fresh |-> Nothing]
<1>2. tx' = [tx EXCEPT ![p] = t] /\ UNCHANGED db
  BY <1>1 DEF Begin
<1>3. DOMAIN Nothing = {}
  BY DEF Nothing
<1>4. UnitOK(t)
  BY <1>1, <1>3 DEF RequestOK, UnitOK
<1> HIDE DEF t
<1>5. Only(p) /\ tx'[p] = t
  BY <1>2 DEF Only, TypeInv
<1>6. db' = db /\ DOMAIN db = Rows /\ Typed(db)
  BY <1>2 DEF TypeInv
<1>7. QED BY <1>4, <1>5, <1>6, UnitStep

\* What a write leaves of its rows: given rows over new or existing ones.
LEMMA WriteCreateKeepsTypes ==
    ASSUME TypeInv, NEW p \in Procs, WriteCreate(p)
    PROVE  TypeInv'
<1> DEFINE t == tx[p]
           w == [r \in t.rows |-> Overlay(t.values, [NoRow(Model[r]) EXCEPT !.live = TRUE])]
           u == [pc |-> "declare", kind |-> t.kind, rows |-> t.rows, values |-> t.values,
                 written |-> w, pending |-> t.pending, fresh |-> t.fresh]
<1>1. tx' = [tx EXCEPT ![p].pc = "declare", ![p].written = w] /\ UNCHANGED db /\ t.pc = "write"
  BY DEF WriteCreate
<1>2. UnitOK(t) /\ tx = [q \in Procs |-> tx[q]]
  BY DEF TypeInv
<1>3. ASSUME NEW r \in t.rows
      PROVE  RowOK(Model[r], Overlay(t.values, [NoRow(Model[r]) EXCEPT !.live = TRUE]))
  <2>1. Model[r] \in AccountModels /\ ValuesOK(Model[r], t.values)
    BY <1>1, <1>2, RowsHaveModels DEF UnitOK
  <2>2. QED BY <2>1, NoRowIsOK, GivenRowIsOK
<1>4. DOMAIN w = t.rows /\ \A r \in DOMAIN w : RowOK(Model[r], w[r])
  BY <1>3
<1> HIDE DEF w
<1>5. UnitOK(u)
  BY <1>1, <1>2, <1>4 DEF UnitOK
<1>6. Only(p) /\ tx'[p] = u
  BY <1>1, <1>2 DEF Only, UnitOK
<1>7. db' = db /\ DOMAIN db = Rows /\ Typed(db)
  BY <1>1 DEF TypeInv
<1>8. QED BY <1>5, <1>6, <1>7, UnitStep

LEMMA WriteUpdateKeepsTypes ==
    ASSUME TypeInv, NEW p \in Procs, WriteUpdate(p)
    PROVE  TypeInv'
<1> DEFINE t == tx[p]
           w == [r \in {x \in t.rows : db[x].live} |-> Overlay(t.values, db[r])]
           u == [pc |-> "declare", kind |-> t.kind, rows |-> t.rows, values |-> t.values,
                 written |-> w, pending |-> t.pending, fresh |-> t.fresh]
<1>1. tx' = [tx EXCEPT ![p].pc = "declare", ![p].written = w] /\ UNCHANGED db /\ t.pc = "write"
  BY DEF WriteUpdate
<1>2. UnitOK(t) /\ tx = [q \in Procs |-> tx[q]] /\ Typed(db)
  BY DEF TypeInv
<1>3. ASSUME NEW r \in t.rows PROVE RowOK(Model[r], Overlay(t.values, db[r]))
  <2>1. r \in Rows /\ Model[r] \in AccountModels /\ ValuesOK(Model[r], t.values)
    BY <1>1, <1>2, RowsHaveModels DEF UnitOK
  <2>2. QED BY <1>2, <2>1, GivenRowIsOK DEF Typed
<1>4. DOMAIN w \subseteq t.rows /\ \A r \in DOMAIN w : RowOK(Model[r], w[r])
  BY <1>3
<1> HIDE DEF w
<1>5. UnitOK(u)
  BY <1>1, <1>2, <1>4 DEF UnitOK
<1>6. Only(p) /\ tx'[p] = u
  BY <1>1, <1>2 DEF Only, UnitOK
<1>7. db' = db /\ DOMAIN db = Rows /\ Typed(db)
  BY <1>1 DEF TypeInv
<1>8. QED BY <1>5, <1>6, <1>7, UnitStep

\* What a deletion writes: the rows that go, and those that lose a reference.
Gone(t) == Collected(db, {r \in t.rows : db[r].live})

Nulls(S, x) ==
    {n \in Columns[Model[x]] : /\ <<Model[x], n>> \in DOMAIN OnDelete
                               /\ OnDelete[<<Model[x], n>>] = "SET_NULL"
                               /\ db[x][n] \in S}

Nulled(S) == {x \in Rows \ S : db[x].live /\ Nulls(S, x) # {}}

Deletion(S) ==
    [x \in S \cup Nulled(S) |->
       IF x \in S THEN NoRow(Model[x]) ELSE Overlay([n \in Nulls(S, x) |-> Null], db[x])]

LEMMA NullsAreOK ==
    ASSUME NEW S, NEW x
    PROVE  ValuesOK(Model[x], [n \in Nulls(S, x) |-> Null])
BY DEF Nulls, ValuesOK

LEMMA GoneRows ==
    ASSUME TypeInv, NEW p \in Procs, tx[p].pc = "write"
    PROVE  Gone(tx[p]) \subseteq Rows
<1> DEFINE S == {r \in tx[p].rows : db[r].live}
<1>1. tx[p].rows # {} /\ S \subseteq Rows /\ \A r, s \in tx[p].rows : Model[r] = Model[s]
  BY DEF TypeInv, UnitOK
<1>2. PICK m : \A r \in S : Model[r] = m
  BY <1>1
<1> HIDE DEF S
<1>3. Inside(Collected(db, S), S, CascadeClosure(m))
  BY <1>1, <1>2, CollectedInside DEF TypeInv
<1>4. QED BY <1>3 DEF Inside, Gone, S

LEMMA WriteDeleteKeepsTypes ==
    ASSUME TypeInv, NEW p \in Procs, WriteDelete(p)
    PROVE  TypeInv'
<1> DEFINE t == tx[p]
           S == Gone(t)
           w == Deletion(S)
           u == [pc |-> "flush", kind |-> t.kind, rows |-> t.rows, values |-> t.values,
                 written |-> w, pending |-> t.pending, fresh |-> t.fresh]
<1>1. tx' = [tx EXCEPT ![p].pc = "flush", ![p].written = w] /\ UNCHANGED db /\ t.pc = "write"
  BY DEF WriteDelete, Deletion, Nulled, Nulls, Gone
<1>2. UnitOK(t) /\ tx = [q \in Procs |-> tx[q]] /\ Typed(db)
  BY DEF TypeInv
<1>3. S \subseteq Rows
  BY <1>1, GoneRows
<1> HIDE DEF S
<1>4. DOMAIN w \subseteq Rows
  BY <1>3 DEF Deletion, Nulled
<1>5. ASSUME NEW x \in DOMAIN w PROVE RowOK(Model[x], w[x])
  <2>1. x \in Rows /\ Model[x] \in AccountModels
    BY <1>4, <1>5, RowsHaveModels
  <2>2. RowOK(Model[x], NoRow(Model[x]))
    BY <2>1, NoRowIsOK
  <2>3. RowOK(Model[x], Overlay([n \in Nulls(S, x) |-> Null], db[x]))
    BY <1>2, <2>1, NullsAreOK, GivenRowIsOK DEF Typed
  <2>4. QED BY <1>5, <2>2, <2>3 DEF Deletion
<1> HIDE DEF w
<1>6. UnitOK(u)
  BY <1>1, <1>2, <1>4, <1>5 DEF UnitOK
<1>7. Only(p) /\ tx'[p] = u
  BY <1>1, <1>2 DEF Only, UnitOK
<1>8. db' = db /\ DOMAIN db = Rows /\ Typed(db)
  BY <1>1 DEF TypeInv
<1>9. QED BY <1>6, <1>7, <1>8, UnitStep

\* The two declarations.
LEMMA DeclarationKeepsTypes ==
    ASSUME TypeInv, NEW p \in Procs, DeclareCreated(p) \/ DeclareModified(p)
    PROVE  TypeInv'
<1> DEFINE t == tx[p]
           declared == IF t.kind = "create" THEN Created(View(p), ModelOf(t), t.rows)
                       ELSE Modified(View(p), ModelOf(t), t.rows, DOMAIN t.values, FALSE)
           u == [pc |-> "flush", kind |-> t.kind, rows |-> t.rows, values |-> t.values,
                 written |-> t.written, pending |-> t.pending \cup declared,
                 fresh |-> t.fresh]
<1>1. /\ tx' = [tx EXCEPT ![p].pc = "flush", ![p].pending = @ \cup declared] /\ UNCHANGED db
      /\ t.pc = "declare"
  BY DEF DeclareCreated, DeclareModified
<1>2. UnitOK(t) /\ tx = [q \in Procs |-> tx[q]]
  BY DEF TypeInv
<1>3. declared \subseteq Fields
  <2>1. PICK r \in t.rows : ModelOf(t) = Model[r]
    BY <1>1, <1>2, TheModelOf DEF UnitOK
  <2>2. Created(View(p), ModelOf(t), t.rows) \subseteq Fields
    BY <1>2, <2>1, CreatedFields DEF UnitOK
  <2>3. Modified(View(p), ModelOf(t), t.rows, DOMAIN t.values, FALSE) \subseteq Fields
    BY DeclaredFields
  <2>4. QED BY <2>2, <2>3
<1> HIDE DEF declared
<1>4. UnitOK(u)
  BY <1>1, <1>2, <1>3 DEF UnitOK
<1>5. Only(p) /\ tx'[p] = u
  BY <1>1, <1>2 DEF Only, UnitOK
<1>6. db' = db /\ DOMAIN db = Rows /\ Typed(db)
  BY <1>1 DEF TypeInv
<1>7. QED BY <1>4, <1>5, <1>6, UnitStep

LEMMA FlushReadKeepsTypes ==
    ASSUME TypeInv, NEW p \in Procs, NEW m, FlushRead(p, m)
    PROVE  TypeInv'
<1> DEFINE t == tx[p]
           batch == Batch(t.pending, m)
           rows == {x[2] : x \in batch} \cap Live(View(p), m)
           fresh == [k \in {x[1] : x \in batch} \X rows |-> Fresh(View(p), k[1], k[2])]
           u == [pc |-> "store", kind |-> t.kind, rows |-> rows, values |-> t.values,
                 written |-> t.written, pending |-> t.pending \ batch, fresh |-> fresh]
<1>1. /\ tx' = [tx EXCEPT ![p].pc = "store", ![p].pending = @ \ batch, ![p].fresh = fresh,
                          ![p].rows = rows]
      /\ UNCHANGED db
  BY DEF FlushRead
<1>2. UnitOK(t) /\ tx = [q \in Procs |-> tx[q]]
  BY DEF TypeInv
<1>3. rows \subseteq Rows /\ \A r \in rows : Model[r] = m
  BY DEF Live
<1>4. \A x \in batch : x[1] \in Stored /\ x[1][1] = m
  BY <1>2 DEF Batch, UnitOK, Fields
<1> HIDE DEF batch, rows
<1>5. \A k \in DOMAIN fresh : k \in Fields /\ k[2] \in rows
  BY <1>3, <1>4 DEF Fields
<1> HIDE DEF fresh
<1>6. UnitOK(u)
  BY <1>2, <1>3, <1>5 DEF UnitOK
<1>7. Only(p) /\ tx'[p] = u
  BY <1>1, <1>2 DEF Only, UnitOK
<1>8. db' = db /\ DOMAIN db = Rows /\ Typed(db)
  BY <1>1 DEF TypeInv
<1>9. QED BY <1>6, <1>7, <1>8, UnitStep

LEMMA StoredRowIsOK ==
    ASSUME NEW m \in AccountModels, NEW f, RowOK(m, f), NEW v, DOMAIN v \subseteq StoredColumns(m)
    PROVE  /\ RowOK(m, Overlay(v, f))
           /\ Overlay(v, f).live = f.live
           /\ \A n \in DOMAIN f : n \notin DOMAIN v => Overlay(v, f)[n] = f[n]
           /\ \A n \in DOMAIN v : Overlay(v, f)[n] = v[n]
<1> DEFINE g == Overlay(v, f)
<1>1. DOMAIN g = DOMAIN v \cup DOMAIN f
      /\ \A n \in DOMAIN g : g[n] = IF n \in DOMAIN v THEN v[n] ELSE f[n]
  BY DEF Overlay
<1> HIDE DEF g
<1>2. "live" \notin DOMAIN v
  BY KeysAreColumns
<1>3. DOMAIN g = Columns[m] \cup StoredColumns(m) \cup {"live"}
  BY <1>1 DEF RowOK
<1>4. g["live"] = f["live"]
  BY <1>1, <1>2, <1>3
<1>5. ASSUME NEW n, <<m, n>> \in DOMAIN Forward PROVE g[n] = f[n]
  BY <1>1, <1>3, <1>5, KeysAreColumns
<1>6. RowOK(m, g)
  BY <1>3, <1>4, <1>5 DEF RowOK
<1>7. QED BY <1>1, <1>4, <1>6 DEF g

\* What the flush of p is about to store.
Refreshed(p) == {r \in tx[p].rows : View(p)[r].live}
Refresh(p)   == {k[1][2] : k \in DOMAIN tx[p].fresh}
Stores(p) ==
    [r \in Refreshed(p) |->
       Overlay([n \in Refresh(p) |-> tx[p].fresh[<<<<Model[r], n>>, r>>]], View(p)[r])]

LEMMA StoresAreOK ==
    ASSUME TypeInv, NEW p \in Procs, tx[p].pc = "store", NEW r \in Refreshed(p)
    PROVE  /\ r \in Rows /\ Refresh(p) \subseteq StoredColumns(Model[r])
           /\ RowOK(Model[r], Stores(p)[r]) /\ Stores(p)[r].live = View(p)[r].live
           /\ \A n \in DOMAIN View(p)[r] : n \notin Refresh(p) => Stores(p)[r][n] = View(p)[r][n]
           /\ \A n \in Refresh(p) : Stores(p)[r][n] = tx[p].fresh[<<<<Model[r], n>>, r>>]
<1> DEFINE v == [n \in Refresh(p) |-> tx[p].fresh[<<<<Model[r], n>>, r>>]]
<1>1. UnitOK(tx[p])
  BY DEF TypeInv
<1>2. r \in Rows /\ Model[r] \in AccountModels
  BY <1>1, RowsHaveModels DEF Refreshed, UnitOK
<1>3. ASSUME NEW n \in Refresh(p) PROVE n \in StoredColumns(Model[r])
  <2>1. PICK k \in DOMAIN tx[p].fresh : n = k[1][2]
    BY DEF Refresh
  <2>2. k[1] \in Stored /\ k[1][1] = Model[r]
    BY <1>1, <2>1 DEF UnitOK, Fields, Refreshed
  <2>3. QED BY <2>1, <2>2 DEF StoredColumns
<1>4. DOMAIN v = Refresh(p) /\ \A n \in Refresh(p) : v[n] = tx[p].fresh[<<<<Model[r], n>>, r>>]
  OBVIOUS
<1>5. Stores(p)[r] = Overlay(v, View(p)[r])
  BY DEF Stores
<1>6. RowOK(Model[r], View(p)[r])
  BY <1>2, ViewIsTyped DEF Typed
<1> HIDE DEF v
<1>7. QED BY <1>2, <1>3, <1>4, <1>5, <1>6, StoredRowIsOK

LEMMA FlushStoreKeepsTypes ==
    ASSUME TypeInv, NEW p \in Procs, FlushStore(p)
    PROVE  TypeInv'
<1> DEFINE t == tx[p]
           w == Overlay(Stores(p), t.written)
           declared == IF Refreshed(p) = {} THEN {}
                       ELSE Modified(Overlay(Stores(p), View(p)), ModelOf(t), t.rows, Refresh(p),
                                     FALSE)
           u == [pc |-> "flush", kind |-> t.kind, rows |-> t.rows, values |-> t.values,
                 written |-> w, pending |-> t.pending \cup declared, fresh |-> Nothing]
<1>1. /\ tx' = [tx EXCEPT ![p].pc = "flush", ![p].fresh = Nothing,
                          ![p].written = Overlay(Stores(p), @), ![p].pending = @ \cup declared]
      /\ UNCHANGED db /\ t.pc = "store"
  BY DEF FlushStore, Stores, Refreshed, Refresh
<1>2. UnitOK(t) /\ tx = [q \in Procs |-> tx[q]]
  BY DEF TypeInv
<1>3. declared \subseteq Fields
  BY DeclaredFields
<1>4. /\ DOMAIN Stores(p) = Refreshed(p)
      /\ \A r \in Refreshed(p) : r \in Rows /\ RowOK(Model[r], Stores(p)[r])
  BY <1>1, StoresAreOK DEF Stores
<1>5. DOMAIN w \subseteq Rows /\ \A r \in DOMAIN w : RowOK(Model[r], w[r])
  BY <1>2, <1>4 DEF UnitOK, Overlay
<1>6. DOMAIN Nothing = {}
  BY DEF Nothing
<1> HIDE DEF declared
<1>7. Only(p) /\ tx'[p] = u
  BY <1>1, <1>2 DEF Only, UnitOK
<1> HIDE DEF w
<1>8. UnitOK(u)
  BY <1>1, <1>2, <1>3, <1>5, <1>6 DEF UnitOK
<1>9. db' = db /\ DOMAIN db = Rows /\ Typed(db)
  BY <1>1 DEF TypeInv
<1>10. QED BY <1>7, <1>8, <1>9, UnitStep

LEMMA EndKeepsTypes ==
    ASSUME TypeInv, NEW p \in Procs, Commit(p) \/ Refuse(p) \/ Rollback(p)
    PROVE  TypeInv'
<1>1. tx' = [tx EXCEPT ![p] = Idle] /\ db' \in {db, View(p)}
  BY DEF Commit, Refuse, Rollback
<1>2. Only(p) /\ tx'[p] = Idle
  BY <1>1 DEF Only, TypeInv
<1>3. DOMAIN db' = Rows /\ Typed(db')
  BY <1>1, ViewIsTyped DEF TypeInv
<1>4. QED BY <1>2, <1>3, IdleIsOK, UnitStep

\* Every step is one of p, by a request or one of the operations above.
LEMMA Steps ==
    ASSUME TypeInv, [Next]_vars
    PROVE  \/ UNCHANGED vars
           \/ \E p \in Procs :
                \/ Begins(p) \/ WriteCreate(p) \/ WriteUpdate(p) \/ WriteDelete(p)
                \/ DeclareCreated(p) \/ DeclareModified(p)
                \/ \E m \in Models : FlushRead(p, m)
                \/ FlushStore(p) \/ Commit(p) \/ Refuse(p) \/ Rollback(p)
<1>1. CASE UNCHANGED vars
  BY <1>1
<1>2. CASE Next
  <2>1. PICK p \in Procs : Request(p) \/ Step(p) \/ Rollback(p)
    BY <1>2 DEF Next
  <2>2. Request(p) => Begins(p)
    BY RequestsBegin
  <2>3. QED BY <2>1, <2>2 DEF Step, Write
<1>3. QED BY <1>1, <1>2

LEMMA TypeStep == TypeInv /\ [Next]_vars => TypeInv'
<1> SUFFICES ASSUME TypeInv, [Next]_vars PROVE TypeInv'
  OBVIOUS
<1>1. CASE UNCHANGED vars
  BY <1>1 DEF vars, TypeInv
<1>2. ASSUME NEW p \in Procs, Begins(p) PROVE TypeInv'
  BY <1>2, BeginsKeepsTypes
<1>3. ASSUME NEW p \in Procs, WriteCreate(p) \/ WriteUpdate(p) \/ WriteDelete(p) PROVE TypeInv'
  BY <1>3, WriteCreateKeepsTypes, WriteUpdateKeepsTypes, WriteDeleteKeepsTypes
<1>4. ASSUME NEW p \in Procs, DeclareCreated(p) \/ DeclareModified(p) PROVE TypeInv'
  BY <1>4, DeclarationKeepsTypes
<1>5. ASSUME NEW p \in Procs, NEW m \in Models, FlushRead(p, m) PROVE TypeInv'
  BY <1>5, FlushReadKeepsTypes
<1>6. ASSUME NEW p \in Procs, FlushStore(p) PROVE TypeInv'
  BY <1>6, FlushStoreKeepsTypes
<1>7. ASSUME NEW p \in Procs, Commit(p) \/ Refuse(p) \/ Rollback(p) PROVE TypeInv'
  BY <1>7, EndKeepsTypes
<1>8. QED BY <1>1, <1>2, <1>3, <1>4, <1>5, <1>6, <1>7, Steps

LEMMA TypeInit == Init => TypeInv
<1> SUFFICES ASSUME Init PROVE TypeInv
  OBVIOUS
<1>1. Typed(db) /\ DOMAIN db = Rows
  BY RowsHaveModels, NoRowIsOK DEF Init, Typed
<1>2. QED BY <1>1, IdleIsOK DEF Init, TypeInv

LEMMA TypeIsKept == Spec => []TypeInv
BY TypeInit, TypeStep, PTL DEF Spec

\* Whatever the account app creates, moves, renames and deletes, and whatever its
\* units of work interleave: a row keeps the columns of its model and its foreign
\* keys point to rows, and a context queues and refreshes only fields of the model of
\* the row (`_pending` of RefreshComputedFieldsContext).
THEOREM TypesAreKept == Spec => []TypeOK
<1>1. TypeInv => TypeOK
  <2> SUFFICES ASSUME TypeInv PROVE TypeOK
    OBVIOUS
  <2>1. ASSUME NEW r \in Rows
        PROVE  /\ Columns[Model[r]] \subseteq DOMAIN db[r] /\ db[r].live \in BOOLEAN
               /\ \A k \in DOMAIN Forward : Model[r] = k[1] => db[r][k[2]] \in Rows \cup {Null}
    <3>1. RowOK(Model[r], db[r])
      BY DEF TypeInv, Typed
    <3>2. \A k \in DOMAIN Forward : k = <<k[1], k[2]>>
      BY TheKeys
    <3>3. QED BY <3>1, <3>2 DEF RowOK
  <2>2. QED BY <2>1 DEF TypeInv, TypeOK, UnitOK, Fields
<1>2. QED BY <1>1, TypeIsKept, PTL

--------------------------------------------------------------------------------
(***************************************************************************)
(* The order of a flush.                                                   *)
(***************************************************************************)
\* A set of numbers has a least one.
LEMMA Least ==
    ASSUME NEW T, T \subseteq Nat, T # {}
    PROVE  \E n \in T : \A m \in T : n <= m
<1> DEFINE up(n) == {i \in Nat : i < n}
           U == {up(n) : n \in T}
<1>1. ASSUME NEW n \in Nat PROVE IsFiniteSet(up(n)) /\ up(n) \subseteq Nat
  <2>1. up(n) = 0..(n - 1)
    OBVIOUS
  <2>2. n - 1 \in Int /\ 0 \in Int
    OBVIOUS
  <2>3. IsFiniteSet(0..(n - 1))
    BY <2>2, FS_Interval
  <2>4. QED BY <2>1, <2>3
<1>2. U \subseteq FiniteSubsetsOf(Nat) /\ U # {}
  BY <1>1 DEF FiniteSubsetsOf
<1>3. PICK X \in U : \A Y \in U : ~(<<Y, X>> \in StrictSubsetOrdering(Nat))
  <2>1. IsWellFoundedOn(StrictSubsetOrdering(Nat), FiniteSubsetsOf(Nat))
    BY FS_StrictSubsetOrderingWellFounded
  <2>2. QED BY <1>2, <2>1, WFMin, Zenon
<1>4. PICK n \in T : X = up(n)
  OBVIOUS
<1>5. ASSUME NEW m \in T, m < n PROVE FALSE
  <2>1. up(m) \subseteq up(n) /\ up(m) # up(n) /\ up(m) \in U
    BY <1>5
  <2>2. up(m) \subseteq Nat /\ up(n) \subseteq Nat
    OBVIOUS
  <2>3. <<up(m), up(n)>> \in StrictSubsetOrdering(Nat)
    BY <2>1, <2>2 DEF StrictSubsetOrdering
  <2>4. QED BY <1>3, <1>4, <2>1, <2>3
<1>6. QED BY <1>5

LEMMA LevelIsLeast ==
    ASSUME NEW S, S \subseteq Fields, S # {}
    PROVE  \A x \in S : Level(S) <= Depth[x[1]]
<1> DEFINE T == {Depth[x[1]] : x \in S}
<1>1. T \subseteq Nat /\ T # {}
  BY DepthAssumption DEF Fields
<1>2. Level(S) = CHOOSE n \in T : \A i \in T : n <= i
  BY DEF Level, Min
<1> HIDE DEF T
<1>3. \A i \in T : Level(S) <= i
  BY <1>1, <1>2, Least
<1>4. QED BY <1>3 DEF T

\* What a flush has read is of one depth, and nothing shallower is pending.
DepthInv ==
    \A p \in Procs : tx[p].pc = "store" =>
      \E level : /\ \A k \in DOMAIN tx[p].fresh : Depth[k[1]] = level
                 /\ \A x \in tx[p].pending : level <= Depth[x[1]]

LEMMA DepthStep == TypeInv /\ DepthInv /\ [Next]_vars => DepthInv'
<1> SUFFICES ASSUME TypeInv, DepthInv, [Next]_vars PROVE DepthInv'
  OBVIOUS
<1>1. ASSUME NEW p \in Procs, \A q \in Procs \ {p} : tx'[q] = tx[q],
             tx'[p].pc = "store" =>
               \E level : /\ \A k \in DOMAIN tx'[p].fresh : Depth[k[1]] = level
                          /\ \A x \in tx'[p].pending : level <= Depth[x[1]]
      PROVE  DepthInv'
  BY <1>1 DEF DepthInv
<1>2. CASE UNCHANGED vars
  BY <1>2 DEF vars, DepthInv
<1>3. ASSUME NEW p \in Procs, NEW m \in Models, FlushRead(p, m) PROVE DepthInv'
  <2> DEFINE t == tx[p]
             batch == Batch(t.pending, m)
             rows == {x[2] : x \in batch} \cap Live(View(p), m)
             fresh == [k \in {x[1] : x \in batch} \X rows |-> Fresh(View(p), k[1], k[2])]
  <2>1. /\ tx' = [tx EXCEPT ![p].pc = "store", ![p].pending = @ \ batch, ![p].fresh = fresh,
                            ![p].rows = rows]
        /\ batch # {}
    BY <1>3 DEF FlushRead
  <2>2. UnitOK(t) /\ tx = [q \in Procs |-> tx[q]]
    BY DEF TypeInv
  <2>3. \A k \in DOMAIN fresh : Depth[k[1]] = Level(t.pending)
    BY DEF Batch
  <2>4. t.pending \subseteq Fields /\ t.pending # {}
    BY <2>1, <2>2 DEF Batch, UnitOK
  <2>5. \A x \in t.pending : Level(t.pending) <= Depth[x[1]]
    BY <2>4, LevelIsLeast
  <2> HIDE DEF batch, rows, fresh
  <2>6. /\ \A q \in Procs \ {p} : tx'[q] = tx[q]
        /\ tx'[p].fresh = fresh /\ tx'[p].pending = t.pending \ batch
    BY <2>1, <2>2 DEF UnitOK
  <2>7. QED BY <1>1, <2>3, <2>5, <2>6
<1>4. ASSUME NEW p \in Procs, tx'[p].pc # "store", \A q \in Procs \ {p} : tx'[q] = tx[q]
      PROVE  DepthInv'
  BY <1>1, <1>4
<1>5. ASSUME NEW p \in Procs,
             \/ Begins(p) \/ WriteCreate(p) \/ WriteUpdate(p) \/ WriteDelete(p)
             \/ DeclareCreated(p) \/ DeclareModified(p)
             \/ FlushStore(p) \/ Commit(p) \/ Refuse(p) \/ Rollback(p)
      PROVE  tx'[p].pc # "store" /\ \A q \in Procs \ {p} : tx'[q] = tx[q]
  <2>1. tx = [q \in Procs |-> tx[q]] /\ UnitOK(tx[p])
    BY DEF TypeInv
  <2>2. CASE Begins(p)
    BY <2>1, <2>2 DEF Begins, Begin
  <2>3. CASE WriteCreate(p) \/ WriteUpdate(p)
    BY <2>1, <2>3 DEF WriteCreate, WriteUpdate, UnitOK
  <2>4. CASE WriteDelete(p)
    BY <2>1, <2>4 DEF WriteDelete, UnitOK
  <2>5. CASE DeclareCreated(p) \/ DeclareModified(p)
    BY <2>1, <2>5 DEF DeclareCreated, DeclareModified, UnitOK
  <2>6. CASE FlushStore(p)
    BY <2>1, <2>6 DEF FlushStore, UnitOK
  <2>7. CASE Commit(p) \/ Refuse(p) \/ Rollback(p)
    BY <2>1, <2>7 DEF Commit, Refuse, Rollback, Idle
  <2>8. QED BY <1>5, <2>2, <2>3, <2>4, <2>5, <2>6, <2>7
<1>6. QED BY <1>2, <1>3, <1>4, <1>5, Steps

\* What a store queues reads what it stored.
LEMMA StoreQueuesReaders ==
    ASSUME TypeInv, NEW p \in Procs, FlushStore(p), NEW x \in tx'[p].pending \ tx[p].pending
    PROVE  x[1] \in Stored /\ \E k \in DOMAIN tx[p].fresh : k[1] \in Reads(x[1])
<1> DEFINE t == tx[p]
           m == ModelOf(t)
           W == Overlay(Stores(p), View(p))
           declared == Modified(W, m, t.rows, Refresh(p), FALSE)
<1>1. UnitOK(t) /\ tx = [q \in Procs |-> tx[q]] /\ t.pc = "store"
  BY DEF TypeInv, FlushStore
<1>2. tx'[p].pending = t.pending \cup IF Refreshed(p) = {} THEN {} ELSE declared
  <2>1. tx' = [tx EXCEPT ![p].pc = "flush", ![p].fresh = Nothing,
                         ![p].written = Overlay(Stores(p), @),
                         ![p].pending = @ \cup IF Refreshed(p) = {} THEN {} ELSE declared]
    BY DEF FlushStore, Stores, Refreshed, Refresh
  <2> HIDE DEF declared
  <2>2. QED BY <1>1, <2>1 DEF UnitOK
<1>3. x \in declared /\ Refreshed(p) # {}
  BY <1>2
<1>4. \A r \in t.rows : Model[r] = m
  BY <1>1, <1>3, TheModelOf DEF Refreshed, UnitOK
<1> HIDE DEF m, W
<1>5. PICK b \in Bindings : /\ b.watched = m /\ b.triggers \cap Refresh(p) # {}
                            /\ x[1] = b.field
  BY <1>3 DEF Modified, Resolve
<1>6. PICK n \in b.triggers : n \in Refresh(p)
  BY <1>5
<1>7. PICK k \in DOMAIN t.fresh : n = k[1][2]
  BY <1>6 DEF Refresh
<1>8. k[1] \in Stored /\ k[1][1] = m
  BY <1>1, <1>4, <1>7 DEF UnitOK, Fields
<1>9. k[1] = <<m, n>>
  BY <1>7, <1>8, TheStored
<1>10. k[1] \in Reads(b.field)
  BY <1>5, <1>6, <1>8, <1>9 DEF Reads
<1>11. b.field \in Stored
  BY DEF Bindings, Binding
<1>12. QED BY <1>5, <1>10, <1>11

\* The step that FlushGoesDeeper requires.
GoesDeeper ==
    \A p \in Procs : tx[p].pc = "store" =>
      \A k \in DOMAIN tx[p].fresh :
        /\ \A x \in tx[p].pending : Depth[k[1]] <= Depth[x[1]]
        /\ \A x \in tx'[p].pending \ tx[p].pending : Depth[k[1]] < Depth[x[1]]

LEMMA DeeperStep == TypeInv /\ DepthInv /\ [Next]_vars => GoesDeeper
<1> SUFFICES ASSUME TypeInv, DepthInv, [Next]_vars,
                    NEW p \in Procs, tx[p].pc = "store", NEW k \in DOMAIN tx[p].fresh
             PROVE  /\ \A x \in tx[p].pending : Depth[k[1]] <= Depth[x[1]]
                    /\ \A x \in tx'[p].pending \ tx[p].pending : Depth[k[1]] < Depth[x[1]]
  BY DEF GoesDeeper
<1>1. PICK level : /\ \A l \in DOMAIN tx[p].fresh : Depth[l[1]] = level
                   /\ \A x \in tx[p].pending : level <= Depth[x[1]]
  BY DEF DepthInv
<1>2. ASSUME NEW x \in tx'[p].pending \ tx[p].pending PROVE Depth[k[1]] < Depth[x[1]]
  <2>1. tx = [q \in Procs |-> tx[q]] /\ UnitOK(tx[p])
    BY DEF TypeInv
  <2>2. FlushStore(p)
    <3>1. CASE UNCHANGED vars
      BY <1>2, <3>1 DEF vars
    <3>2. ASSUME NEW q \in Procs, Begins(q) PROVE FALSE
      <4>1. tx[q].pc = "idle" /\ \A o \in Procs \ {q} : tx'[o] = tx[o]
        BY <2>1, <3>2 DEF Begins, Begin
      <4>2. QED BY <1>2, <4>1
    <3>3. ASSUME NEW q \in Procs, WriteCreate(q) \/ WriteUpdate(q) \/ WriteDelete(q) PROVE FALSE
      <4>1. tx[q].pc = "write"
        BY <3>3 DEF WriteCreate, WriteUpdate, WriteDelete
      <4>2. \A o \in Procs \ {q} : tx'[o] = tx[o]
        BY <2>1, <3>3 DEF WriteCreate, WriteUpdate, WriteDelete
      <4>3. QED BY <1>2, <4>1, <4>2
    <3>4. ASSUME NEW q \in Procs, DeclareCreated(q) \/ DeclareModified(q) PROVE FALSE
      <4>1. tx[q].pc = "declare" /\ \A o \in Procs \ {q} : tx'[o] = tx[o]
        BY <2>1, <3>4 DEF DeclareCreated, DeclareModified
      <4>2. QED BY <1>2, <4>1
    <3>5. ASSUME NEW q \in Procs, NEW m \in Models, FlushRead(q, m) PROVE FALSE
      <4>1. tx[q].pc = "flush" /\ \A o \in Procs \ {q} : tx'[o] = tx[o]
        BY <2>1, <3>5 DEF FlushRead
      <4>2. QED BY <1>2, <4>1
    <3>6. ASSUME NEW q \in Procs, Commit(q) \/ Refuse(q) \/ Rollback(q) PROVE FALSE
      <4>1. tx' = [tx EXCEPT ![q] = Idle]
        BY <3>6 DEF Commit, Refuse, Rollback
      <4>2. tx'[p] = Idle \/ tx'[p] = tx[p]
        BY <2>1, <4>1
      <4>3. Idle.pending = {}
        BY DEF Idle
      <4>4. QED BY <1>2, <4>2, <4>3
    <3>7. ASSUME NEW q \in Procs, FlushStore(q) PROVE q = p
      <4>1. \A o \in Procs \ {q} : tx'[o] = tx[o]
        BY <2>1, <3>7 DEF FlushStore
      <4>2. QED BY <1>2, <4>1
    <3>8. QED BY <3>1, <3>2, <3>3, <3>4, <3>5, <3>6, <3>7, Steps
  <2>3. PICK l \in DOMAIN tx[p].fresh : l[1] \in Reads(x[1]) /\ x[1] \in Stored
    BY <1>2, <2>2, StoreQueuesReaders
  <2>4. Depth[l[1]] < Depth[x[1]]
    BY <2>3, DepthAssumption
  <2>5. Depth[l[1]] = Depth[k[1]]
    BY <1>1
  <2>6. QED BY <2>4, <2>5
<1>3. QED BY <1>1, <1>2

\* Whatever the units of work: a flush refreshes no field while a shallower one is
\* pending, and what it stores queues deeper fields only, so each round of the loop
\* of `flush` reads final values and the loop ends.
THEOREM FlushesGoDeeper == Spec => FlushGoesDeeper
<1>1. Init => DepthInv
  BY DEF Init, DepthInv, Idle
<1>2. FlushGoesDeeper <=> [][GoesDeeper]_vars
  BY DEF FlushGoesDeeper, GoesDeeper
<1>3. TypeInv /\ DepthInv /\ [Next]_vars => [GoesDeeper]_vars
  BY DeeperStep
<1>4. QED BY <1>1, <1>2, <1>3, TypeIsKept, DepthStep, PTL DEF Spec

--------------------------------------------------------------------------------
(***************************************************************************)
(* The stored columns in sync, for units of work that run one at a time.   *)
(*                                                                         *)
(* Between a write and the end of the flush, a stored field is either what *)
(* its method gives on the rows the transaction sees, or queued.           *)
(***************************************************************************)
Settled(V, S) ==
    \A c \in Stored : \A r \in Live(V, c[1]) : V[r][c[2]] = Fresh(V, c, r) \/ <<c, r>> \in S

\* What the declaration that follows the write will queue.
Declared(V, t) ==
    IF t.kind = "create" THEN Created(V, ModelOf(t), t.rows)
    ELSE Modified(V, ModelOf(t), t.rows, DOMAIN t.values, FALSE)

\* What a flush has read of the rows V.
ReadFrom(V, t) ==
    \E F \in SUBSET Stored :
      /\ DOMAIN t.fresh = F \X t.rows
      /\ \A k \in DOMAIN t.fresh : k[2] \in Live(V, k[1][1])
                                  /\ t.fresh[k] = Fresh(V, k[1], k[2])

UnitInSync(V, t) ==
    /\ t.pc = "write" =>
         /\ t.written = Nothing
         /\ \E m \in AccountModels : RequestOK(t.kind, m, t.rows, t.values, t.pending)
    /\ t.pc = "declare" =>
         Anchored(V) /\ t.kind \in {"create", "update"} /\ Settled(V, t.pending \cup Declared(V, t))
    /\ t.pc = "flush" => Anchored(V) /\ Settled(V, t.pending)
    /\ t.pc = "store" =>
         Anchored(V) /\ ReadFrom(V, t) /\ Settled(V, t.pending \cup DOMAIN t.fresh)

SyncInv == InSync /\ Anchored(db) /\ \A p \in Procs : UnitInSync(View(p), tx[p])

LEMMA InputsAreColumns ==
    ASSUME NEW c \in Stored
    PROVE  /\ Source(c) \in AccountModels /\ Keys(c) \subseteq Columns[Source(c)]
           /\ Inputs(c) \subseteq Columns[Source(c)] \cup StoredColumns(Source(c))
           /\ c # PositionName => Key(c) \in Keys(c)
           /\ "category" \notin Inputs(c)
<1> USE DEF Field, AccountModels
<1> USE DEF TotalDebit, TotalCredit, PlannedAmount, PracticalAmount, PositionName, Planned,
            Practical
<1>1. CASE c = TotalDebit \/ c = TotalCredit
  BY <1>1, TheFields, TheColumns
<1>2. CASE c = PlannedAmount \/ c = PracticalAmount
  BY <1>2, TheFields, TheColumns, TheStoredColumns
<1>3. CASE c = PositionName
  BY <1>3, TheFields, TheColumns
<1>4. CASE c = Planned
  BY <1>4, TheFields, TheColumns
<1>5. CASE c = Practical
  BY <1>5, TheFields, TheColumns
<1>6. QED BY <1>1, <1>2, <1>3, <1>4, <1>5, SevenFields

LEMMA FieldsAreColumns ==
    ASSUME NEW c \in Stored
    PROVE  c[2] \in StoredColumns(c[1]) /\ c[1] \in {"account", "budget", "position"}
BY TheStored DEF StoredColumns

\* A method gives the same when the rows it uses, before or after, are not touched.
LEMMA Untouched ==
    ASSUME NEW V, NEW W, NEW c \in Stored, NEW r,
           c \in {PositionName, Practical} => V[r].category = W[r].category,
           c = Practical => /\ V[r].budget = W[r].budget
                            /\ V[V[r].budget].account = W[V[r].budget].account,
           \A x \in Rows : Uses(V, c, r, x) \/ Uses(W, c, r, x) =>
             V[x].live = W[x].live /\ \A n \in Inputs(c) \cup Keys(c) : V[x][n] = W[x][n]
    PROVE  Agree(V, W, c, r)
<1>1. ASSUME NEW x \in Rows PROVE Uses(V, c, r, x) <=> Uses(W, c, r, x)
  <2>1. CASE c = PositionName
    BY <2>1 DEF Uses
  <2>2. CASE c # PositionName
    <3>1. Key(c) \in Keys(c)
      BY <2>2, InputsAreColumns
    <3>2. Uses(V, c, r, x) \/ Uses(W, c, r, x)
            => V[x].live = W[x].live /\ V[x][Key(c)] = W[x][Key(c)]
      BY <3>1
    <3>3. QED BY <2>2, <3>2 DEF Uses, Live
  <2>3. QED BY <2>1, <2>2
<1>2. QED BY <1>1 DEF Agree

\* What is neither queued nor touched stays what its method gives.
LEMMA StaysSettled ==
    ASSUME NEW V, NEW W, NEW S, Settled(V, S), Anchored(V), NEW c \in Stored,
           NEW r \in Live(V, c[1]), <<c, r>> \notin S, W[r][c[2]] = V[r][c[2]], Agree(V, W, c, r)
    PROVE  W[r][c[2]] = Fresh(W, c, r)
<1>1. V[r][c[2]] = Fresh(V, c, r)
  BY DEF Settled
<1>2. r \in Rows /\ (c = PositionName => V[r].category \in Rows)
  BY DEF Live, Anchored, PositionName
<1>3. Fresh(V, c, r) = Fresh(W, c, r)
  BY <1>2, AgreedIsSame
<1>4. QED BY <1>1, <1>3

\* A new row: its own fields and those that use it are declared.
LEMMA CreationSettles ==
    ASSUME NEW V, Anchored(V), Settled(V, {}), NEW x0 \in Rows, ~V[x0].live,
           NEW W, Anchored(W), \A x \in Rows \ {x0} : W[x] = V[x]
    PROVE  Settled(W, Created(W, Model[x0], {x0}))
<1> SUFFICES ASSUME NEW c \in Stored, NEW r \in Live(W, c[1]),
                    <<c, r>> \notin Created(W, Model[x0], {x0})
             PROVE  W[r][c[2]] = Fresh(W, c, r)
  BY DEF Settled
<1>1. r # x0
  BY DEF Created, Live
<1>2. r \in Rows /\ r \in Live(V, c[1]) /\ W[r] = V[r]
  BY <1>1 DEF Live
<1>3. ASSUME c[1] = "position"
      PROVE  V[r].category \in Rows \ {x0} /\ V[r].budget \in Rows \ {x0}
  BY <1>2, <1>3 DEF Anchored, Live
<1>4. ~Uses(W, c, r, x0)
  <2> SUFFICES ASSUME Uses(W, c, r, x0) PROVE FALSE
    OBVIOUS
  <2>1. Model[x0] = Source(c)
    BY UsedIsReached DEF Live
  <2>2. <<c, r>> \in ExistenceChanged(W, Source(c), {x0})
    BY QueuedByExistence
  <2>3. QED BY <2>1, <2>2 DEF Created
<1>5. ~Uses(V, c, r, x0)
  BY <1>2, UsedIsReached DEF Live
<1>6. c \in {PositionName, Practical} => c[1] = "position"
  BY DEF PositionName, Practical
<1>7. Agree(V, W, c, r)
  <2>1. \A x \in Rows : Uses(V, c, r, x) \/ Uses(W, c, r, x) => V[x] = W[x]
    BY <1>4, <1>5
  <2>2. c = Practical => V[V[r].budget] = W[V[r].budget]
    BY <1>3, <1>6
  <2>3. QED BY <1>2, <2>1, <2>2, Untouched
<1>8. QED BY <1>2, <1>7, StaysSettled

\* W is V but for the columns `names` of the rows R.
Rewritten(V, W, R, names) ==
    \A x \in Rows :
      /\ V[x].live = W[x].live
      /\ \A n \in Columns[Model[x]] \cup StoredColumns(Model[x]) :
           x \notin R \/ n \notin names => V[x][n] = W[x][n]

\* A field that uses a rewritten row is queued by the write, or by the move of the row.
LEMMA RewrittenOrQueued ==
    ASSUME NEW V, Anchored(V), NEW W, Anchored(W), NEW m, NEW R, \A x \in R : Model[x] = m,
           NEW names, Rewritten(V, W, R, names), m = "position" => "budget" \notin names,
           m = "budget" => "account" \notin names, NEW c \in Stored, NEW r \in Live(V, c[1]),
           <<c, r>> \notin Modified(W, m, R, names, FALSE),
           Source(c) = m /\ Keys(c) \cap names # {}
             => <<c, r>> \notin Modified(V, m, R, names, TRUE)
    PROVE  Agree(V, W, c, r)
<1>1. r \in Rows /\ Model[r] = c[1] /\ r \in Live(W, c[1])
  BY DEF Live, Rewritten
<1>2. c \in {PositionName, Practical} => c[1] = "position"
  BY DEF PositionName, Practical
<1>3. ASSUME c \in {PositionName, Practical} PROVE V[r].category = W[r].category
  <2>1. CASE r \in R /\ "category" \in names
    <3>1. <<c, r>> \in Modified(W, "position", R, names, FALSE)
      BY <1>1, <1>2, <1>3, <2>1, QueuedByCategory
    <3>2. QED BY <1>1, <1>2, <1>3, <2>1, <3>1
  <2>2. CASE r \notin R \/ "category" \notin names
    <3>1. "category" \in Columns[Model[r]]
      BY <1>1, <1>2, <1>3, TheColumns
    <3>2. V[r]["category"] = W[r]["category"]
      BY <1>1, <2>2, <3>1 DEF Rewritten
    <3>3. QED BY <3>2
  <2>3. QED BY <2>1, <2>2
<1>4. ASSUME c = Practical
      PROVE  V[r].budget = W[r].budget /\ V[V[r].budget].account = W[V[r].budget].account
  <2>1. Model[r] = "position"
    BY <1>1, <1>2, <1>4
  <2>2. V[r]["budget"] = W[r]["budget"]
    BY <1>1, <2>1, TheColumns DEF Rewritten
  <2> DEFINE b == V[r].budget
  <2>3. b \in Rows /\ Model[b] = "budget"
    BY <1>2, <1>4 DEF Anchored, Live
  <2> HIDE DEF b
  <2>4. V[b]["account"] = W[b]["account"]
    BY <2>3, TheColumns DEF Rewritten
  <2>5. QED BY <2>2, <2>4 DEF b
<1>5. ASSUME NEW x \in Rows, Uses(V, c, r, x) \/ Uses(W, c, r, x), NEW n \in Inputs(c) \cup Keys(c)
      PROVE  V[x][n] = W[x][n]
  <2>1. Model[x] = Source(c) /\ x \in Rows
    BY <1>1, <1>5, UsedIsReached DEF Live
  <2>2. n \in Columns[Model[x]] \cup StoredColumns(Model[x])
    BY <2>1, InputsAreColumns
  <2> SUFFICES ASSUME x \in R, n \in names PROVE FALSE
    BY <2>1, <2>2 DEF Rewritten
  <2>3. Source(c) = m
    BY <2>1
  <2>4. ~Uses(W, c, r, x)
    BY <1>1, <2>3, QueuedByWrite
  <2>5. Uses(V, c, r, x)
    BY <1>5, <2>4
  <2>6. CASE Keys(c) \cap names # {}
    <3>1. PICK k \in Keys(c) : k \in names
      BY <2>6
    <3>2. <<c, r>> \in Modified(V, Source(c), R, names, TRUE)
      BY <2>5, <3>1, QueuedByMove
    <3>3. QED BY <2>3, <2>6, <3>2
  <2>7. CASE Keys(c) \cap names = {}
    <3>1. CASE c = PositionName
      BY <1>3, <2>4, <2>5, <3>1 DEF Uses
    <3>2. CASE c # PositionName
      <4>1. Key(c) \notin names /\ Key(c) \in Columns[Model[x]]
        BY <2>1, <2>7, <3>2, InputsAreColumns
      <4>2. V[x][Key(c)] = W[x][Key(c)] /\ V[x].live = W[x].live
        BY <4>1 DEF Rewritten
      <4>3. QED BY <1>3, <2>4, <2>5, <3>2, <4>2 DEF Uses, Live
    <3>3. QED BY <3>1, <3>2
  <2>8. QED BY <2>6, <2>7
<1>6. \A x \in Rows : V[x].live = W[x].live
  BY DEF Rewritten
<1>7. QED BY <1>3, <1>4, <1>5, <1>6, Untouched

\* W is V without the rows G, to which the movements have lost their references.
Removed(V, W, G) ==
    \A x \in Rows :
      /\ x \in G => ~W[x].live
      /\ x \notin G =>
           /\ V[x].live = W[x].live
           /\ \A n \in Columns[Model[x]] \cup StoredColumns(Model[x]) :
                \/ V[x][n] = W[x][n]
                \/ Model[x] = "movement" /\ n = "category" /\ V[x][n] \in G /\ W[x][n] = Null

LEMMA StaysAnchored ==
    ASSUME NEW V, Typed(V), Anchored(V), NEW S, S \subseteq Rows, NEW W,
           Removed(V, W, Collected(V, S)), NEW r \in Live(W, "position")
    PROVE  /\ r \in Live(V, "position")
           /\ W[r].category = V[r].category /\ W[r].category \in Live(W, "category")
           /\ W[r].budget = V[r].budget /\ W[r].budget \in Live(W, "budget")
<1> DEFINE G == Collected(V, S)
<1>1. r \in Rows /\ Model[r] = "position" /\ r \notin G /\ r \in Live(V, "position")
  BY DEF Live, Removed
<1>2. V[r].category \notin G /\ V[r].budget \notin G
  BY <1>1, PositionsFollow
<1>3. V[r].category \in Live(V, "category") /\ V[r].budget \in Live(V, "budget")
  BY <1>1 DEF Anchored
<1> HIDE DEF G
<1>4. Removed(V, W, G)
  BY DEF G
<1>5. V[r]["category"] = W[r]["category"] /\ V[r]["budget"] = W[r]["budget"]
  BY <1>1, <1>4, TheColumns DEF Removed
<1>6. V[r].category \in Live(W, "category") /\ V[r].budget \in Live(W, "budget")
  BY <1>2, <1>3, <1>4 DEF Live, Removed
<1>7. QED BY <1>1, <1>5, <1>6

\* A deletion: the fields that use a deleted row have been collected before it.
LEMMA DeletionSettles ==
    ASSUME NEW V, Typed(V), Anchored(V), Settled(V, {}), NEW m \in AccountModels, NEW S,
           S \subseteq Rows, \A x \in S : Model[x] = m, NEW W, Removed(V, W, Collected(V, S))
    PROVE  Anchored(W) /\ Settled(W, Deleted(V, m, S))
<1>1. Anchored(W)
  BY StaysAnchored DEF Anchored
<1> DEFINE G == Collected(V, S)
<1> SUFFICES ASSUME NEW c \in Stored, NEW r \in Live(W, c[1]), <<c, r>> \notin Deleted(V, m, S)
             PROVE  W[r][c[2]] = Fresh(W, c, r)
  BY <1>1 DEF Settled
<1>2. \A x \in G : ~Uses(V, c, r, x) \/ r \notin Live(V, c[1])
  BY QueuedByDeletion
<1>3. ASSUME c[1] = "position"
      PROVE  /\ W[r].category = V[r].category /\ V[r].category \in Rows \ (G \cup {Null})
             /\ W[r].budget = V[r].budget /\ V[r].budget \in Rows \ G
             /\ Model[V[r].budget] = "budget"
  <2>1. /\ r \in Live(V, "position") /\ W[r].category = V[r].category
        /\ W[r].category \in Live(W, "category") /\ W[r].budget = V[r].budget
        /\ W[r].budget \in Live(W, "budget")
    BY <1>3, StaysAnchored
  <2>2. \A x \in Rows : W[x].live => x \notin G
    BY DEF Live, Removed
  <2>3. QED BY <2>1, <2>2, AccountAssumption DEF Live
<1> HIDE DEF G
<1>4. Removed(V, W, G)
  BY DEF G
<1>5. r \in Rows /\ Model[r] = c[1] /\ r \notin G /\ r \in Live(V, c[1])
  BY <1>4 DEF Live, Removed
<1>6. W[r][c[2]] = V[r][c[2]]
  <2>1. c[2] \in StoredColumns(Model[r]) /\ Model[r] # "movement"
    BY <1>5, FieldsAreColumns
  <2>2. QED BY <1>4, <1>5, <2>1 DEF Removed
<1>7. c \in {PositionName, Practical} => c[1] = "position"
  BY DEF PositionName, Practical
<1>8. ASSUME c = Practical PROVE V[V[r].budget].account = W[V[r].budget].account
  <2> DEFINE b == V[r].budget
  <2>1. b \in Rows \ G /\ Model[b] = "budget"
    BY <1>3, <1>7, <1>8
  <2> HIDE DEF b
  <2>2. V[b]["account"] = W[b]["account"]
    BY <1>4, <2>1, TheColumns DEF Removed
  <2>3. QED BY <2>2 DEF b
<1>9. ASSUME NEW x \in Rows, Uses(V, c, r, x) \/ Uses(W, c, r, x)
      PROVE  V[x].live = W[x].live /\ \A n \in Inputs(c) \cup Keys(c) : V[x][n] = W[x][n]
  <2>1. x \in G => ~Uses(W, c, r, x)
    BY <1>1, <1>4, UsedIsReached DEF Live, Removed
  <2>2. x \notin G
    BY <1>2, <1>5, <1>9, <2>1
  <2>3. Model[x] = Source(c)
    BY <1>1, <1>5, <1>9, UsedIsReached DEF Live
  <2>4. ASSUME NEW n \in Inputs(c) \cup Keys(c), V[x][n] # W[x][n] PROVE FALSE
    <3>1. n \in Columns[Model[x]] \cup StoredColumns(Model[x])
      BY <2>3, InputsAreColumns
    <3>2. n = "category" /\ V[x][n] \in G /\ W[x][n] = Null
      BY <1>4, <2>2, <2>4, <3>1 DEF Removed
    <3>3. c # PositionName /\ Key(c) = n
      BY <3>2, InputsAreColumns DEF Keys
    <3>4. c = Practical
      BY <3>2, <3>3, SevenFields, TheFields
        DEF Key, TotalDebit, TotalCredit, PlannedAmount, PracticalAmount, PositionName, Planned,
            Practical
    <3>5. V[x][n] = V[r].category \/ W[x][n] = W[r].category
      BY <1>9, <3>3, <3>4 DEF Uses
    <3>6. QED BY <1>3, <1>7, <3>2, <3>4, <3>5
  <2>5. QED BY <1>4, <2>2, <2>4 DEF Removed
<1>10. Agree(V, W, c, r)
  BY <1>3, <1>7, <1>8, <1>9, Untouched
<1>11. QED BY <1>5, <1>6, <1>10, StaysSettled

LEMMA NextView ==
    ASSUME TypeInv', NEW p \in Procs, UNCHANGED db
    PROVE  /\ View(p)' = Overlay(tx'[p].written, db)
           /\ \A r \in Rows : View(p)'[r] = IF r \in DOMAIN tx'[p].written THEN tx'[p].written[r]
                                             ELSE db[r]
BY DEF View, Overlay, TypeInv

LEMMA SyncUnit ==
    ASSUME NEW p, Procs = {p}, SyncInv, UNCHANGED db, UnitInSync(View(p), tx[p])'
    PROVE  SyncInv'
<1>1. InSync' /\ Anchored(db)'
  BY DEF SyncInv, InSync
<1>2. QED BY <1>1 DEF SyncInv

LEMMA MoreIsSettled ==
    ASSUME NEW V, NEW S, NEW T, Settled(V, S), S \subseteq T
    PROVE  Settled(V, T)
BY DEF Settled

LEMMA BeginInSync ==
    ASSUME NEW p, Procs = {p}, TypeInv, SyncInv, Begins(p)
    PROVE  SyncInv'
<1>1. PICK kind, m, rows, values, pending :
        Begin(p, kind, rows, values, pending) /\ RequestOK(kind, m, rows, values, pending)
  BY DEF Begins
<1> DEFINE t == [pc |-> "write", kind |-> kind, rows |-> rows, values |-> values,
                 written |-> Nothing, pending |-> pending, fresh |-> Nothing]
<1>2. tx' = [tx EXCEPT ![p] = t] /\ UNCHANGED db
  BY <1>1 DEF Begin
<1>3. tx'[p] = t
  BY <1>2 DEF TypeInv
<1>4. m \in AccountModels
  BY <1>1, RowsHaveModels DEF RequestOK
<1>5. RequestOK(kind, m, rows, values, pending)'
  BY <1>1, <1>2 DEF RequestOK, CreationOK, UpdateOK, DeletionOK
<1>6. UnitInSync(View(p), t)'
  BY <1>4, <1>5 DEF UnitInSync
<1> HIDE DEF t
<1>7. UnitInSync(View(p), tx[p])'
  BY <1>3, <1>6
<1>8. QED BY <1>2, <1>7, SyncUnit

LEMMA EndInSync ==
    ASSUME NEW p, Procs = {p}, TypeInv, SyncInv, Commit(p) \/ Refuse(p) \/ Rollback(p)
    PROVE  SyncInv'
<1>1. tx' = [tx EXCEPT ![p] = Idle]
  BY DEF Commit, Refuse, Rollback
<1>2. tx'[p].pc = "idle"
  BY <1>1 DEF TypeInv, Idle
<1>3. UnitInSync(View(p), tx[p])'
  BY <1>2 DEF UnitInSync
<1>4. CASE Refuse(p) \/ Rollback(p)
  <2>1. UNCHANGED db
    BY <1>4 DEF Refuse, Rollback
  <2>2. QED BY <1>3, <2>1, SyncUnit
<1>5. CASE Commit(p)
  <2>1. tx[p].pc = "flush" /\ tx[p].pending = {} /\ db' = View(p)
    BY <1>5 DEF Commit
  <2>2. Anchored(View(p)) /\ Settled(View(p), {})
    BY <2>1 DEF SyncInv, UnitInSync
  <2>3. Settled(db, {})' /\ Anchored(db)'
    BY <2>1, <2>2
  <2>4. InSync'
    BY <2>3 DEF Settled, InSync
  <2>5. QED BY <1>3, <2>3, <2>4 DEF SyncInv
<1>6. QED BY <1>4, <1>5

\* The state a write starts from.
LEMMA BeforeTheWrite ==
    ASSUME NEW p, Procs = {p}, TypeInv, SyncInv, tx[p].pc = "write"
    PROVE  /\ Typed(db) /\ Anchored(db) /\ Settled(db, {}) /\ p \in Procs
           /\ \E m \in AccountModels :
                RequestOK(tx[p].kind, m, tx[p].rows, tx[p].values, tx[p].pending)
<1>1. Settled(db, {})
  BY DEF SyncInv, InSync, Settled
<1>2. QED BY <1>1 DEF SyncInv, UnitInSync, TypeInv

LEMMA WriteCreateInSync ==
    ASSUME NEW p, Procs = {p}, TypeInv, SyncInv, WriteCreate(p)
    PROVE  SyncInv'
<1> DEFINE t == tx[p]
           w == [r \in t.rows |-> Overlay(t.values, [NoRow(Model[r]) EXCEPT !.live = TRUE])]
           W == View(p)'
<1>1. /\ tx' = [tx EXCEPT ![p].pc = "declare", ![p].written = w] /\ UNCHANGED db
      /\ t.pc = "write" /\ t.kind = "create" /\ p \in Procs
  BY DEF WriteCreate
<1>2. PICK m \in AccountModels : RequestOK(t.kind, m, t.rows, t.values, t.pending)
  BY <1>1, BeforeTheWrite
<1>3. PICK x0 \in Rows : t.rows = {x0} /\ ~db[x0].live /\ Model[x0] = m
  BY <1>1, <1>2 DEF RequestOK, CreationOK
<1>4. Typed(db) /\ Anchored(db) /\ Settled(db, {})
  BY <1>1, BeforeTheWrite
<1>5. TypeInv'
  BY <1>1, WriteCreateKeepsTypes
<1>6. DOMAIN w = {x0} /\ w[x0] = Overlay(t.values, [NoRow(m) EXCEPT !.live = TRUE])
  BY <1>3
<1> HIDE DEF w
<1>7. tx = [q \in Procs |-> tx[q]] /\ UnitOK(t)
  BY <1>1 DEF TypeInv
<1>8. /\ tx'[p].pc = "declare" /\ tx'[p].kind = "create" /\ tx'[p].rows = {x0}
      /\ tx'[p].written = w /\ tx'[p].pending = t.pending
  BY <1>1, <1>3, <1>7 DEF UnitOK
<1>9. W[x0] = w[x0] /\ \A x \in Rows \ {x0} : W[x] = db[x]
  BY <1>1, <1>3, <1>5, <1>6, <1>8, NextView
<1> HIDE DEF W
<1>10. Anchored(W)
  <2> SUFFICES ASSUME NEW r \in Live(W, "position")
               PROVE  W[r].category \in Live(W, "category") /\ W[r].budget \in Live(W, "budget")
    BY DEF Anchored
  <2>1. \A y : Live(db, y) \subseteq Live(W, y)
    BY <1>3, <1>9 DEF Live
  <2>2. CASE r # x0
    <3>1. r \in Live(db, "position") /\ W[r] = db[r]
      BY <1>9, <2>2 DEF Live
    <3>2. QED BY <1>4, <2>1, <3>1 DEF Anchored
  <2>3. CASE r = x0
    <3>1. m = "position"
      BY <1>3, <2>3 DEF Live
    <3>2. /\ {"category", "budget"} \subseteq DOMAIN t.values /\ ValuesOK(m, t.values)
          /\ t.values.category \in Live(db, "category") /\ t.values.budget \in Live(db, "budget")
      BY <1>1, <1>2, <3>1 DEF RequestOK, CreationOK
    <3>3. W[x0]["category"] = t.values["category"] /\ W[x0]["budget"] = t.values["budget"]
      <4> DEFINE e == [NoRow(m) EXCEPT !.live = TRUE]
      <4>1. RowOK(m, e) /\ W[x0] = Overlay(t.values, e)
        BY <1>6, <1>9, NoRowIsOK
      <4> HIDE DEF e
      <4>2. \A n \in DOMAIN t.values : W[x0][n] = t.values[n]
        BY <3>2, <4>1, GivenRowIsOK
      <4>3. QED BY <3>2, <4>2
    <3>4. QED BY <2>1, <2>3, <3>2, <3>3
  <2>4. QED BY <2>2, <2>3
<1>11. Settled(W, Created(W, m, {x0}))
  BY <1>3, <1>4, <1>9, <1>10, CreationSettles
<1>12. Declared(W, tx'[p]) = Created(W, m, {x0})
  BY <1>3, <1>8, TheModelOf DEF Declared
<1>13. Settled(W, tx'[p].pending \cup Declared(W, tx'[p]))
  BY <1>11, <1>12, MoreIsSettled
<1>14. UnitInSync(View(p), tx[p])'
  BY <1>8, <1>10, <1>13 DEF UnitInSync, W
<1>15. QED BY <1>1, <1>14, SyncUnit

LEMMA WriteUpdateInSync ==
    ASSUME NEW p, Procs = {p}, TypeInv, SyncInv, WriteUpdate(p)
    PROVE  SyncInv'
<1> DEFINE t == tx[p]
           R == t.rows
           w == [r \in {x \in R : db[x].live} |-> Overlay(t.values, db[r])]
           W == View(p)'
<1>1. /\ tx' = [tx EXCEPT ![p].pc = "declare", ![p].written = w] /\ UNCHANGED db
      /\ t.pc = "write" /\ t.kind = "update" /\ p \in Procs
  BY DEF WriteUpdate
<1>2. PICK m \in AccountModels : RequestOK(t.kind, m, t.rows, t.values, t.pending)
  BY <1>1, BeforeTheWrite
<1>3. /\ R # {} /\ R \subseteq Rows /\ ValuesOK(m, t.values) /\ UpdateOK(m, R, t.values, t.pending)
      /\ \A x \in R : Model[x] = m
  BY <1>1, <1>2 DEF RequestOK
<1>4. PICK n : DOMAIN t.values = {n} /\ <<m, n>> \in Updatable
  BY <1>3 DEF UpdateOK, Updatable
<1>5. Typed(db) /\ Anchored(db) /\ Settled(db, {})
  BY <1>1, BeforeTheWrite
<1>6. TypeInv'
  BY <1>1, WriteUpdateKeepsTypes
<1>7. DOMAIN w = R /\ \A x \in R : w[x] = Overlay(t.values, db[x])
  BY <1>3 DEF UpdateOK, Live
<1> HIDE DEF w
<1>8. tx = [q \in Procs |-> tx[q]] /\ UnitOK(t)
  BY <1>1 DEF TypeInv
<1>9. /\ tx'[p].pc = "declare" /\ tx'[p].kind = "update" /\ tx'[p].rows = R
      /\ tx'[p].written = w /\ tx'[p].pending = t.pending /\ tx'[p].values = t.values
  BY <1>1, <1>8 DEF UnitOK
<1>10. \A x \in Rows : W[x] = IF x \in R THEN Overlay(t.values, db[x]) ELSE db[x]
  <2>1. \A x \in Rows : W[x] = IF x \in DOMAIN w THEN w[x] ELSE db[x]
    BY <1>1, <1>6, <1>9, NextView
  <2> HIDE DEF W
  <2>2. QED BY <1>7, <2>1
<1> HIDE DEF W
<1>11. ASSUME NEW x \in R
       PROVE  /\ W[x].live = db[x].live /\ W[x][n] = t.values[n]
              /\ \A k \in DOMAIN db[x] : k # n => W[x][k] = db[x][k]
  <2>1. x \in Rows /\ RowOK(m, db[x]) /\ W[x] = Overlay(t.values, db[x])
    BY <1>3, <1>5, <1>10 DEF Typed
  <2>2. QED BY <1>3, <1>4, <2>1, GivenRowIsOK
<1>12. Rewritten(db, W, R, {n})
  <2>1. \A x \in R : DOMAIN db[x] = Columns[Model[x]] \cup StoredColumns(Model[x]) \cup {"live"}
    BY <1>3, <1>5 DEF Typed, RowOK
  <2>2. QED BY <1>10, <1>11, <2>1 DEF Rewritten
<1>13. \A y : Live(W, y) = Live(db, y)
  BY <1>12 DEF Rewritten, Live
<1>14. Anchored(W)
  <2> SUFFICES ASSUME NEW r \in Live(db, "position")
               PROVE  W[r].category \in Live(db, "category") /\ W[r].budget \in Live(db, "budget")
    BY <1>13 DEF Anchored
  <2>1. r \in Rows /\ Model[r] = "position"
    BY DEF Live
  <2>2. db[r].category \in Live(db, "category") /\ db[r].budget \in Live(db, "budget")
    BY <1>5 DEF Anchored
  <2>3. r \in R => n = "category" /\ t.values.category \in Live(db, "category")
    BY <1>3, <1>4, <2>1 DEF UpdateOK, Updatable
  <2>4. W[r]["budget"] = db[r]["budget"]
    BY <1>12, <2>1, <2>3, TheColumns DEF Rewritten
  <2>5. CASE r \in R
    <3>1. W[r]["category"] = t.values["category"]
      BY <1>11, <2>3, <2>5
    <3>2. QED BY <2>2, <2>3, <2>4, <2>5, <3>1
  <2>6. CASE r \notin R
    BY <1>10, <2>1, <2>2, <2>6
  <2>7. QED BY <2>5, <2>6
<1>15. /\ m = "position" => "budget" \notin {n}
       /\ m = "budget" => "account" \notin {n}
       /\ n \in Columns[m]
  BY <1>4, TheColumns DEF Updatable
<1>16. Settled(W, t.pending \cup Modified(W, m, R, {n}, FALSE))
  <2> SUFFICES ASSUME NEW c \in Stored, NEW r \in Live(db, c[1]), <<c, r>> \notin t.pending,
                      <<c, r>> \notin Modified(W, m, R, {n}, FALSE)
               PROVE  W[r][c[2]] = Fresh(W, c, r)
    BY <1>13 DEF Settled
  <2>1. ASSUME Source(c) = m, Keys(c) \cap {n} # {}, <<c, r>> \in Modified(db, m, R, {n}, TRUE)
        PROVE  FALSE
    <3>1. HasRelationToModify(m, {n})
      <4>1. Keys(c) \subseteq Binding(c, Path(c)).membership /\ Binding(c, Path(c)) \in Bindings
            /\ Binding(c, Path(c)).watched = m
        BY <2>1, InputsAreBound DEF Bound
      <4>2. QED BY <2>1, <4>1 DEF HasRelationToModify
    <3>2. Modified(db, m, R, {n}, TRUE) \subseteq t.pending
      BY <1>3, <1>4, <3>1 DEF UpdateOK
    <3>3. QED BY <2>1, <3>2
  <2>2. Agree(db, W, c, r)
    BY <1>3, <1>5, <1>12, <1>14, <1>15, <2>1, RewrittenOrQueued
  <2>3. r \in Rows /\ Model[r] = c[1] /\ c[2] \in StoredColumns(Model[r])
    BY FieldsAreColumns DEF Live
  <2>4. W[r][c[2]] = db[r][c[2]]
    <3>1. r \in R => c[2] # n
      BY <1>3, <1>15, <2>3, KeysAreColumns
    <3>2. QED BY <1>12, <2>3, <3>1 DEF Rewritten
  <2>5. QED BY <1>5, <2>2, <2>4, StaysSettled
<1>17. Declared(W, tx'[p]) = Modified(W, m, R, {n}, FALSE)
  <2>1. ModelOf(tx'[p]) = m
    BY <1>3, <1>9, TheModelOf
  <2>2. QED BY <1>4, <1>9, <2>1 DEF Declared
<1>18. Settled(W, tx'[p].pending \cup Declared(W, tx'[p]))
  BY <1>9, <1>16, <1>17
<1>19. UnitInSync(View(p), tx[p])'
  BY <1>9, <1>14, <1>18 DEF UnitInSync, W
<1>20. QED BY <1>1, <1>19, SyncUnit

LEMMA WriteDeleteInSync ==
    ASSUME NEW p, Procs = {p}, TypeInv, SyncInv, WriteDelete(p)
    PROVE  SyncInv'
<1> DEFINE t == tx[p]
           G == Gone(t)
           w == Deletion(G)
           W == View(p)'
<1>1. /\ tx' = [tx EXCEPT ![p].pc = "flush", ![p].written = w] /\ UNCHANGED db
      /\ t.pc = "write" /\ t.kind = "delete" /\ p \in Procs
  BY DEF WriteDelete, Deletion, Nulled, Nulls, Gone
<1>2. PICK m \in AccountModels : RequestOK(t.kind, m, t.rows, t.values, t.pending)
  BY <1>1, BeforeTheWrite
<1>3. /\ t.rows \subseteq Rows /\ \A x \in t.rows : Model[x] = m
      /\ t.rows \subseteq Live(db, m) /\ Deleted(db, m, t.rows) \subseteq t.pending
  BY <1>1, <1>2 DEF RequestOK, DeletionOK
<1>4. Typed(db) /\ Anchored(db) /\ Settled(db, {})
  BY <1>1, BeforeTheWrite
<1>5. TypeInv'
  BY <1>1, WriteDeleteKeepsTypes
<1>6. G = Collected(db, t.rows) /\ G \subseteq Rows
  <2>1. {r \in t.rows : db[r].live} = t.rows
    BY <1>3 DEF Live
  <2>2. QED BY <1>1, <2>1, GoneRows DEF Gone
<1> HIDE DEF G
<1>7. tx = [q \in Procs |-> tx[q]] /\ UnitOK(t)
  BY <1>1 DEF TypeInv
<1>8. DOMAIN w = G \cup Nulled(G) /\ \A x \in DOMAIN w : w[x] = IF x \in G THEN NoRow(Model[x])
                                               ELSE Overlay([n \in Nulls(G, x) |-> Null], db[x])
  BY DEF Deletion
<1> HIDE DEF w
<1>9. tx'[p].pc = "flush" /\ tx'[p].written = w /\ tx'[p].pending = t.pending
  BY <1>1, <1>7 DEF UnitOK
<1>10. \A x \in Rows : W[x] = IF x \in DOMAIN w THEN w[x] ELSE db[x]
  BY <1>1, <1>5, <1>9, NextView
<1> HIDE DEF W
<1>11. Removed(db, W, G)
  <2> SUFFICES ASSUME NEW x \in Rows
               PROVE  /\ x \in G => ~W[x].live
                      /\ x \notin G =>
                           /\ db[x].live = W[x].live
                           /\ \A n \in Columns[Model[x]] \cup StoredColumns(Model[x]) :
                                \/ db[x][n] = W[x][n]
                                \/ /\ Model[x] = "movement" /\ n = "category"
                                   /\ db[x][n] \in G /\ W[x][n] = Null
    BY DEF Removed
  <2>1. Model[x] \in AccountModels /\ RowOK(Model[x], db[x])
    BY <1>4, RowsHaveModels DEF Typed
  <2>2. CASE x \in G
    BY <1>8, <1>10, <2>1, <2>2, NoRowIsOK
  <2>3. CASE x \notin DOMAIN w
    BY <1>8, <1>10, <2>3
  <2>4. CASE x \in Nulled(G) /\ x \notin G
    <3> DEFINE v == [n \in Nulls(G, x) |-> Null]
    <3>1. W[x] = Overlay(v, db[x])
      BY <1>8, <1>10, <2>4
    <3>2. DOMAIN v = Nulls(G, x) /\ \A n \in Nulls(G, x) : v[n] = Null
      OBVIOUS
    <3>3. ValuesOK(Model[x], v)
      BY NullsAreOK
    <3> HIDE DEF v
    <3>4. /\ W[x].live = db[x].live
          /\ \A n \in DOMAIN db[x] : n \notin Nulls(G, x) => W[x][n] = db[x][n]
          /\ \A n \in Nulls(G, x) : W[x][n] = Null
      BY <2>1, <3>1, <3>2, <3>3, GivenRowIsOK
    <3>5. \A n \in Nulls(G, x) : Model[x] = "movement" /\ n = "category" /\ db[x][n] \in G
      BY AccountAssumption DEF Nulls, AccountOnDelete, AccountForward
    <3>6. DOMAIN db[x] = Columns[Model[x]] \cup StoredColumns(Model[x]) \cup {"live"}
      BY <2>1 DEF RowOK
    <3>7. QED BY <2>4, <3>4, <3>5, <3>6
  <2>5. QED BY <1>8, <2>2, <2>3, <2>4
<1>12. Anchored(W) /\ Settled(W, Deleted(db, m, t.rows))
  BY <1>3, <1>4, <1>6, <1>11, DeletionSettles
<1>13. Settled(W, tx'[p].pending)
  BY <1>3, <1>9, <1>12, MoreIsSettled
<1>14. UnitInSync(View(p), tx[p])'
  BY <1>9, <1>12, <1>13 DEF UnitInSync, W
<1>15. QED BY <1>1, <1>14, SyncUnit

LEMMA DeclarationInSync ==
    ASSUME NEW p, Procs = {p}, TypeInv, SyncInv, DeclareCreated(p) \/ DeclareModified(p)
    PROVE  SyncInv'
<1> DEFINE t == tx[p]
           V == View(p)
<1>1. /\ tx' = [tx EXCEPT ![p].pc = "flush", ![p].pending = @ \cup Declared(V, t)]
      /\ UNCHANGED db /\ t.pc = "declare" /\ p \in Procs
  BY DEF DeclareCreated, DeclareModified, Declared
<1>2. tx = [q \in Procs |-> tx[q]] /\ UnitOK(t)
  BY <1>1 DEF TypeInv
<1>3. Anchored(V) /\ Settled(V, t.pending \cup Declared(V, t))
  BY <1>1 DEF SyncInv, UnitInSync
<1>4. /\ tx'[p].pc = "flush" /\ tx'[p].pending = t.pending \cup Declared(V, t)
      /\ tx'[p].written = t.written
  BY <1>1, <1>2 DEF UnitOK
<1>5. View(p)' = V
  BY <1>1, <1>4 DEF View
<1>6. Anchored(View(p)') /\ Settled(View(p)', tx'[p].pending)
  BY <1>3, <1>4, <1>5
<1>7. UnitInSync(View(p), tx[p])'
  BY <1>4, <1>6 DEF UnitInSync
<1>8. QED BY <1>1, <1>7, SyncUnit

LEMMA FlushReadInSync ==
    ASSUME NEW p, Procs = {p}, TypeInv, SyncInv, NEW m, FlushRead(p, m)
    PROVE  SyncInv'
<1> DEFINE t == tx[p]
           V == View(p)
           batch == Batch(t.pending, m)
           F == {x[1] : x \in batch}
           rows == {x[2] : x \in batch} \cap Live(V, m)
           fresh == [k \in F \X rows |-> Fresh(V, k[1], k[2])]
<1>1. /\ tx' = [tx EXCEPT ![p].pc = "store", ![p].pending = @ \ batch, ![p].fresh = fresh,
                          ![p].rows = rows]
      /\ UNCHANGED db /\ t.pc = "flush" /\ p \in Procs
  BY DEF FlushRead
<1>2. tx = [q \in Procs |-> tx[q]] /\ UnitOK(t)
  BY <1>1 DEF TypeInv
<1>3. Anchored(V) /\ Settled(V, t.pending)
  BY <1>1 DEF SyncInv, UnitInSync
<1>4. F \subseteq Stored /\ \A c \in F : c[1] = m
  BY <1>2 DEF Batch, UnitOK, Fields
<1>5. \A c \in F, r \in rows : r \in Live(V, c[1])
  BY <1>4
<1>6. ASSUME NEW c \in Stored, NEW r \in Live(V, c[1]), <<c, r>> \in batch
      PROVE  <<c, r>> \in F \X rows
  <2>1. c \in F
    BY <1>6
  <2>2. r \in rows
    BY <1>4, <1>6, <2>1
  <2>3. QED BY <2>1, <2>2
<1> HIDE DEF batch, F, rows, V
<1>7. DOMAIN fresh = F \X rows /\ \A c \in F, r \in rows : fresh[<<c, r>>] = Fresh(V, c, r)
  OBVIOUS
<1> HIDE DEF fresh
<1>8. /\ tx'[p].pc = "store" /\ tx'[p].pending = t.pending \ batch /\ tx'[p].fresh = fresh
      /\ tx'[p].rows = rows /\ tx'[p].written = t.written
  BY <1>1, <1>2 DEF UnitOK
<1>9. ReadFrom(V, tx'[p])
  <2>1. \A k \in F \X rows : k[2] \in Live(V, k[1][1]) /\ fresh[k] = Fresh(V, k[1], k[2])
    BY <1>5, <1>7
  <2>2. QED BY <1>4, <1>7, <1>8, <2>1 DEF ReadFrom
<1>10. Settled(V, (t.pending \ batch) \cup (F \X rows))
  BY <1>3, <1>6 DEF Settled
<1>11. View(p)' = V
  BY <1>1, <1>8 DEF View, V
<1>12. /\ Anchored(View(p)') /\ ReadFrom(View(p)', tx'[p])
       /\ Settled(View(p)', tx'[p].pending \cup DOMAIN tx'[p].fresh)
  BY <1>3, <1>7, <1>8, <1>9, <1>10, <1>11
<1>13. UnitInSync(View(p), tx[p])'
  BY <1>8, <1>12 DEF UnitInSync
<1>14. QED BY <1>1, <1>13, SyncUnit

\* Storing what was read: a field that reads a column just stored is queued again.
LEMMA StoreSettles ==
    ASSUME NEW V, Anchored(V), NEW W, Anchored(W), NEW m \in AccountModels, NEW R,
           \A x \in R : Model[x] = m, NEW names, names \subseteq StoredColumns(m),
           Rewritten(V, W, R, names), NEW S, NEW T, Settled(V, S),
           \A c \in Stored : \A r \in Live(V, c[1]) :
             r \in R /\ c[2] \in names => W[r][c[2]] = Fresh(V, c, r),
           \A c \in Stored : \A r \in Live(V, c[1]) :
             <<c, r>> \in S => <<c, r>> \in T \/ (r \in R /\ c[2] \in names)
    PROVE  Settled(W, T \cup Modified(W, m, R, names, FALSE))
<1> SUFFICES ASSUME NEW c \in Stored, NEW r \in Live(W, c[1]), <<c, r>> \notin T,
                    <<c, r>> \notin Modified(W, m, R, names, FALSE)
             PROVE  W[r][c[2]] = Fresh(W, c, r)
  BY DEF Settled
<1>1. r \in Rows /\ Model[r] = c[1] /\ r \in Live(V, c[1])
  BY DEF Rewritten, Live
<1>2. /\ m = "position" => "budget" \notin names
      /\ m = "budget" => "account" \notin names
  BY TheStoredColumns
<1>3. Source(c) = m => Keys(c) \cap names = {}
  BY InputsAreColumns, KeysAreColumns
<1>4. Agree(V, W, c, r)
  BY <1>1, <1>2, <1>3, RewrittenOrQueued
<1>5. CASE r \in R /\ c[2] \in names
  <2>1. W[r][c[2]] = Fresh(V, c, r)
    BY <1>1, <1>5
  <2>2. c = PositionName => V[r].category \in Rows
    BY <1>1 DEF Anchored, Live, PositionName
  <2>3. Fresh(V, c, r) = Fresh(W, c, r)
    BY <1>1, <1>4, <2>2, AgreedIsSame
  <2>4. QED BY <2>1, <2>3
<1>6. CASE ~(r \in R /\ c[2] \in names)
  <2>1. <<c, r>> \notin S
    BY <1>1, <1>6
  <2>2. c[2] \in StoredColumns(Model[r])
    BY <1>1, FieldsAreColumns
  <2>3. W[r][c[2]] = V[r][c[2]]
    BY <1>1, <1>6, <2>2 DEF Rewritten
  <2>4. QED BY <1>1, <1>4, <2>1, <2>3, StaysSettled
<1>7. QED BY <1>5, <1>6

LEMMA OverlayTwice ==
    ASSUME NEW f, NEW g, NEW h
    PROVE  Overlay(f, Overlay(g, h)) = Overlay(Overlay(f, g), h)
<1> DEFINE a == Overlay(g, h)
           b == Overlay(f, g)
<1>1. DOMAIN a = DOMAIN g \cup DOMAIN h
      /\ \A x \in DOMAIN a : a[x] = IF x \in DOMAIN g THEN g[x] ELSE h[x]
  BY DEF Overlay
<1>2. DOMAIN b = DOMAIN f \cup DOMAIN g
      /\ \A x \in DOMAIN b : b[x] = IF x \in DOMAIN f THEN f[x] ELSE g[x]
  BY DEF Overlay
<1> HIDE DEF a, b
<1>3. Overlay(f, a) = Overlay(b, h)
  BY <1>1, <1>2 DEF Overlay
<1>4. QED BY <1>3 DEF a, b

LEMMA FlushStoreInSync ==
    ASSUME NEW p, Procs = {p}, TypeInv, SyncInv, FlushStore(p)
    PROVE  SyncInv'
<1> DEFINE t == tx[p]
           V == View(p)
           W == Overlay(Stores(p), V)
           R == t.rows
           names == Refresh(p)
           m == ModelOf(t)
           declared == IF Refreshed(p) = {} THEN {} ELSE Modified(W, m, R, names, FALSE)
<1>1. /\ tx' = [tx EXCEPT ![p].pc = "flush", ![p].fresh = Nothing,
                          ![p].written = Overlay(Stores(p), @), ![p].pending = @ \cup declared]
      /\ UNCHANGED db /\ t.pc = "store" /\ p \in Procs
  BY DEF FlushStore, Stores, Refreshed, Refresh
<1>2. tx = [q \in Procs |-> tx[q]] /\ UnitOK(t)
  BY <1>1 DEF TypeInv
<1>3. Anchored(V) /\ ReadFrom(V, t) /\ Settled(V, t.pending \cup DOMAIN t.fresh)
  BY <1>1 DEF SyncInv, UnitInSync
<1>4. PICK F \in SUBSET Stored :
        /\ DOMAIN t.fresh = F \X R
        /\ \A k \in DOMAIN t.fresh : k[2] \in Live(V, k[1][1]) /\ t.fresh[k] = Fresh(V, k[1], k[2])
  BY <1>3 DEF ReadFrom
<1>5. DOMAIN V = Rows
  BY <1>1, ViewIsTyped
<1>6. DOMAIN Stores(p) = Refreshed(p) /\ Refreshed(p) \subseteq R /\ R \subseteq Rows
  BY <1>2 DEF Stores, Refreshed, UnitOK
<1>7. \A x \in Rows : W[x] = IF x \in Refreshed(p) THEN Stores(p)[x] ELSE V[x]
  BY <1>5, <1>6 DEF Overlay
<1> HIDE DEF declared
<1>8. /\ tx'[p].pc = "flush" /\ tx'[p].pending = t.pending \cup declared
      /\ tx'[p].written = Overlay(Stores(p), t.written)
  BY <1>1, <1>2 DEF UnitOK
<1>9. View(p)' = W
  BY <1>1, <1>8, OverlayTwice DEF View
<1>10. Anchored(W) /\ Settled(W, t.pending \cup declared)
  <2>1. CASE Refreshed(p) = {}
    <3>1. W = V
      <4>1. V = [x \in DOMAIN V |-> V[x]]
        BY DEF View, Overlay
      <4> HIDE DEF V
      <4>2. QED BY <1>6, <2>1, <4>1 DEF Overlay
    <3>2. DOMAIN t.fresh = {}
      <4> SUFFICES ASSUME NEW k \in DOMAIN t.fresh PROVE FALSE
        OBVIOUS
      <4>1. k[2] \in R /\ V[k[2]].live
        BY <1>4 DEF Live
      <4>2. QED BY <2>1, <4>1 DEF Refreshed
    <3>3. declared = {}
      BY <2>1 DEF declared
    <3> HIDE DEF W, V
    <3>4. t.pending \cup declared = t.pending \cup DOMAIN t.fresh
      BY <3>2, <3>3
    <3>5. QED BY <1>3, <3>1, <3>4
  <2>2. CASE Refreshed(p) # {}
    <3>1. PICK r0 \in R : r0 \in Refreshed(p)
      BY <1>6, <2>2
    <3>2. \A x \in R : Model[x] = m
      BY <1>2, <3>1, TheModelOf DEF UnitOK
    <3>3. m \in AccountModels
      BY <1>6, <3>1, <3>2, RowsHaveModels
    <3>4. names \subseteq StoredColumns(m)
      BY <1>1, <3>1, <3>2, StoresAreOK
    <3> HIDE DEF m, W, V
    <3>5. ASSUME NEW x \in Refreshed(p)
          PROVE  /\ x \in Rows /\ W[x].live = V[x].live
                 /\ \A n \in Columns[Model[x]] \cup StoredColumns(Model[x]) :
                      n \notin names => W[x][n] = V[x][n]
                 /\ \A n \in names : W[x][n] = t.fresh[<<<<m, n>>, x>>]
      <4>1. /\ x \in Rows /\ Stores(p)[x].live = V[x].live
            /\ \A n \in DOMAIN V[x] : n \notin names => Stores(p)[x][n] = V[x][n]
            /\ \A n \in names : Stores(p)[x][n] = t.fresh[<<<<Model[x], n>>, x>>]
        BY <1>1, <3>5, StoresAreOK DEF V
      <4>2. W[x] = Stores(p)[x] /\ Model[x] = m
        BY <1>6, <1>7, <3>2, <3>5, <4>1
      <4>3. DOMAIN V[x] = Columns[Model[x]] \cup StoredColumns(Model[x]) \cup {"live"}
        BY <1>1, <4>1, ViewIsTyped DEF V, Typed, RowOK
      <4>4. QED BY <4>1, <4>2, <4>3
    <3>6. Rewritten(V, W, R, names)
      BY <1>6, <1>7, <3>5 DEF Rewritten
    <3>7. \A y : Live(W, y) = Live(V, y)
      BY <3>6 DEF Rewritten, Live
    <3>8. Anchored(W)
      <4> SUFFICES ASSUME NEW r \in Live(V, "position")
                   PROVE  W[r].category \in Live(V, "category") /\ W[r].budget \in Live(V, "budget")
        BY <3>7 DEF Anchored
      <4>1. r \in Rows /\ Model[r] = "position"
        BY DEF Live
      <4>2. r \notin R \/ ("category" \notin names /\ "budget" \notin names)
        BY <3>2, <3>4, <4>1, TheStoredColumns
      <4>3. W[r]["category"] = V[r]["category"] /\ W[r]["budget"] = V[r]["budget"]
        BY <3>6, <4>1, <4>2, TheColumns DEF Rewritten
      <4>4. V[r].category \in Live(V, "category") /\ V[r].budget \in Live(V, "budget")
        BY <1>3 DEF Anchored
      <4>5. QED BY <4>3, <4>4
    <3>9. ASSUME NEW c \in Stored, NEW r \in Live(V, c[1]), r \in R, c[2] \in names
          PROVE  W[r][c[2]] = Fresh(V, c, r)
      <4>1. PICK k \in DOMAIN t.fresh : k[1][2] = c[2]
        BY <3>9 DEF Refresh
      <4>2. k[1] \in F /\ k[1] \in Stored /\ k[1][1] = m
        BY <1>2, <1>4, <3>2, <4>1 DEF UnitOK, Fields
      <4>3. c[1] = m
        BY <3>2, <3>9 DEF Live
      <4>4. c = <<m, c[2]>> /\ k[1] = c
        BY <4>1, <4>2, <4>3, TheStored
      <4>5. <<c, r>> \in DOMAIN t.fresh
        BY <1>4, <3>9, <4>2, <4>4
      <4>6. t.fresh[<<c, r>>] = Fresh(V, c, r)
        BY <1>4, <4>5
      <4>7. r \in Refreshed(p)
        BY <3>9 DEF Refreshed, Live, V
      <4>8. W[r][c[2]] = t.fresh[<<<<m, c[2]>>, r>>]
        BY <3>5, <3>9, <4>7
      <4>9. QED BY <4>4, <4>6, <4>8
    <3>10. ASSUME NEW c \in Stored, NEW r, <<c, r>> \in DOMAIN t.fresh
           PROVE  r \in R /\ c[2] \in names
      BY <1>4, <3>10 DEF Refresh
    <3>11. Settled(W, t.pending \cup Modified(W, m, R, names, FALSE))
      <4> DEFINE S == t.pending \cup DOMAIN t.fresh
                 T == t.pending
      <4>1. \A c \in Stored : \A r \in Live(V, c[1]) :
              r \in R /\ c[2] \in names => W[r][c[2]] = Fresh(V, c, r)
        BY <3>9
      <4>2. \A c \in Stored : \A r \in Live(V, c[1]) :
              <<c, r>> \in S => <<c, r>> \in T \/ (r \in R /\ c[2] \in names)
        BY <3>10
      <4>3. Settled(V, S) /\ Anchored(V)
        BY <1>3
      <4> HIDE DEF S, T, names, R
      <4>4. Settled(W, T \cup Modified(W, m, R, names, FALSE))
        BY <3>2, <3>3, <3>4, <3>6, <3>8, <4>1, <4>2, <4>3, StoreSettles
      <4>5. QED BY <4>4 DEF T, names, R
    <3>12. declared = Modified(W, m, R, names, FALSE)
      BY <2>2 DEF declared
    <3>13. QED BY <3>8, <3>11, <3>12
  <2>3. QED BY <2>1, <2>2
<1> HIDE DEF W
<1>11. Anchored(View(p)') /\ Settled(View(p)', tx'[p].pending)
  BY <1>8, <1>9, <1>10
<1>12. UnitInSync(View(p), tx[p])'
  BY <1>8, <1>11 DEF UnitInSync
<1>13. QED BY <1>1, <1>12, SyncUnit

LEMMA SyncStep ==
    ASSUME NEW p, Procs = {p}
    PROVE  TypeInv /\ SyncInv /\ [Next]_vars => SyncInv'
<1> SUFFICES ASSUME TypeInv, SyncInv, [Next]_vars PROVE SyncInv'
  OBVIOUS
<1>1. CASE UNCHANGED vars
  <2>1. UNCHANGED <<db, tx>>
    BY <1>1 DEF vars
  <2>2. UnitInSync(View(p), tx[p])
    BY DEF SyncInv
  <2>3. UnitInSync(View(p), tx[p])'
    BY <2>1, <2>2
      DEF UnitInSync, View, RequestOK, CreationOK, UpdateOK, DeletionOK
  <2>4. QED BY <2>1, <2>3, SyncUnit
<1>2. CASE Begins(p)
  BY <1>2, BeginInSync
<1>3. CASE WriteCreate(p) \/ WriteUpdate(p) \/ WriteDelete(p)
  BY <1>3, WriteCreateInSync, WriteUpdateInSync, WriteDeleteInSync
<1>4. CASE DeclareCreated(p) \/ DeclareModified(p)
  BY <1>4, DeclarationInSync
<1>5. ASSUME NEW m, FlushRead(p, m) PROVE SyncInv'
  BY <1>5, FlushReadInSync
<1>6. CASE FlushStore(p)
  BY <1>6, FlushStoreInSync
<1>7. CASE Commit(p) \/ Refuse(p) \/ Rollback(p)
  BY <1>7, EndInSync
<1>8. \A q \in Procs : q = p
  OBVIOUS
<1>9. QED BY <1>1, <1>2, <1>3, <1>4, <1>5, <1>6, <1>7, <1>8, Steps

LEMMA SyncInit == Init => SyncInv
<1> SUFFICES ASSUME Init PROVE SyncInv
  OBVIOUS
<1>1. \A r \in Rows : ~db[r].live
  BY RowsHaveModels, NoRowIsOK DEF Init
<1>2. \A m : Live(db, m) = {}
  BY <1>1 DEF Live
<1>3. InSync /\ Anchored(db)
  BY <1>2 DEF InSync, Anchored
<1>4. ASSUME NEW p \in Procs PROVE UnitInSync(View(p), tx[p])
  <2>1. tx[p].pc = "idle"
    BY DEF Init, Idle
  <2>2. QED BY <2>1 DEF UnitInSync
<1>5. QED BY <1>3, <1>4 DEF SyncInv

\* For any rows, amounts and names, when units of work run one at a time: each
\* committed total and name is what its method would give now, whatever a request has
\* created, moved, changed, nulled or deleted (RefreshComputedFieldsContext).
THEOREM BooksStayInSync ==
    ASSUME NEW p, Procs = {p}
    PROVE  Spec => []InSync
<1>1. SyncInv => InSync
  BY DEF SyncInv
<1>2. TypeInv /\ SyncInv /\ [Next]_vars => SyncInv'
  BY SyncStep
<1>3. QED BY <1>1, <1>2, SyncInit, TypeIsKept, PTL DEF Spec

================================================================================
