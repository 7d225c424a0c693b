-------------------------- MODULE RouteTableProofs --------------------------
(***************************************************************************)
(* Proofs about a start of the API, for any models, any declarations and   *)
(* any order of import: the schemas that the factory's cache hands out,    *)
(* the routes that controllers keep although they share the functions of   *)
(* the mixins, and what the checks at startup say of the routes and of the *)
(* bodies served.                                                          *)
(***************************************************************************)
EXTENDS RouteTable, FiniteSetTheorems, WellFoundedInduction, TLAPS

----------------------------------------------------------------------------
(* Numbers and sets.                                                       *)

\* A set of numbers that is not empty has a least one.
LEMMA Least ==
    ASSUME NEW T, T \subseteq Nat, T # {}
    PROVE  \E n \in T : \A m \in T : n <= m
<1> DEFINE up(n) == {i \in Nat : i < n}
           U == {up(n) : n \in T}
<1>1. ASSUME NEW n \in Nat
      PROVE  IsFiniteSet(up(n)) /\ up(n) \subseteq Nat
  <2>1. up(n) = 0..(n - 1)  OBVIOUS
  <2>2. n - 1 \in Int /\ 0 \in Int  OBVIOUS
  <2>3. IsFiniteSet(0..(n - 1))  BY <2>2, FS_Interval
  <2>4. QED  BY <2>1, <2>3
<1>2. U \subseteq FiniteSubsetsOf(Nat) /\ U # {}
  BY <1>1 DEF FiniteSubsetsOf
<1>3. PICK X \in U : \A Y \in U : ~(<<Y, X>> \in StrictSubsetOrdering(Nat))
  <2>1. IsWellFoundedOn(StrictSubsetOrdering(Nat), FiniteSubsetsOf(Nat))
    BY FS_StrictSubsetOrderingWellFounded
  <2>2. QED  BY <1>2, <2>1, WFMin, Zenon
<1>4. PICK n \in T : X = up(n)
  OBVIOUS
<1>5. ASSUME NEW m \in T, m < n
      PROVE  FALSE
  <2>1. up(m) \subseteq up(n) /\ up(m) # up(n) /\ up(m) \in U
    BY <1>5
  <2>2. up(m) \subseteq Nat /\ up(n) \subseteq Nat
    OBVIOUS
  <2>3. <<up(m), up(n)>> \in StrictSubsetOrdering(Nat)
    BY <2>1, <2>2 DEF StrictSubsetOrdering
  <2>4. QED  BY <1>3, <1>4, <2>1, <2>3
<1>6. QED  BY <1>5

\* A name that _get_unique_name gives is free: of Cardinality(taken) + 1 suffixes
\* one is.
LEMMA UniqueNameIsFree ==
    ASSUME NEW n, NEW taken, IsFiniteSet(taken)
    PROVE  UniqueName(n, taken) \notin taken
<1> DEFINE c == Cardinality(taken)
           free == {k \in 2..(c + 2) : <<n, k>> \notin taken}
           f == [k \in 2..(c + 2) |-> <<n, k>>]
<1>1. CASE <<n, 1>> \notin taken
  BY <1>1 DEF UniqueName
<1>2. CASE <<n, 1>> \in taken
  <2>1. c \in Nat
    BY FS_CardinalityType
  <2>2. free # {}
    <3> SUFFICES ASSUME free = {} PROVE FALSE
      OBVIOUS
    <3> HIDE DEF c
    <3>1. f \in [2..(c + 2) -> taken]
      OBVIOUS
    <3>2. IsFiniteSet(2..(c + 2)) /\ Cardinality(2..(c + 2)) = c + 1
      <4>1. 2 \in Int /\ c + 2 \in Int /\ ~(2 > c + 2) /\ (c + 2) - 2 + 1 = c + 1
        BY <2>1
      <4>2. QED  BY <4>1, FS_Interval
    <3>3. Cardinality(taken) < Cardinality(2..(c + 2))
      BY <2>1, <3>2 DEF c
    <3>4. \E x, y \in 2..(c + 2) : x # y /\ f[x] = f[y]
      <4> DEFINE S == 2..(c + 2)
      <4>1. IsFiniteSet(S) /\ Cardinality(taken) < Cardinality(S) /\ f \in [S -> taken]
        BY <3>1, <3>2, <3>3
      <4> HIDE DEF f, S
      <4>2. \E x, y \in S : x # y /\ f[x] = f[y]
        BY <4>1, FS_PigeonHole
      <4>3. QED  BY <4>2 DEF S
    <3>5. QED  BY <3>4
  <2>3. free \subseteq Nat
    BY <2>1
  <2>4. \E k \in free : \A l \in free : k <= l
    <3> HIDE DEF free
    <3>1. QED  BY <2>2, <2>3, Least
  <2>5. Min(free) \in free
    BY <2>4 DEF Min
  <2>6. UniqueName(n, taken) = <<n, Min(free)>>
    BY <1>2 DEF UniqueName
  <2>7. QED  BY <2>5, <2>6
<1>3. QED  BY <1>1, <1>2

----------------------------------------------------------------------------
(* The statements of a start run one after another.                        *)

PlanInv ==
    /\ plan \in Plans
    /\ done \in Nat /\ done <= Len(plan)

ExecutedSchemas == {d \in Executed : d.is = "schema"}

LEMMA PlanShape ==
    ASSUME PlanInv
    PROVE  /\ Len(plan) \in Nat /\ DOMAIN plan = 1..Len(plan)
           /\ \A i \in 1..Len(plan) : plan[i] \in ToSet(plan)
           /\ Executed \subseteq ToSet(plan)
           /\ ExecutedSchemas \subseteq SchemasOf(plan)
<1>1. plan \in Seq(ToSet(plan))
  BY SchemasAssumption DEF PlanInv
<1> DEFINE T == ToSet(plan)
<1> HIDE DEF T
<1>2. plan \in Seq(T)
  BY <1>1 DEF T
<1>3. /\ Len(plan) \in Nat /\ DOMAIN plan = 1..Len(plan)
      /\ \A i \in 1..Len(plan) : plan[i] \in T
  BY <1>2
<1>4. Executed \subseteq T
  BY <1>3 DEF PlanInv, Executed
<1>5. QED  BY <1>3, <1>4 DEF T, ExecutedSchemas, SchemasOf

\* What a statement that runs leaves: it is executed, and the others stay so.
LEMMA OneMore ==
    ASSUME PlanInv, NEW what, Importing(what), done' = done + 1, plan' = plan
    PROVE  /\ PlanInv'
           /\ Statement \in ToSet(plan) /\ Statement.is = what
           /\ Executed' = Executed \cup {Statement}
<1>1. Len(plan) \in Nat /\ done \in Nat /\ done < Len(plan)
  BY PlanShape DEF PlanInv, Importing
<1>2. PlanInv'
  BY <1>1 DEF PlanInv
<1>3. Statement \in ToSet(plan) /\ Statement.is = what
  BY <1>1, PlanShape DEF Statement, Importing
<1>4. 1..(done + 1) = (1..done) \cup {done + 1}
  BY <1>1
<1>5. Executed' = Executed \cup {Statement}
  BY <1>4 DEF Executed, Statement
<1>6. QED  BY <1>2, <1>3, <1>5

----------------------------------------------------------------------------
(* The schemas.                                                            *)

\* Statements with one key have one schema: all that create_schema reads of a
\* declaration is in its key.
LEMMA OneKeyOneSchema ==
    ASSUME NEW d, NEW e, Key(d) = Key(e)
    PROVE  Definitions(d) = Definitions(e) /\ d.model = e.model /\ d.name = e.name
<1>1. /\ d.model = e.model /\ d.fields = e.fields /\ d.exclude = e.exclude
      /\ d.optional = e.optional /\ d.custom = e.custom /\ d.alias = e.alias /\ d.name = e.name
  BY DEF Key
<1>2. SelectedFields(d) = SelectedFields(e)
  BY <1>1 DEF SelectedFields
<1>3. \A f : Optional(d, f) = Optional(e, f) /\ AliasOf(d, f) = AliasOf(e, f)
  BY <1>1 DEF Optional, AliasOf
<1>4. QED  BY <1>1, <1>2, <1>3, Zenon DEF Definitions

\* The cache has the schema of a statement under its key; names in it are taken,
\* and of one key; a class is bound to the schema its statement declares.
CacheInv ==
    \A k \in DOMAIN cache : \E d \in ExecutedSchemas :
        /\ Key(d) = k
        /\ cache[k].fields = Definitions(d) /\ cache[k].model = d.model
NamesInv ==
    /\ IsFiniteSet(schema_names)
    /\ \A k \in DOMAIN cache : cache[k].name \in schema_names
    /\ \A k, l \in DOMAIN cache : cache[k].name = cache[l].name => k = l
BoundInv ==
    /\ \A id \in DOMAIN bound : \E d \in ExecutedSchemas :
           /\ d.id = id /\ ~MetaRefused(d)
           /\ bound[id].fields = Definitions(d) /\ bound[id].model = d.model
    /\ phase # "failed" => \A d \in ExecutedSchemas : d.id \in DOMAIN bound

SchemasInv == CacheInv /\ NamesInv /\ BoundInv

LEMMA SchemasStart == Init => PlanInv /\ SchemasInv
<1> SUFFICES ASSUME Init PROVE PlanInv /\ SchemasInv
  OBVIOUS
<1> USE DEF Init, SchemaInit
<1>1. PlanInv
  <2>1. plan \in Seq(ToSet(plan))
    BY SchemasAssumption
  <2> DEFINE T == ToSet(plan)
  <2> HIDE DEF T
  <2>2. plan \in Seq(T)
    BY <2>1 DEF T
  <2>3. QED  BY <2>2 DEF PlanInv
<1>2. Executed = {}
  BY DEF Executed
<1>3. IsFiniteSet({})
  BY FS_EmptySet
<1>4. QED
  BY <1>1, <1>2, <1>3 DEF SchemasInv, CacheInv, NamesInv, BoundInv, ExecutedSchemas

\* A schema statement that is not refused.
LEMMA SchemaBound ==
    ASSUME PlanInv, SchemasInv, Importing("schema"), done' = done + 1, plan' = plan,
           ~MetaRefused(Statement), ModelSchema(Statement), phase' = phase
    PROVE  SchemasInv'
<1> DEFINE d == Statement
           k == Key(d)
<1> HIDE DEF d, k
<1>1. /\ PlanInv'
      /\ d \in SchemasOf(plan)
      /\ ExecutedSchemas' = ExecutedSchemas \cup {d}
      /\ ExecutedSchemas' \subseteq SchemasOf(plan)
  <2>1. PlanInv' /\ d \in ToSet(plan) /\ d.is = "schema" /\ Executed' = Executed \cup {d}
    BY OneMore DEF d
  <2>2. ExecutedSchemas' = ExecutedSchemas \cup {d}
    BY <2>1 DEF ExecutedSchemas
  <2>3. QED  BY <2>1, <2>2, PlanShape DEF SchemasOf
<1>2. \A e \in ExecutedSchemas' : e.id = d.id => e = d
  BY <1>1, SchemasAssumption DEF PlanInv
\* The schema that the class is bound to.
<1> DEFINE s == [name |-> UniqueName(d.name, schema_names), model |-> d.model, fields |-> Definitions(d),
                 nested |-> {d.custom[f].schema : f \in {f \in DOMAIN d.custom : d.custom[f].as = "nested"}}]
<1>3. /\ k \in DOMAIN cache =>
           cache' = cache /\ schema_names' = schema_names /\ bound' = SetDefault(bound, d.id, cache[k])
      /\ k \notin DOMAIN cache =>
           /\ cache' = SetDefault(cache, k, s) /\ schema_names' = schema_names \cup {s.name}
           /\ bound' = SetDefault(bound, d.id, s)
  BY DEF ModelSchema, d, k
<1>4. PICK x : /\ bound' = SetDefault(bound, d.id, x)
               /\ x.fields = Definitions(d) /\ x.model = d.model
  <2>1. CASE k \in DOMAIN cache
    <3>1. PICK e \in ExecutedSchemas : Key(e) = k /\ cache[k].fields = Definitions(e) /\ cache[k].model = e.model
      BY <2>1 DEF SchemasInv, CacheInv
    <3>2. Definitions(e) = Definitions(d) /\ e.model = d.model
      BY <3>1, OneKeyOneSchema DEF k
    <3>3. QED  BY <1>3, <2>1, <3>1, <3>2
  <2>2. CASE k \notin DOMAIN cache
    <3>1. s.fields = Definitions(d) /\ s.model = d.model
      OBVIOUS
    <3>2. QED  BY <1>3, <2>2, <3>1
  <2>3. QED  BY <2>1, <2>2
<1>5. BoundInv'
  <2>1. /\ DOMAIN bound' = DOMAIN bound \cup {d.id}
        /\ \A id \in DOMAIN bound : bound'[id] = bound[id]
        /\ d.id \notin DOMAIN bound => bound'[d.id] = x
    BY <1>4 DEF SetDefault
  <2>2. ASSUME NEW id \in DOMAIN bound'
        PROVE  \E e \in ExecutedSchemas' : /\ e.id = id /\ ~MetaRefused(e)
                                           /\ bound'[id].fields = Definitions(e) /\ bound'[id].model = e.model
    <3>1. CASE id \in DOMAIN bound
      BY <1>1, <2>1, <3>1 DEF SchemasInv, BoundInv
    <3>2. CASE id \notin DOMAIN bound
      <4>1. id = d.id /\ bound'[id] = x
        BY <2>1, <2>2, <3>2
      <4>2. ~MetaRefused(d)
        BY DEF d
      <4>3. QED  BY <1>1, <1>4, <4>1, <4>2
    <3>3. QED  BY <3>1, <3>2
  <2>3. phase' # "failed" => \A e \in ExecutedSchemas' : e.id \in DOMAIN bound'
    BY <1>1, <2>1 DEF SchemasInv, BoundInv
  <2>4. QED  BY <2>2, <2>3 DEF BoundInv
<1>6. CASE k \in DOMAIN cache
  <2>1. CacheInv'
    BY <1>1, <1>3, <1>6 DEF SchemasInv, CacheInv
  <2>2. NamesInv'
    BY <1>3, <1>6 DEF SchemasInv, NamesInv
  <2>3. QED  BY <1>5, <2>1, <2>2 DEF SchemasInv
<1>7. CASE k \notin DOMAIN cache
  <2>1. /\ s.fields = Definitions(d) /\ s.model = d.model
        /\ s.name = UniqueName(d.name, schema_names)
    OBVIOUS
  <2> HIDE DEF s
  <2>2. /\ DOMAIN cache' = DOMAIN cache \cup {k}
        /\ \A l \in DOMAIN cache : cache'[l] = cache[l]
        /\ cache'[k] = s
    BY <1>3, <1>7 DEF SetDefault
  <2>3. CacheInv'
    <3>1. ASSUME NEW l \in DOMAIN cache'
          PROVE  \E e \in ExecutedSchemas' : Key(e) = l /\ cache'[l].fields = Definitions(e) /\ cache'[l].model = e.model
      <4>1. CASE l \in DOMAIN cache
        BY <1>1, <2>2, <4>1 DEF SchemasInv, CacheInv
      <4>2. CASE l = k
        BY <1>1, <2>1, <2>2, <4>2 DEF k
      <4>3. QED  BY <2>2, <4>1, <4>2
    <3>2. QED  BY <3>1 DEF CacheInv
  <2>4. NamesInv'
    <3>1. IsFiniteSet(schema_names) /\ schema_names' = schema_names \cup {s.name}
      BY <1>3, <1>7 DEF SchemasInv, NamesInv
    <3>2. s.name \notin schema_names
      BY <2>1, <3>1, UniqueNameIsFree
    <3>3. IsFiniteSet(schema_names')
      BY <3>1, FS_AddElement
    <3>4. \A l \in DOMAIN cache : cache[l].name \in schema_names
      BY DEF SchemasInv, NamesInv
    <3>5. \A l \in DOMAIN cache' : cache'[l].name \in schema_names'
      BY <2>2, <3>1, <3>4
    <3>6. ASSUME NEW l \in DOMAIN cache', NEW m \in DOMAIN cache', cache'[l].name = cache'[m].name
          PROVE  l = m
      BY <2>2, <3>2, <3>4, <3>6 DEF SchemasInv, NamesInv
    <3>7. QED  BY <3>3, <3>5, <3>6 DEF NamesInv
  <2>5. QED  BY <1>5, <2>3, <2>4 DEF SchemasInv
<1>8. QED  BY <1>6, <1>7

\* The schemas stay, and so does what is known of them, through a statement that is
\* no schema, or one that fails the start.
LEMMA SchemasStay ==
    ASSUME PlanInv, SchemasInv, NEW what, Importing(what), done' = done + 1, plan' = plan,
           what # "schema" \/ phase' = "failed", UNCHANGED schemaVars
    PROVE  SchemasInv'
<1>1. Executed' = Executed \cup {Statement} /\ Statement.is = what /\ phase # "failed"
  BY OneMore DEF Importing
<1>2. ExecutedSchemas \subseteq ExecutedSchemas'
  BY <1>1 DEF ExecutedSchemas
<1>3. phase' # "failed" => ExecutedSchemas' = ExecutedSchemas
  BY <1>1 DEF ExecutedSchemas
<1>4. cache' = cache /\ schema_names' = schema_names /\ bound' = bound
  BY DEF schemaVars
<1>5. CacheInv'
  BY <1>2, <1>4 DEF SchemasInv, CacheInv
<1>6. NamesInv'
  BY <1>4 DEF SchemasInv, NamesInv
<1>7. BoundInv'
  BY <1>1, <1>2, <1>3, <1>4 DEF SchemasInv, BoundInv
<1>8. QED  BY <1>5, <1>6, <1>7 DEF SchemasInv

LEMMA SchemasStep == PlanInv /\ SchemasInv /\ [Next]_vars => PlanInv' /\ SchemasInv'
<1> SUFFICES ASSUME PlanInv, SchemasInv, [Next]_vars
             PROVE  PlanInv' /\ SchemasInv'
  OBVIOUS
<1>1. CASE ImportSchema
  <2>1. Importing("schema") /\ done' = done + 1 /\ plan' = plan
    BY <1>1 DEF ImportSchema
  <2>2. PlanInv'
    BY <2>1, OneMore
  <2>3. CASE MetaRefused(Statement)
    BY <1>1, <2>1, <2>2, <2>3, SchemasStay DEF ImportSchema
  <2>4. CASE ~MetaRefused(Statement)
    BY <1>1, <2>1, <2>2, <2>4, SchemaBound DEF ImportSchema
  <2>5. QED  BY <2>3, <2>4
<1>2. CASE ImportService
  BY <1>2, OneMore, SchemasStay DEF ImportService
<1>3. CASE ImportController
  BY <1>3, OneMore, SchemasStay DEF ImportController
<1>4. CASE ready
  <2>1. phase # "failed" /\ plan' = plan /\ done' = done /\ UNCHANGED schemaVars
    BY <1>4 DEF ready
  <2>2. PlanInv' /\ Executed' = Executed
    BY <2>1 DEF PlanInv, Executed
  <2>3. QED
    BY <2>1, <2>2 DEF SchemasInv, CacheInv, NamesInv, BoundInv, ExecutedSchemas, schemaVars
<1>5. CASE UNCHANGED vars
  <2>1. plan' = plan /\ done' = done /\ phase' = phase /\ UNCHANGED schemaVars
    BY <1>5 DEF vars
  <2>2. PlanInv' /\ Executed' = Executed
    BY <2>1 DEF PlanInv, Executed
  <2>3. QED
    BY <2>1, <2>2 DEF SchemasInv, CacheInv, NamesInv, BoundInv, ExecutedSchemas, schemaVars
<1>6. QED  BY <1>1, <1>2, <1>3, <1>4, <1>5 DEF Next

LEMMA SchemasHold == Spec => [](PlanInv /\ SchemasInv)
<1>1. Init => PlanInv /\ SchemasInv
  BY SchemasStart
<1>2. (PlanInv /\ SchemasInv) /\ [Next]_vars => (PlanInv /\ SchemasInv)'
  BY SchemasStep
<1>3. QED  BY <1>1, <1>2, PTL DEF Spec

\* A class is bound to the schema that its own statement declares, however many
\* statements share the cache, and no two schemas share a name (create_schema).
THEOREM SchemasAsDeclared == Spec => []SchemasKeepTheirDeclaration
<1>1. PlanInv /\ SchemasInv => SchemasKeepTheirDeclaration
  <2> SUFFICES ASSUME PlanInv, SchemasInv PROVE SchemasKeepTheirDeclaration
    OBVIOUS
  <2>1. ASSUME NEW d \in Executed, d.is = "schema", d.id \in DOMAIN bound
        PROVE  bound[d.id].fields = Definitions(d)
    <3>1. PICK e \in ExecutedSchemas : e.id = d.id /\ bound[d.id].fields = Definitions(e)
      BY <2>1 DEF SchemasInv, BoundInv
    <3>2. d \in SchemasOf(plan) /\ e \in SchemasOf(plan)
      BY <2>1, PlanShape DEF ExecutedSchemas
    <3>3. d = e
      BY <3>1, <3>2, SchemasAssumption DEF PlanInv
    <3>4. QED  BY <3>1, <3>3
  <2>2. QED  BY <2>1 DEF SchemasInv, NamesInv, SchemasKeepTheirDeclaration
<1>2. QED  BY <1>1, SchemasHold, PTL

----------------------------------------------------------------------------
(* Folds.  The folds of RouteTable are unfolded one element at a time: the *)
(* function that FoldLeft recurses with exists, by the least length for    *)
(* which it would not.                                                     *)

\* The greatest element of a set of the first n numbers that has n.
LEMMA LastIsMax ==
    ASSUME NEW n \in Nat, NEW s \in SUBSET (1..n), n \in s
    PROVE  Max(s) = n
<1>1. \A y \in s : n >= y
  OBVIOUS
<1>2. \A x \in s : (\A y \in s : x >= y) => x = n
  <2> SUFFICES ASSUME NEW x \in s, \A y \in s : x >= y PROVE x = n
    OBVIOUS
  <2>1. x \in 1..n /\ x >= n
    OBVIOUS
  <2>2. QED  BY <2>1
<1>3. QED  BY <1>1, <1>2 DEF Max

OpsFold(d, q, n, base) ==
    \E f : \A s \in SUBSET (1..n) : f[s] =
        IF s = {} THEN base ELSE method_to_route_function(d, f[s \ {Max(s)}], q[Max(s)])

LEMMA OpsUnfold ==
    ASSUME NEW d, NEW q, NEW n \in Nat, NEW base
    PROVE  OpsFold(d, q, n, base)
<1> DEFINE Ok(k) == OpsFold(d, q, k, base)
           T == {k \in Nat : ~Ok(k)}
<1> SUFFICES ASSUME T # {} PROVE FALSE
  OBVIOUS
<1> HIDE DEF Ok, OpsFold
<1>1. PICK k \in T : \A m \in T : k <= m
  <2>1. T \subseteq Nat
    OBVIOUS
  <2> HIDE DEF T
  <2>2. QED  BY <2>1, Least
<1>2. CASE k = 0
  <2> DEFINE f == [s \in SUBSET (1..0) |-> base]
  <2>1. \A s \in SUBSET (1..0) : s = {}
    OBVIOUS
  <2>2. \A s \in SUBSET (1..0) : f[s] =
           IF s = {} THEN base ELSE method_to_route_function(d, f[s \ {Max(s)}], q[Max(s)])
    BY <2>1
  <2>3. Ok(0)
    BY <2>2 DEF Ok, OpsFold
  <2>4. QED  BY <1>1, <1>2, <2>3
<1>3. CASE k # 0
  <2>1. k \in Nat /\ k - 1 \in Nat /\ ~(k <= k - 1)
    BY <1>3
  <2>2. Ok(k - 1)
    BY <1>1, <2>1
  <2>3. PICK g : \A s \in SUBSET (1..(k - 1)) : g[s] =
                   IF s = {} THEN base ELSE method_to_route_function(d, g[s \ {Max(s)}], q[Max(s)])
    BY <2>2 DEF Ok, OpsFold
  <2> DEFINE f == [s \in SUBSET (1..k) |->
                      IF k \in s THEN method_to_route_function(d, g[s \ {k}], q[k]) ELSE g[s]]
  <2>4. ASSUME NEW s \in SUBSET (1..k)
        PROVE  f[s] = IF s = {} THEN base ELSE method_to_route_function(d, f[s \ {Max(s)}], q[Max(s)])
    <3>1. CASE k \in s
      <4>1. Max(s) = k /\ s # {}
        BY <2>1, <3>1, LastIsMax
      <4>2. s \ {k} \in SUBSET (1..k) /\ k \notin s \ {k}
        OBVIOUS
      <4>3. f[s \ {k}] = g[s \ {k}]
        BY <4>2
      <4>4. f[s] = method_to_route_function(d, g[s \ {k}], q[k])
        BY <3>1
      <4>5. QED  BY <4>1, <4>3, <4>4
    <3>2. CASE k \notin s
      <4>1. s \in SUBSET (1..(k - 1))
        <5>1. \A x \in 1..k : x # k => x \in 1..(k - 1)
          BY <2>1
        <5>2. QED  BY <3>2, <5>1
      <4>2. f[s] = g[s]
        BY <3>2
      <4>3. s \ {Max(s)} \in SUBSET (1..k) /\ k \notin s \ {Max(s)}
        BY <3>2
      <4>4. f[s \ {Max(s)}] = g[s \ {Max(s)}]
        BY <4>3
      <4>5. g[s] = IF s = {} THEN base ELSE method_to_route_function(d, g[s \ {Max(s)}], q[Max(s)])
        BY <2>3, <4>1
      <4>6. QED  BY <4>2, <4>4, <4>5
    <3>3. QED  BY <3>1, <3>2
  <2>5. Ok(k)
    <3> HIDE DEF f
    <3>1. QED  BY <2>4 DEF Ok, OpsFold
  <2>6. QED  BY <1>1, <2>5
<1>4. QED  BY <1>2, <1>3

ChainFold(d, q, n, base) ==
    \E f : \A s \in SUBSET (1..n) : f[s] =
        IF s = {} THEN base ELSE MixinRoutes(d, f[s \ {Max(s)}], q[Max(s)])

LEMMA ChainUnfolds ==
    ASSUME NEW d, NEW q, NEW n \in Nat, NEW base
    PROVE  ChainFold(d, q, n, base)
<1> DEFINE Ok(k) == ChainFold(d, q, k, base)
           T == {k \in Nat : ~Ok(k)}
<1> SUFFICES ASSUME T # {} PROVE FALSE
  OBVIOUS
<1> HIDE DEF Ok, ChainFold
<1>1. PICK k \in T : \A m \in T : k <= m
  <2>1. T \subseteq Nat
    OBVIOUS
  <2> HIDE DEF T
  <2>2. QED  BY <2>1, Least
<1>2. CASE k = 0
  <2> DEFINE f == [s \in SUBSET (1..0) |-> base]
  <2>1. \A s \in SUBSET (1..0) : s = {}
    OBVIOUS
  <2>2. \A s \in SUBSET (1..0) : f[s] =
           IF s = {} THEN base ELSE MixinRoutes(d, f[s \ {Max(s)}], q[Max(s)])
    BY <2>1
  <2>3. Ok(0)
    BY <2>2 DEF Ok, ChainFold
  <2>4. QED  BY <1>1, <1>2, <2>3
<1>3. CASE k # 0
  <2>1. k \in Nat /\ k - 1 \in Nat /\ ~(k <= k - 1)
    BY <1>3
  <2>2. Ok(k - 1)
    BY <1>1, <2>1
  <2>3. PICK g : \A s \in SUBSET (1..(k - 1)) : g[s] =
                   IF s = {} THEN base ELSE MixinRoutes(d, g[s \ {Max(s)}], q[Max(s)])
    BY <2>2 DEF Ok, ChainFold
  <2> DEFINE f == [s \in SUBSET (1..k) |->
                      IF k \in s THEN MixinRoutes(d, g[s \ {k}], q[k]) ELSE g[s]]
  <2>4. ASSUME NEW s \in SUBSET (1..k)
        PROVE  f[s] = IF s = {} THEN base ELSE MixinRoutes(d, f[s \ {Max(s)}], q[Max(s)])
    <3>1. CASE k \in s
      <4>1. Max(s) = k /\ s # {}
        BY <2>1, <3>1, LastIsMax
      <4>2. s \ {k} \in SUBSET (1..k) /\ k \notin s \ {k}
        OBVIOUS
      <4>3. f[s \ {k}] = g[s \ {k}]
        BY <4>2
      <4>4. f[s] = MixinRoutes(d, g[s \ {k}], q[k])
        BY <3>1
      <4>5. QED  BY <4>1, <4>3, <4>4
    <3>2. CASE k \notin s
      <4>1. s \in SUBSET (1..(k - 1))
        <5>1. \A x \in 1..k : x # k => x \in 1..(k - 1)
          BY <2>1
        <5>2. QED  BY <3>2, <5>1
      <4>2. f[s] = g[s]
        BY <3>2
      <4>3. s \ {Max(s)} \in SUBSET (1..k) /\ k \notin s \ {Max(s)}
        BY <3>2
      <4>4. f[s \ {Max(s)}] = g[s \ {Max(s)}]
        BY <4>3
      <4>5. g[s] = IF s = {} THEN base ELSE MixinRoutes(d, g[s \ {Max(s)}], q[Max(s)])
        BY <2>3, <4>1
      <4>6. QED  BY <4>2, <4>4, <4>5
    <3>3. QED  BY <3>1, <3>2
  <2>5. Ok(k)
    <3> HIDE DEF f
    <3>1. QED  BY <2>4 DEF Ok, ChainFold
  <2>6. QED  BY <1>1, <2>5
<1>4. QED  BY <1>2, <1>3

----------------------------------------------------------------------------
(* The operations of the mixins.                                           *)

\* The path of one row is none of the fixed ones.
LEMMA PathsDiffer ==
    IdPath \notin {"/", "/default-values/", "/resequence/", "/display-name/", "/group-by/"}
<1>1. IdPath # "/"
  BY Zenon DEF IdPath
<1>2. IdPath # "/default-values/" /\ IdPath # "/resequence/"
  BY Zenon DEF IdPath
<1>3. IdPath # "/display-name/" /\ IdPath # "/group-by/"
  BY Zenon DEF IdPath
<1>4. QED  BY <1>1, <1>2, <1>3

\* The operations of each mixin.
TheOp(m, o) ==
    \/ m = "List" /\ o = Op("list", "/", "GET", "read")
    \/ m = "Retrieve" /\ o = Op("retrieve", IdPath, "GET", "read")
    \/ m = "Create" /\ o = Op("create", "/", "POST", "create")
    \/ m = "Create" /\ o = Op("default_values", "/default-values/", "GET", "create")
    \/ m = "Update" /\ o = Op("update", IdPath, "PATCH", "update")
    \/ m = "Delete" /\ o = Op("delete", IdPath, "DELETE", "delete")
    \/ m = "Resequence" /\ o = Op("resequence", "/resequence/", "POST", "resequence")
    \/ m = "DisplayName" /\ o = Op("display_name", "/display-name/", "GET", "display_name")
    \/ m = "GroupBy" /\ o = Op("group_by", "/group-by/", "POST", "group_by")

\* Every mixin registers these, and asks for a schema of its own.
LEMMA MixinOps ==
    ASSUME NEW m \in DOMAIN Mixin
    PROVE  /\ DOMAIN Mixin[m].ops = 1..Len(Mixin[m].ops) /\ Len(Mixin[m].ops) \in Nat
           /\ \A o \in OpsOf(m) : o.fn \in MixinFunctions /\ TheOp(m, o)
           /\ m = "List" => Mixin[m].needs = "list_response_schema"
           /\ m = "Create" => Mixin[m].needs = "create_request_schema"
           /\ m \in {"Resequence", "DisplayName", "GroupBy"} => TheOp(m, Mixin[m].ops[1]) /\ Mixin[m].ops[1] \in OpsOf(m)
<1>1. \A o \in OpsOf(m) : o.fn \in MixinFunctions
  BY DEF MixinFunctions
<1>2. m \in {"List", "Retrieve", "Create", "Update", "Delete", "Resequence", "DisplayName", "GroupBy"}
  BY DEF Mixin
<1> DEFINE Fine(k, x) ==
      /\ DOMAIN x.ops = 1..Len(x.ops) /\ Len(x.ops) \in Nat
      /\ \A i \in DOMAIN x.ops : TheOp(k, x.ops[i])
\* A mixin of one function, and the one of two.
<1>3. \A k, needs, otherwise, o : TheOp(k, o) =>
         /\ Fine(k, [needs |-> needs, otherwise |-> otherwise, ops |-> <<o>>])
         /\ [needs |-> needs, otherwise |-> otherwise, ops |-> <<o>>].needs = needs
         /\ [needs |-> needs, otherwise |-> otherwise, ops |-> <<o>>].ops[1] = o
         /\ 1 \in DOMAIN [needs |-> needs, otherwise |-> otherwise, ops |-> <<o>>].ops
  OBVIOUS
<1>4. \A k, needs, otherwise, o, p : TheOp(k, o) /\ TheOp(k, p) =>
         /\ Fine(k, [needs |-> needs, otherwise |-> otherwise, ops |-> <<o, p>>])
         /\ [needs |-> needs, otherwise |-> otherwise, ops |-> <<o, p>>].needs = needs
  OBVIOUS
<1>5. /\ TheOp("List", Op("list", "/", "GET", "read"))
      /\ TheOp("Retrieve", Op("retrieve", IdPath, "GET", "read"))
      /\ TheOp("Create", Op("create", "/", "POST", "create"))
      /\ TheOp("Create", Op("default_values", "/default-values/", "GET", "create"))
      /\ TheOp("Update", Op("update", IdPath, "PATCH", "update"))
      /\ TheOp("Delete", Op("delete", IdPath, "DELETE", "delete"))
      /\ TheOp("Resequence", Op("resequence", "/resequence/", "POST", "resequence"))
      /\ TheOp("DisplayName", Op("display_name", "/display-name/", "GET", "display_name"))
      /\ TheOp("GroupBy", Op("group_by", "/group-by/", "POST", "group_by"))
  BY DEF TheOp
<1> HIDE DEF Fine
<1>6. Fine("List", ListMixin) /\ ListMixin.needs = "list_response_schema"
  BY <1>3, <1>5, Zenon DEF ListMixin
<1>7. Fine("Retrieve", RetrieveMixin) /\ Fine("Update", UpdateMixin) /\ Fine("Delete", DeleteMixin)
  BY <1>3, <1>5, Zenon DEF RetrieveMixin, UpdateMixin, DeleteMixin
<1>8. Fine("Create", CreateMixin) /\ CreateMixin.needs = "create_request_schema"
  BY <1>4, <1>5, Zenon DEF CreateMixin
<1>9. /\ Fine("Resequence", ResequenceMixin) /\ 1 \in DOMAIN ResequenceMixin.ops
      /\ Fine("DisplayName", DisplayNameMixin) /\ 1 \in DOMAIN DisplayNameMixin.ops
      /\ Fine("GroupBy", GroupByMixin) /\ 1 \in DOMAIN GroupByMixin.ops
  BY <1>3, <1>5, Zenon DEF ResequenceMixin, DisplayNameMixin, GroupByMixin
<1>10. /\ Mixin["List"] = ListMixin /\ Mixin["Retrieve"] = RetrieveMixin /\ Mixin["Create"] = CreateMixin
       /\ Mixin["Update"] = UpdateMixin /\ Mixin["Delete"] = DeleteMixin /\ Mixin["Resequence"] = ResequenceMixin
       /\ Mixin["DisplayName"] = DisplayNameMixin /\ Mixin["GroupBy"] = GroupByMixin
  BY DEF Mixin
<1>11. Fine(m, Mixin[m])
  BY <1>2, <1>6, <1>7, <1>8, <1>9, <1>10
<1>12. /\ m = "List" => Mixin[m].needs = "list_response_schema"
       /\ m = "Create" => Mixin[m].needs = "create_request_schema"
       /\ m \in {"Resequence", "DisplayName", "GroupBy"} => 1 \in DOMAIN Mixin[m].ops
  BY <1>6, <1>8, <1>9, <1>10
<1>13. QED  BY <1>1, <1>11, <1>12 DEF Fine, OpsOf, ToSet

\* A function is of one mixin, and a path with its method is one operation.
LEMMA OneOperation ==
    ASSUME NEW m \in DOMAIN Mixin, NEW n \in DOMAIN Mixin, NEW o \in OpsOf(m), NEW p \in OpsOf(n)
    PROVE  /\ o.fn = p.fn => m = n /\ o = p
           /\ o.path = p.path /\ o.method = p.method => o = p
<1>1. TheOp(m, o) /\ TheOp(n, p)
  BY MixinOps
<1>2. \A fn, path, method, scope :
        /\ Op(fn, path, method, scope).fn = fn /\ Op(fn, path, method, scope).path = path
        /\ Op(fn, path, method, scope).method = method
  BY DEF Op
<1>3. o.fn = p.fn => m = n /\ o = p
  BY <1>1, <1>2 DEF TheOp
<1>4. o.path = p.path /\ o.method = p.method => o = p
  BY <1>1, <1>2, PathsDiffer DEF TheOp
<1>5. QED  BY <1>3, <1>4

\* The paths with an id are those of three functions; the fixed ones, but for "/",
\* those that _check_static_route looks for.
LEMMA PathOfOperation ==
    ASSUME NEW m \in DOMAIN Mixin, NEW o \in OpsOf(m)
    PROVE  /\ o.path = IdPath => o.fn \in {"retrieve", "update", "delete"}
           /\ o.path \notin {"/", IdPath} =>
                m \in {"Create", "Resequence", "DisplayName", "GroupBy"} /\ o.fn = StaticName(m)
<1>1. TheOp(m, o)
  BY MixinOps
<1>2. \A fn, path, method, scope :
        Op(fn, path, method, scope).fn = fn /\ Op(fn, path, method, scope).path = path
  BY DEF Op
<1>3. o.path = IdPath => o.fn \in {"retrieve", "update", "delete"}
  BY <1>1, <1>2, PathsDiffer DEF TheOp
<1>4. ASSUME o.path \notin {"/", IdPath}
      PROVE  m \in {"Create", "Resequence", "DisplayName", "GroupBy"} /\ o.fn = StaticName(m)
  <2>1. \/ m = "Create" /\ o.fn = "default_values"
        \/ m \in {"Resequence", "DisplayName", "GroupBy"}
    BY <1>1, <1>2, <1>4, PathsDiffer DEF TheOp
  <2>2. m \in {"Resequence", "DisplayName", "GroupBy"} => o = Mixin[m].ops[1]
    <3>1. ASSUME m \in {"Resequence", "DisplayName", "GroupBy"} PROVE o = Mixin[m].ops[1]
      <4>1. TheOp(m, Mixin[m].ops[1])
        BY <3>1, MixinOps
      <4>2. QED  BY <1>1, <3>1, <4>1 DEF TheOp
    <3>2. QED  BY <3>1
  <2>3. QED  BY <2>1, <2>2 DEF StaticName
<1>5. QED  BY <1>3, <1>4

\* The function that _check_static_route looks for is one of the mixin.
LEMMA StaticOf ==
    ASSUME NEW m \in {"Create", "Resequence", "DisplayName", "GroupBy"}
    PROVE  m \in DOMAIN Mixin /\ \E o \in OpsOf(m) : o.fn = StaticName(m)
<1>1. m \in DOMAIN Mixin
  BY DEF Mixin
<1>2. CASE m = "Create"
  <2> DEFINE o == Op("create", "/", "POST", "create")
             p == Op("default_values", "/default-values/", "GET", "create")
  <2>1. p.fn = "default_values"
    BY DEF Op
  <2>2. Mixin["Create"] = CreateMixin
    BY DEF Mixin
  <2>3. CreateMixin.ops = <<o, p>>
    BY DEF CreateMixin
  <2> HIDE DEF o, p
  <2>4. p \in ToSet(<<o, p>>)
    BY DEF ToSet
  <2>5. p \in OpsOf(m)
    BY <1>2, <2>2, <2>3, <2>4 DEF OpsOf
  <2>6. StaticName(m) = "default_values"
    BY <1>2 DEF StaticName
  <2>7. QED  BY <1>1, <2>1, <2>5, <2>6
<1>3. CASE m # "Create"
  <2>1. Mixin[m].ops[1] \in OpsOf(m) /\ StaticName(m) = Mixin[m].ops[1].fn
    BY <1>1, <1>3, MixinOps DEF StaticName
  <2>2. QED  BY <1>1, <2>1
<1>4. QED  BY <1>2, <1>3

----------------------------------------------------------------------------
(* The routes of one class.                                                *)

\* A controller that some start declares.
DeclaredOK(d) == \E q \in Plans : d \in ControllersOf(q)

\* The routes the mixins register are of mixins it inherits, and of its model.
LEMMA ChainOp ==
    ASSUME NEW d, DeclaredOK(d), NEW o \in ChainOps(d)
    PROVE  /\ \E m \in Inherited(d) : {"model", Mixin[m].needs} \subseteq d.has /\ m \in ToSet(Chain(d)) /\ o \in OpsOf(m)
           /\ o \in InheritedOps(d) /\ o.fn \in MixinFunctions
<1> DEFINE M == Inherited(d)
           q == Chain(d)
<1>1. q \in Seq(M)
  BY ControllersAssumption DEF DeclaredOK
<1>2. M \subseteq DOMAIN Mixin
  BY DEF Inherited
<1>3. PICK m \in ToSet(q) : {"model", Mixin[m].needs} \subseteq d.has /\ o \in OpsOf(m)
  BY DEF ChainOps
<1>4. m \in M
  <2> HIDE DEF M, q
  <2>1. QED  BY <1>1, <1>3 DEF ToSet
<1>5. o \in InheritedOps(d)
  BY <1>3, <1>4 DEF InheritedOps
<1>6. o.fn \in MixinFunctions
  BY <1>2, <1>3, <1>4, MixinOps
<1>7. QED  BY <1>3, <1>4, <1>5, <1>6

\* The __dict__ of a class: the names of its body, then the functions set on it,
\* each of them once.
DictOK(d, dict, fns) ==
    /\ dict \in Seq(OwnFunctions(d) \cup MixinFunctions)
    /\ \A i, j \in DOMAIN dict : dict[i] = dict[j] => i = j
    /\ \A i \in DOMAIN d.body : i \in DOMAIN dict /\ dict[i] = d.body[i].fn
    /\ ToSet(dict) = OwnFunctions(d) \cup fns

\* The body of a class comes first, and SetAttr adds a name at the end.
LEMMA DictStart ==
    ASSUME NEW d, DeclaredOK(d)
    PROVE  DictOK(d, BodyNames_(d), {})
<1> DEFINE T == ToSet(d.body)
           b == d.body
           dict == BodyNames_(d)
           S == OwnFunctions(d) \cup MixinFunctions
<1>1. /\ b \in Seq(T)
      /\ \A i, j \in DOMAIN b : b[i].fn = b[j].fn => i = j
  BY RoutesAssumption DEF DeclaredOK
<1>2. Len(b) \in Nat /\ DOMAIN b = 1..Len(b)
  <2> HIDE DEF T, b
  <2>1. QED  BY <1>1
<1>3. DOMAIN dict = DOMAIN b /\ \A i \in DOMAIN b : dict[i] = b[i].fn
  BY DEF BodyNames_
<1>4. ToSet(dict) = OwnFunctions(d)
  BY DEF OwnFunctions
<1>5. dict \in Seq(S)
  <2>1. \A i \in DOMAIN b : dict[i] \in OwnFunctions(d)
    BY <1>3, <1>4 DEF ToSet
  <2>2. dict = [i \in 1..Len(b) |-> dict[i]]
    BY <1>2 DEF BodyNames_
  <2> HIDE DEF dict, b, S
  <2>3. \A i \in 1..Len(b) : dict[i] \in S
    BY <1>2, <2>1 DEF S
  <2>4. QED  BY <1>2, <2>2, <2>3
<1>6. QED  BY <1>1, <1>3, <1>4, <1>5 DEF DictOK

LEMMA DictGrows ==
    ASSUME NEW d, NEW dict, NEW fns, DictOK(d, dict, fns), NEW fn \in MixinFunctions
    PROVE  DictOK(d, SetAttr(dict, fn), fns \cup {fn})
<1> DEFINE S == OwnFunctions(d) \cup MixinFunctions
           e == SetAttr(dict, fn)
<1>1. dict \in Seq(S) /\ fn \in S
  BY DEF DictOK
<1> HIDE DEF S
<1>2. CASE fn \in ToSet(dict)
  <2>1. e = dict
    BY <1>2 DEF SetAttr
  <2>2. OwnFunctions(d) \cup fns = OwnFunctions(d) \cup (fns \cup {fn})
    BY <1>2 DEF DictOK
  <2>3. QED  BY <2>1, <2>2 DEF DictOK
<1>3. CASE fn \notin ToSet(dict)
  <2>1. e = Append(dict, fn)
    BY <1>3 DEF SetAttr
  <2> HIDE DEF e
  <2>2. /\ e \in Seq(S) /\ Len(dict) \in Nat /\ DOMAIN dict = 1..Len(dict)
        /\ DOMAIN e = 1..(Len(dict) + 1)
        /\ \A i \in 1..Len(dict) : e[i] = dict[i]
        /\ e[Len(dict) + 1] = fn
    BY <1>1, <2>1
  <2>3. \A i \in DOMAIN dict : dict[i] # fn
    BY <1>3 DEF ToSet
  <2>4. DOMAIN e = DOMAIN dict \cup {Len(dict) + 1} /\ Len(dict) + 1 \notin DOMAIN dict
    BY <2>2
  <2>5. \A i, j \in DOMAIN e : e[i] = e[j] => i = j
    BY <2>2, <2>3, <2>4 DEF DictOK
  <2>6. ToSet(e) = ToSet(dict) \cup {fn}
    BY <2>2, <2>4 DEF ToSet
  <2>7. \A i \in DOMAIN d.body : i \in DOMAIN e /\ e[i] = d.body[i].fn
    BY <2>2, <2>4 DEF DictOK
  <2>8. ToSet(dict) = OwnFunctions(d) \cup fns
    BY DEF DictOK
  <2>9. ToSet(e) = OwnFunctions(d) \cup (fns \cup {fn})
    BY <2>6, <2>8
  <2>10. QED  BY <2>2, <2>5, <2>7, <2>9 DEF DictOK, S, e
<1>4. QED  BY <1>2, <1>3

BodyFunctions == {"create", "update", "resequence", "group_by"}

\* What other controllers left on the functions of the mixins: filters on "list"
\* only, a body only on the functions that take one.
AnnotationsOK(a) ==
    /\ DOMAIN a = MixinFunctions
    /\ \A fn \in MixinFunctions :
         /\ fn # "list" => a[fn].query = None
         /\ fn \notin BodyFunctions => a[fn].body = None

OwnRoute(d, x) ==
    /\ x.ctrl = d.name
    /\ x.ann.path = d.name
    /\ x.ann.query \in {d.name, None} /\ x.ann.body \in {d.name, None}

\* A route that a mixin registered for the function fn.
GeneratedRoute(d, fn, x) ==
    /\ x.op \in ChainOps(d) /\ x.op.fn = fn
    /\ x.guard = CrudGuard(d, x.op) /\ ~ScopeRefused(d, x.op)

\* A class statement under way.
StateOK(d, st) ==
    /\ DOMAIN st = {"dict", "mark", "annotations", "registered", "refused"}
    /\ AnnotationsOK(st.annotations)
    /\ DictOK(d, st.dict, DOMAIN st.registered)
    /\ \A fn \in DOMAIN st.registered :
         OwnRoute(d, st.registered[fn]) /\ GeneratedRoute(d, fn, st.registered[fn])

\* What is registered stays so, and what is refused.
Extends(t, st) == DOMAIN st.registered \subseteq DOMAIN t.registered /\ t.refused = st.refused

\* The wrapper of a function overwrites what another controller may have left on it.
LEMMA AnnotatedOwn ==
    ASSUME NEW d, NEW fn, NEW old,
           fn = "list" => "list_filter_schema" \in d.has,
           fn # "list" => old.query = None, fn \notin BodyFunctions => old.body = None
    PROVE  /\ Annotated(d, fn, old).path = d.name
           /\ Annotated(d, fn, old).query \in {d.name, None}
           /\ Annotated(d, fn, old).body \in {d.name, None}
           /\ fn # "list" => Annotated(d, fn, old).query = None
           /\ fn \notin BodyFunctions => Annotated(d, fn, old).body = None
  BY DEF Annotated, BodyFunctions

\* One function registered: the route is of this controller, whatever it found.
LEMMA RegisteredOwn ==
    ASSUME NEW d, NEW st, NEW o \in ChainOps(d), StateOK(d, st), DeclaredOK(d),
           o.fn = "list" => "list_filter_schema" \in d.has, ~ScopeRefused(d, o)
    PROVE  LET t == method_to_route_function(d, st, o)
           IN  StateOK(d, t) /\ Extends(t, st) /\ o.fn \in DOMAIN t.registered
<1> DEFINE shared == o.fn \notin OwnFunctions(d)
           old == IF shared THEN st.annotations[o.fn] ELSE Unannotated
           new == Annotated(d, o.fn, old)
           x == [ctrl |-> d.name, op |-> o, ann |-> new, guard |-> CrudGuard(d, o)]
           t == method_to_route_function(d, st, o)
<1>1. /\ DOMAIN t = DOMAIN st
      /\ t.annotations = [st.annotations EXCEPT ![o.fn] = IF shared THEN new ELSE @]
      /\ t.registered = SetDefault(st.registered, o.fn, x)
      /\ t.dict = SetAttr(st.dict, o.fn)
      /\ t.refused = st.refused
  BY DEF method_to_route_function, StateOK
<1>2. /\ o.fn # "list" => old.query = None
      /\ o.fn \notin BodyFunctions => old.body = None
  <2>1. o.fn \in MixinFunctions
    BY ChainOp
  <2>2. QED  BY <2>1 DEF StateOK, AnnotationsOK, Unannotated
<1> HIDE DEF old
<1>3. /\ new.path = d.name /\ new.query \in {d.name, None} /\ new.body \in {d.name, None}
      /\ o.fn # "list" => new.query = None
      /\ o.fn \notin BodyFunctions => new.body = None
  BY <1>2, AnnotatedOwn
<1> HIDE DEF new
<1>4. OwnRoute(d, x)
  BY <1>3 DEF OwnRoute
<1>5. GeneratedRoute(d, o.fn, x)
  <2>1. x.op = o /\ x.guard = CrudGuard(d, o)
    OBVIOUS
  <2> HIDE DEF x
  <2>2. QED  BY <2>1 DEF GeneratedRoute
<1> HIDE DEF x, t, shared
<1>6. AnnotationsOK(t.annotations)
  BY <1>1, <1>3 DEF StateOK, AnnotationsOK
<1>7. /\ DOMAIN t.registered = DOMAIN st.registered \cup {o.fn}
      /\ \A fn \in DOMAIN st.registered : t.registered[fn] = st.registered[fn]
      /\ o.fn \notin DOMAIN st.registered => t.registered[o.fn] = x
  BY <1>1 DEF SetDefault
<1>8. ASSUME NEW fn \in DOMAIN t.registered
      PROVE  OwnRoute(d, t.registered[fn]) /\ GeneratedRoute(d, fn, t.registered[fn])
  <2>1. CASE fn \in DOMAIN st.registered
    BY <1>7, <2>1 DEF StateOK
  <2>2. CASE fn \notin DOMAIN st.registered
    <3>1. fn = o.fn /\ t.registered[fn] = x
      BY <1>7, <1>8, <2>2
    <3>2. QED  BY <1>4, <1>5, <3>1
  <2>3. QED  BY <2>1, <2>2
<1>9. DictOK(d, t.dict, DOMAIN t.registered)
  <2>1. DictOK(d, st.dict, DOMAIN st.registered) /\ o.fn \in MixinFunctions
    BY ChainOp DEF StateOK
  <2>2. DictOK(d, SetAttr(st.dict, o.fn), DOMAIN st.registered \cup {o.fn})
    BY <2>1, DictGrows
  <2>3. QED  BY <1>1, <1>7, <2>2
<1>10. DOMAIN t = {"dict", "mark", "annotations", "registered", "refused"}
  BY <1>1 DEF StateOK
<1>11. StateOK(d, t)
  BY <1>6, <1>8, <1>9, <1>10 DEF StateOK
<1>12. QED  BY <1>1, <1>7, <1>11 DEF Extends, t

\* What one mixin leaves: its functions registered, or the class refused.
Served_(d, t, m) ==
    t.refused \/ ({"model", Mixin[m].needs} \subseteq d.has => \A o \in OpsOf(m) : o.fn \in DOMAIN t.registered)
MixinDone(d, st, t, m) ==
    /\ StateOK(d, t)
    /\ DOMAIN st.registered \subseteq DOMAIN t.registered
    /\ st.refused => t.refused
    /\ Served_(d, t, m)

\* The functions of one mixin, in turn.
LEMMA MixinOwn ==
    ASSUME NEW d, NEW st, NEW m \in DOMAIN Mixin, m \in ToSet(Chain(d)), StateOK(d, st), DeclaredOK(d)
    PROVE  MixinDone(d, st, MixinRoutes(d, st, m), m)
<1> DEFINE q == Mixin[m].ops
           n == Len(q)
           body(f) == [s \in SUBSET (1..n) |->
                         IF s = {} THEN st ELSE method_to_route_function(d, f[s \ {Max(s)}], q[Max(s)])]
           iter == CHOOSE f : f = body(f)
<1>1. n \in Nat /\ DOMAIN q = 1..n
  BY MixinOps
<1>2. FoldLeft(LAMBDA x, o : method_to_route_function(d, x, o), st, q) = iter[1..n]
  <2>1. FoldLeft(LAMBDA x, o : method_to_route_function(d, x, o), st, q)
          = (CHOOSE f : f = [s \in SUBSET DOMAIN q |->
                 IF s = {} THEN st ELSE method_to_route_function(d, f[s \ {Max(s)}], q[Max(s)])])[DOMAIN q]
    BY DEF FoldLeft, MapThenFoldSet
  <2>2. QED  BY <1>1, <2>1
<1>3. iter = body(iter)
  <2>1. \E f : f = body(f)
    <3> HIDE DEF q, n
    <3>1. PICK g : \A s \in SUBSET (1..n) : g[s] =
                     IF s = {} THEN st ELSE method_to_route_function(d, g[s \ {Max(s)}], q[Max(s)])
      <4>1. OpsFold(d, q, n, st)
        BY <1>1, OpsUnfold
      <4>2. QED  BY <4>1, Zenon DEF OpsFold
    <3> DEFINE h == [s \in SUBSET (1..n) |-> g[s]]
    <3>2. ASSUME NEW s \in SUBSET (1..n)
          PROVE  h[s] = IF s = {} THEN st ELSE method_to_route_function(d, h[s \ {Max(s)}], q[Max(s)])
      <4>1. h[s] = g[s] /\ h[s \ {Max(s)}] = g[s \ {Max(s)}]
        OBVIOUS
      <4>2. QED  BY <3>1, <4>1
    <3>3. h = [s \in SUBSET (1..n) |-> h[s]]
      OBVIOUS
    <3> HIDE DEF h
    <3>4. h = body(h)
      BY <3>2, <3>3
    <3>5. QED  BY <3>4
  <2>2. QED  BY <2>1
<1> HIDE DEF iter
<1>4. StateOK(d, [st EXCEPT !.refused = TRUE]) /\ MixinDone(d, st, [st EXCEPT !.refused = TRUE], m)
  <2> DEFINE t == [st EXCEPT !.refused = TRUE]
  <2>1. /\ DOMAIN t = DOMAIN st /\ t.dict = st.dict /\ t.annotations = st.annotations
        /\ t.registered = st.registered /\ t.refused
    BY DEF StateOK
  <2> HIDE DEF t
  <2>2. StateOK(d, t)
    BY <2>1 DEF StateOK
  <2>3. MixinDone(d, st, t, m)
    BY <2>1, <2>2 DEF MixinDone, Served_
  <2>4. QED  BY <2>2, <2>3 DEF t
<1>5. CASE {"model", Mixin[m].needs} \subseteq d.has /\ ~ \E o \in OpsOf(m) : ScopeRefused(d, o)
  <2>1. \A i \in 1..n : /\ q[i] \in ChainOps(d) /\ ~ScopeRefused(d, q[i])
                        /\ q[i].fn = "list" => "list_filter_schema" \in d.has
    <3>1. \A i \in 1..n : q[i] \in OpsOf(m)
      BY <1>1 DEF OpsOf, ToSet
    <3>2. OpsOf(m) \subseteq ChainOps(d)
      BY <1>5 DEF ChainOps
    <3>3. ASSUME NEW o \in OpsOf(m), o.fn = "list"
          PROVE  "list_filter_schema" \in d.has
      <4>1. TheOp(m, o)
        BY MixinOps
      <4>2. m = "List"
        BY <3>3, <4>1 DEF TheOp, Op
      <4>3. {"model", "list_response_schema"} \subseteq d.has
        BY <1>5, <4>2, MixinOps
      <4>4. QED  BY <4>3, ControllersAssumption DEF DeclaredOK
    <3>4. QED  BY <1>5, <3>1, <3>2, <3>3
  <2> DEFINE Inv(i) == /\ StateOK(d, iter[1..i]) /\ Extends(iter[1..i], st)
                       /\ \A j \in 1..i : q[j].fn \in DOMAIN iter[1..i].registered
             T == {i \in 0..n : ~Inv(i)}
  <2> HIDE DEF q, n
  <2>2. T = {}
    <3> SUFFICES ASSUME T # {} PROVE FALSE
      OBVIOUS
    <3>1. T \subseteq Nat
      BY <1>1
    <3>2. PICK k \in T : \A i \in T : k <= i
      <4> HIDE DEF T
      <4>1. QED  BY <3>1, Least
    <3>3. k \in 0..n /\ k \in Nat /\ ~Inv(k)
      BY <1>1
    <3>4. k # 0
      <4>1. SUFFICES ASSUME k = 0 PROVE FALSE
        OBVIOUS
      <4>2. 1..k = {}
        BY <4>1
      <4>3. {} \in SUBSET (1..n)
        OBVIOUS
      <4>4. iter[{}] = st
        BY <1>3, <4>3
      <4>5. Inv(k)
        BY <4>2, <4>4 DEF Extends
      <4>6. QED  BY <3>3, <4>5
    <3>5. /\ k \in 1..n /\ k - 1 \in 0..n /\ ~(k <= k - 1)
          /\ 1..k \in SUBSET (1..n) /\ k \in 1..k /\ (1..k) \ {k} = 1..(k - 1)
      BY <1>1, <3>3, <3>4
    <3>6. Inv(k - 1)
      BY <3>2, <3>5
    <3>7. Max(1..k) = k
      BY <3>3, <3>5, LastIsMax
    <3>8. iter[1..k] = method_to_route_function(d, iter[1..(k - 1)], q[k])
      <4>1. 1..k # {}
        BY <3>5
      <4>2. iter[1..k] = method_to_route_function(d, iter[(1..k) \ {Max(1..k)}], q[Max(1..k)])
        BY <1>3, <3>5, <4>1
      <4>3. QED  BY <3>5, <3>7, <4>2
    <3> DEFINE x == iter[1..(k - 1)]
               y == iter[1..k]
    <3>9. StateOK(d, x) /\ Extends(x, st) /\ \A j \in 1..(k - 1) : q[j].fn \in DOMAIN x.registered
      BY <3>6
    <3>10. y = method_to_route_function(d, x, q[k])
      BY <3>8
    <3>11. q[k] \in ChainOps(d) /\ ~ScopeRefused(d, q[k]) /\ (q[k].fn = "list" => "list_filter_schema" \in d.has)
      BY <2>1, <3>5
    <3> HIDE DEF x, y
    <3>12. StateOK(d, y) /\ Extends(y, x) /\ q[k].fn \in DOMAIN y.registered
      BY <3>9, <3>10, <3>11, RegisteredOwn
    <3>13. \A j \in 1..k : q[j].fn \in DOMAIN y.registered
      <4>1. \A j \in 1..k : j = k \/ j \in 1..(k - 1)
        BY <3>5
      <4>2. QED  BY <3>9, <3>12, <4>1 DEF Extends
    <3>14. Inv(k)
      BY <3>9, <3>12, <3>13 DEF Extends, x, y
    <3>15. QED  BY <3>3, <3>14
  <2>3. Inv(n)
    BY <1>1, <2>2
  <2>4. MixinRoutes(d, st, m) = iter[1..n]
    BY <1>2, <1>5 DEF MixinRoutes, q
  <2>5. \A o \in OpsOf(m) : \E j \in 1..n : o = q[j]
    BY <1>1 DEF OpsOf, ToSet, q
  <2> DEFINE t == iter[1..n]
  <2>6. StateOK(d, t) /\ Extends(t, st) /\ \A j \in 1..n : q[j].fn \in DOMAIN t.registered
    BY <2>3
  <2> HIDE DEF t
  <2>7. \A o \in OpsOf(m) : o.fn \in DOMAIN t.registered
    BY <2>5, <2>6
  <2>8. MixinDone(d, st, t, m)
    BY <2>6, <2>7 DEF MixinDone, Served_, Extends
  <2>9. QED  BY <2>4, <2>8 DEF t
<1>6. CASE ~({"model", Mixin[m].needs} \subseteq d.has /\ ~ \E o \in OpsOf(m) : ScopeRefused(d, o))
  <2>1. MixinRoutes(d, st, m) \in {st, [st EXCEPT !.refused = TRUE]}
    BY <1>6 DEF MixinRoutes
  <2>2. MixinRoutes(d, st, m) = st => ~({"model", Mixin[m].needs} \subseteq d.has) \/ st.refused
    <3>1. [st EXCEPT !.refused = TRUE].refused
      BY DEF StateOK
    <3>2. {"model", Mixin[m].needs} \subseteq d.has => MixinRoutes(d, st, m) = [st EXCEPT !.refused = TRUE]
      BY <1>6 DEF MixinRoutes
    <3>3. QED  BY <3>1, <3>2
  <2>3. MixinRoutes(d, st, m) = st => MixinDone(d, st, st, m)
    BY <2>2 DEF MixinDone, Served_
  <2>4. QED  BY <1>4, <2>1, <2>3
<1>7. QED  BY <1>5, <1>6

\* The mixins of one class, in turn.
LEMMA ChainOwn ==
    ASSUME NEW d, DeclaredOK(d), AnnotationsOK(annotations)
    PROVE  /\ StateOK(d, ChainRoutes(d))
           /\ \/ ChainRoutes(d).refused
              \/ DOMAIN ChainRoutes(d).registered = {o.fn : o \in ChainOps(d)}
<1> DEFINE q == Chain(d)
           n == Len(q)
           st == [dict |-> BodyNames_(d), mark |-> mark, annotations |-> annotations,
                  registered |-> << >>, refused |-> FALSE]
           body(f) == [s \in SUBSET (1..n) |->
                         IF s = {} THEN st ELSE MixinRoutes(d, f[s \ {Max(s)}], q[Max(s)])]
           iter == CHOOSE f : f = body(f)
<1>1. n \in Nat /\ DOMAIN q = 1..n /\ \A i \in 1..n : q[i] \in DOMAIN Mixin
  <2> DEFINE M == Inherited(d)
  <2>1. q \in Seq(M)
    BY ControllersAssumption DEF DeclaredOK
  <2>2. M \subseteq DOMAIN Mixin
    BY DEF Inherited
  <2> HIDE DEF q, M
  <2>3. Len(q) \in Nat /\ DOMAIN q = 1..Len(q) /\ \A i \in 1..Len(q) : q[i] \in M
    BY <2>1
  <2>4. QED  BY <2>2, <2>3
<1>2. StateOK(d, st)
  <2>1. DOMAIN st = {"dict", "mark", "annotations", "registered", "refused"}
    OBVIOUS
  <2>2. st.annotations = annotations /\ DOMAIN st.registered = {} /\ st.dict = BodyNames_(d)
    OBVIOUS
  <2>3. DictOK(d, BodyNames_(d), {})
    BY DictStart
  <2> HIDE DEF st
  <2>4. QED  BY <2>1, <2>2, <2>3 DEF StateOK
<1> HIDE DEF st
<1>3. ChainRoutes(d) = iter[1..n]
  <2>1. ChainRoutes(d)
          = (CHOOSE f : f = [s \in SUBSET DOMAIN q |->
                 IF s = {} THEN st ELSE MixinRoutes(d, f[s \ {Max(s)}], q[Max(s)])])[DOMAIN q]
    BY DEF ChainRoutes, FoldLeft, MapThenFoldSet, st
  <2>2. QED  BY <1>1, <2>1
<1>4. iter = body(iter)
  <2>1. \E f : f = body(f)
    <3> HIDE DEF q, n
    <3>1. PICK g : \A s \in SUBSET (1..n) : g[s] =
                     IF s = {} THEN st ELSE MixinRoutes(d, g[s \ {Max(s)}], q[Max(s)])
      <4>1. ChainFold(d, q, n, st)
        BY <1>1, ChainUnfolds
      <4>2. QED  BY <4>1, Zenon DEF ChainFold
    <3> DEFINE h == [s \in SUBSET (1..n) |-> g[s]]
    <3>2. ASSUME NEW s \in SUBSET (1..n)
          PROVE  h[s] = IF s = {} THEN st ELSE MixinRoutes(d, h[s \ {Max(s)}], q[Max(s)])
      <4>1. h[s] = g[s] /\ h[s \ {Max(s)}] = g[s \ {Max(s)}]
        OBVIOUS
      <4>2. QED  BY <3>1, <4>1
    <3>3. h = [s \in SUBSET (1..n) |-> h[s]]
      OBVIOUS
    <3> HIDE DEF h
    <3>4. h = body(h)
      BY <3>2, <3>3
    <3>5. QED  BY <3>4
  <2>2. QED  BY <2>1
<1> DEFINE Inv(i) == /\ StateOK(d, iter[1..i])
                     /\ \A j \in 1..i : Served_(d, iter[1..i], q[j])
           T == {i \in 0..n : ~Inv(i)}
<1>5. \A i \in 1..n : q[i] \in ToSet(Chain(d))
  BY <1>1 DEF ToSet
<1> HIDE DEF iter, q, n
<1>6. T = {}
  <2> SUFFICES ASSUME T # {} PROVE FALSE
    OBVIOUS
  <2>1. T \subseteq Nat
    BY <1>1
  <2>2. PICK k \in T : \A i \in T : k <= i
    <3> HIDE DEF T
    <3>1. QED  BY <2>1, Least
  <2>3. k \in 0..n /\ k \in Nat /\ ~Inv(k)
    BY <1>1
  <2>4. k # 0
    <3>1. SUFFICES ASSUME k = 0 PROVE FALSE
      OBVIOUS
    <3>2. 1..k = {}
      BY <3>1
    <3>3. {} \in SUBSET (1..n)
      OBVIOUS
    <3>4. iter[{}] = st
      BY <1>4, <3>3
    <3>5. Inv(k)
      BY <1>2, <3>2, <3>4
    <3>6. QED  BY <2>3, <3>5
  <2>5. /\ k \in 1..n /\ k - 1 \in 0..n /\ ~(k <= k - 1)
        /\ 1..k \in SUBSET (1..n) /\ k \in 1..k /\ (1..k) \ {k} = 1..(k - 1)
    BY <1>1, <2>3, <2>4
  <2>6. Inv(k - 1)
    BY <2>2, <2>5
  <2>7. Max(1..k) = k
    BY <2>3, <2>5, LastIsMax
  <2>8. iter[1..k] = MixinRoutes(d, iter[1..(k - 1)], q[k])
    <3>1. 1..k # {}
      BY <2>5
    <3>2. iter[1..k] = MixinRoutes(d, iter[(1..k) \ {Max(1..k)}], q[Max(1..k)])
      BY <1>4, <2>5, <3>1
    <3>3. QED  BY <2>5, <2>7, <3>2
  <2> DEFINE x == iter[1..(k - 1)]
             y == iter[1..k]
  <2>9. StateOK(d, x) /\ \A j \in 1..(k - 1) : Served_(d, x, q[j])
    BY <2>6
  <2>10. y = MixinRoutes(d, x, q[k])
    BY <2>8
  <2>11. q[k] \in DOMAIN Mixin /\ q[k] \in ToSet(Chain(d))
    BY <1>1, <1>5, <2>5
  <2> HIDE DEF x, y
  <2>12. MixinDone(d, x, y, q[k])
    BY <2>9, <2>10, <2>11, MixinOwn
  <2>13. \A j \in 1..k : Served_(d, y, q[j])
    <3>1. \A j \in 1..k : j = k \/ j \in 1..(k - 1)
      BY <2>5
    <3>2. \A m : Served_(d, x, m) => Served_(d, y, m)
      BY <2>12 DEF MixinDone, Served_
    <3>3. QED  BY <2>9, <2>12, <3>1, <3>2 DEF MixinDone
  <2>14. Inv(k)
    BY <2>12, <2>13 DEF MixinDone, x, y
  <2>15. QED  BY <2>3, <2>14
<1> DEFINE t == ChainRoutes(d)
<1>7. StateOK(d, t) /\ \A j \in 1..n : Served_(d, t, q[j])
  <2>1. Inv(n)
    BY <1>1, <1>6
  <2>2. QED  BY <1>3, <2>1
<1> HIDE DEF t
<1>8. ASSUME ~t.refused
      PROVE  DOMAIN t.registered = {o.fn : o \in ChainOps(d)}
  <2>1. \A fn \in DOMAIN t.registered : t.registered[fn].op \in ChainOps(d) /\ t.registered[fn].op.fn = fn
    BY <1>7 DEF StateOK, GeneratedRoute
  <2>2. ASSUME NEW o \in ChainOps(d)
        PROVE  o.fn \in DOMAIN t.registered
    <3>1. PICK m \in ToSet(Chain(d)) : {"model", Mixin[m].needs} \subseteq d.has /\ o \in OpsOf(m)
      BY DEF ChainOps
    <3>2. PICK j \in 1..n : m = q[j]
      BY <1>1, <3>1 DEF ToSet, q
    <3>3. Served_(d, t, m)
      BY <1>7, <3>2
    <3>4. QED  BY <1>8, <3>1, <3>3 DEF Served_
  <2>3. QED  BY <2>1, <2>2
<1>9. QED  BY <1>7, <1>8 DEF t


\* Among the routes that the mixins register, a function has one and so has a path
\* with its method.
LEMMA OneOperationOfChain ==
    ASSUME NEW d, DeclaredOK(d), NEW o \in ChainOps(d), NEW p \in ChainOps(d)
    PROVE  /\ o.fn = p.fn => o = p
           /\ o.path = p.path /\ o.method = p.method => o = p
<1>1. PICK m \in Inherited(d) : o \in OpsOf(m)
  BY ChainOp
<1>2. PICK n \in Inherited(d) : p \in OpsOf(n)
  BY ChainOp
<1>3. m \in DOMAIN Mixin /\ n \in DOMAIN Mixin
  BY DEF Inherited
<1>4. QED  BY <1>1, <1>2, <1>3, OneOperation

----------------------------------------------------------------------------
(* The routers.                                                            *)

\* The route x of a router, for the function fn of its class: one that a mixin
\* registered, or one that the body declares.
RouteOK(d, fn, x) ==
    /\ OwnRoute(d, x)
    /\ \/ GeneratedRoute(d, fn, x)
       \/ x.op \in DeclaredOps(d) /\ x.op.fn = fn /\ x.guard = x.op.scope

\* The routers of the API: each is of a controller of the plan, and its routes are all
\* that the controller declares and inherits, in the order of its __dict__.
RouterOK(r) ==
    /\ r.decl \in ControllersOf(plan)
    /\ r.name = r.decl.name
    /\ DictOK(r.decl, r.dict, {o.fn : o \in ChainOps(r.decl)})
    /\ DOMAIN r.routes \subseteq DOMAIN r.dict
    /\ \A i \in DOMAIN r.routes : RouteOK(r.decl, r.dict[i], r.routes[i])
    /\ \A o \in ChainOps(r.decl) \cup DeclaredOps(r.decl) : \E i \in DOMAIN r.routes : r.routes[i].op = o

TableInv ==
    /\ AnnotationsOK(annotations)
    /\ \E S : table \in Seq(S)
    /\ \A i \in DOMAIN table : RouterOK(table[i])

\* A declared function is no function that the mixins register, and has one route.
LEMMA DeclaredAlone ==
    ASSUME NEW d, DeclaredOK(d), NEW o \in DeclaredOps(d)
    PROVE  /\ \A p \in ChainOps(d) : p.fn # o.fn
           /\ \A p \in ToSet(d.body) : p.fn = o.fn => p = o
           /\ \E i \in DOMAIN d.body : d.body[i] = o
<1>1. \A p \in ChainOps(d) : p.fn # o.fn
  BY ChainOp, RoutesAssumption DEF DeclaredOK
<1>2. \A p \in ToSet(d.body) : p.fn = o.fn => p = o
  <2>1. \A i, j \in DOMAIN d.body : d.body[i].fn = d.body[j].fn => i = j
    BY RoutesAssumption DEF DeclaredOK
  <2>2. QED  BY <2>1 DEF DeclaredOps, ToSet
<1>3. \E i \in DOMAIN d.body : d.body[i] = o
  BY DEF DeclaredOps, ToSet
<1>4. QED  BY <1>1, <1>2, <1>3

\* The route of a function that is registered, and of one that the body declares.
LEMMA RouteOfFunction ==
    ASSUME NEW d, DeclaredOK(d), NEW st, StateOK(d, st)
    PROVE  /\ \A fn \in DOMAIN st.registered :
                RouteOf(d, st, fn).op.fn = fn /\ RouteOK(d, fn, RouteOf(d, st, fn))
           /\ \A o \in DeclaredOps(d) :
                o.fn \notin DOMAIN st.registered /\ RouteOf(d, st, o.fn).op = o /\ RouteOK(d, o.fn, RouteOf(d, st, o.fn))
<1>1. ASSUME NEW fn \in DOMAIN st.registered
      PROVE  RouteOf(d, st, fn).op.fn = fn /\ RouteOK(d, fn, RouteOf(d, st, fn))
  <2>1. RouteOf(d, st, fn) = st.registered[fn]
    BY <1>1 DEF RouteOf
  <2>2. QED  BY <1>1, <2>1 DEF StateOK, RouteOK, GeneratedRoute
<1>2. ASSUME NEW o \in DeclaredOps(d)
      PROVE  o.fn \notin DOMAIN st.registered /\ RouteOf(d, st, o.fn).op = o /\ RouteOK(d, o.fn, RouteOf(d, st, o.fn))
  <2>1. o.fn \notin DOMAIN st.registered
    BY <1>2, DeclaredAlone DEF StateOK, GeneratedRoute
  <2> DEFINE c == CHOOSE x \in ToSet(d.body) : x.fn = o.fn
             a == [Unannotated EXCEPT !.path = d.name]
             x == [ctrl |-> d.name, op |-> c, ann |-> a, guard |-> c.scope]
  <2>2. c = o
    <3>1. o \in ToSet(d.body) /\ o.fn = o.fn
      BY <1>2 DEF DeclaredOps
    <3>2. c \in ToSet(d.body) /\ c.fn = o.fn
      BY <3>1
    <3> HIDE DEF c
    <3>3. QED  BY <1>2, <3>2, DeclaredAlone
  <2>3. RouteOf(d, st, o.fn) = x
    BY <2>1 DEF RouteOf
  <2>4. a.path = d.name /\ a.query = None /\ a.body = None
    BY DEF Unannotated
  <2>5. x.ctrl = d.name /\ x.ann = a /\ x.op = o /\ x.guard = o.scope
    BY <2>2
  <2> HIDE DEF x, a, c
  <2>6. RouteOK(d, o.fn, x)
    BY <1>2, <2>4, <2>5 DEF RouteOK, OwnRoute
  <2>7. QED  BY <2>1, <2>3, <2>5, <2>6
<1>3. QED  BY <1>1, <1>2

\* The router of a class statement that was not refused.
LEMMA RouterOwn ==
    ASSUME NEW d \in ControllersOf(plan), DeclaredOK(d), NEW st, StateOK(d, st),
           DOMAIN st.registered = {o.fn : o \in ChainOps(d)}
    PROVE  RouterOK(Router(d, st))
<1> DEFINE r == Router(d, st)
<1>1. /\ r.decl = d /\ r.name = d.name /\ r.dict = st.dict
      /\ r.routes = [i \in Ordered(d, st) |-> RouteOf(d, st, st.dict[i])]
  BY DEF Router
<1>2. DOMAIN r.routes = Ordered(d, st) /\ \A i \in DOMAIN r.routes : r.routes[i] = RouteOf(d, st, st.dict[i])
  BY <1>1
<1> HIDE DEF r
<1>3. DOMAIN r.routes \subseteq DOMAIN r.dict
  BY <1>1, <1>2 DEF Ordered
<1>4. ASSUME NEW i \in DOMAIN r.routes
      PROVE  RouteOK(d, r.dict[i], r.routes[i])
  <2> DEFINE fn == st.dict[i]
  <2>1. i \in DOMAIN st.dict /\ fn \in Members(d, st) /\ fn \in OwnFunctions(d) \cup DOMAIN st.registered
    BY <1>2, <1>4 DEF Ordered, StateOK, DictOK, ToSet
  <2>2. fn \in DOMAIN st.registered \/ \E o \in DeclaredOps(d) : fn = o.fn
    BY <2>1 DEF Members
  <2>3. RouteOK(d, fn, RouteOf(d, st, fn))
    BY <2>2, RouteOfFunction
  <2>4. QED  BY <1>1, <1>2, <2>3
<1>5. ASSUME NEW o \in ChainOps(d) \cup DeclaredOps(d)
      PROVE  \E i \in DOMAIN r.routes : r.routes[i].op = o
  <2>1. o.fn \in Members(d, st) /\ o.fn \in ToSet(st.dict)
    <3>1. CASE o \in ChainOps(d)
      BY <3>1 DEF Members, StateOK, DictOK
    <3>2. CASE o \in DeclaredOps(d)
      <4>1. PICK i \in DOMAIN d.body : d.body[i] = o
        BY <3>2, DeclaredAlone
      <4>2. i \in DOMAIN st.dict /\ st.dict[i] = o.fn
        BY <4>1 DEF StateOK, DictOK
      <4>3. QED  BY <3>2, <4>2 DEF Members, ToSet
    <3>3. QED  BY <1>5, <3>1, <3>2
  <2>2. PICK i \in DOMAIN st.dict : st.dict[i] = o.fn
    BY <2>1 DEF ToSet
  <2>3. i \in DOMAIN r.routes /\ r.routes[i] = RouteOf(d, st, o.fn)
    BY <1>2, <2>1, <2>2 DEF Ordered
  <2>4. RouteOf(d, st, o.fn).op = o
    <3>1. CASE o \in DeclaredOps(d)
      BY <3>1, RouteOfFunction
    <3>2. CASE o \in ChainOps(d)
      <4>1. o.fn \in DOMAIN st.registered
        BY <3>2
      <4>2. RouteOf(d, st, o.fn) = st.registered[o.fn]
        BY <4>1 DEF RouteOf
      <4>3. st.registered[o.fn].op \in ChainOps(d) /\ st.registered[o.fn].op.fn = o.fn
        BY <4>1 DEF StateOK, GeneratedRoute
      <4>4. QED  BY <3>2, <4>2, <4>3, OneOperationOfChain
    <3>3. QED  BY <1>5, <3>1, <3>2
  <2>5. QED  BY <2>3, <2>4
<1>6. DictOK(d, r.dict, {o.fn : o \in ChainOps(d)})
  BY <1>1 DEF StateOK
<1>7. QED  BY <1>1, <1>3, <1>4, <1>5, <1>6 DEF RouterOK, r

LEMMA TableStart == Init => TableInv
<1> SUFFICES ASSUME Init PROVE TableInv
  OBVIOUS
<1>1. /\ annotations = [fn \in MixinFunctions |-> Unannotated]
      /\ table = <<>>
  BY DEF Init
<1>2. AnnotationsOK(annotations)
  BY <1>1 DEF AnnotationsOK, Unannotated
<1>3. table \in Seq({}) /\ DOMAIN table = {}
  BY <1>1
<1>4. QED  BY <1>2, <1>3 DEF TableInv

LEMMA TableStep == PlanInv /\ TableInv /\ [Next]_vars => TableInv'
<1> SUFFICES ASSUME PlanInv, TableInv, [Next]_vars
             PROVE  TableInv'
  OBVIOUS
<1>1. CASE ImportController
  <2> DEFINE d == Statement
             st == ChainRoutes(d)
             r == Router(d, st)
  <2>1. plan' = plan /\ d \in ControllersOf(plan)
    BY <1>1, OneMore DEF ImportController, ControllersOf
  <2>2. DeclaredOK(d)
    BY <2>1 DEF DeclaredOK, PlanInv
  <2>3. StateOK(d, st) /\ (st.refused \/ DOMAIN st.registered = {o.fn : o \in ChainOps(d)})
    BY <2>2, ChainOwn DEF TableInv
  <2>4. \/ annotations' = annotations /\ table' = table
        \/ annotations' = st.annotations /\ table' = Append(table, r) /\ ~st.refused
    BY <1>1 DEF ImportController, ClassStatement
  <2>5. ~st.refused => RouterOK(r)
    BY <2>1, <2>2, <2>3, RouterOwn
  <2> HIDE DEF d, st, r
  <2>6. CASE annotations' = annotations /\ table' = table
    <3>1. \A i \in DOMAIN table' : RouterOK(table'[i])
      BY <2>6 DEF TableInv
    <3>2. \A i \in DOMAIN table' : RouterOK(table[i])'
      BY <2>1, <3>1 DEF RouterOK
    <3>3. QED  BY <2>6, <3>2 DEF TableInv
  <2>7. CASE annotations' = st.annotations /\ table' = Append(table, r) /\ ~st.refused
    <3>1. AnnotationsOK(annotations')
      BY <2>3, <2>7 DEF StateOK
    <3>2. PICK S : table \in Seq(S)
      BY DEF TableInv
    <3>3. table \in Seq(S \cup {r})
      BY <3>2
    <3>4. table' \in Seq(S \cup {r})
      BY <2>7, <3>3
    <3>5. \A i \in DOMAIN table' : table'[i] = r \/ (i \in DOMAIN table /\ table'[i] = table[i])
      BY <2>7, <3>3
    <3>6. \A i \in DOMAIN table' : RouterOK(table'[i])
      BY <2>7, <2>5, <3>5 DEF TableInv
    <3>7. \A i \in DOMAIN table' : RouterOK(table[i])'
      BY <2>1, <3>6 DEF RouterOK
    <3>8. QED  BY <3>1, <3>4, <3>7 DEF TableInv
  <2>8. QED  BY <2>4, <2>6, <2>7
<1>2. CASE ~ImportController
  <2>1. annotations' = annotations /\ table' = table /\ plan' = plan
    BY <1>2 DEF Next, ImportSchema, ImportService, ready, vars
  <2>2. \A i \in DOMAIN table' : RouterOK(table'[i])
    BY <2>1 DEF TableInv
  <2>3. \A i \in DOMAIN table' : RouterOK(table[i])'
    BY <2>1, <2>2 DEF RouterOK
  <2>4. QED  BY <2>1, <2>3 DEF TableInv
<1>3. QED  BY <1>1, <1>2

LEMMA TableHolds == Spec => [](PlanInv /\ SchemasInv /\ TableInv)
<1>1. Init => TableInv
  BY TableStart
<1>2. PlanInv /\ TableInv /\ [Next]_vars => TableInv'
  BY TableStep
<1>3. QED  BY <1>1, <1>2, SchemasHold, PTL DEF Spec

\* Whatever was imported before or after it, each route of a controller runs on that
\* controller and reads its path, its query and its body with the schemas of that
\* controller, although the functions of the mixins are shared (method_to_route_function).
THEOREM RoutesStayOwn == Spec => []RoutesKeepTheirController
<1>1. TableInv => RoutesKeepTheirController
  <2> SUFFICES ASSUME TableInv PROVE RoutesKeepTheirController
    OBVIOUS
  <2>1. ASSUME NEW r \in Routers
        PROVE  \A i \in DOMAIN r.routes :
                 /\ r.routes[i].ctrl = r.name
                 /\ r.routes[i].ann.path = r.name
                 /\ {r.routes[i].ann.query, r.routes[i].ann.body} \subseteq {r.name, None}
    <3>1. RouterOK(r)
      BY <2>1 DEF TableInv, Routers
    <3>2. QED  BY <3>1 DEF RouterOK, RouteOK, OwnRoute
  <2>2. QED  BY <2>1 DEF RoutesKeepTheirController
<1>2. QED  BY <1>1, TableHolds, PTL

\* The scope that ScopeRequired asks is that of each opt-in mixin.
LEMMA OptInScope ==
    ASSUME NEW m \in DOMAIN Mixin, NEW o \in OpsOf(m)
    PROVE  Mixin[m].otherwise = "skip" \/ ScopeRequired(o.scope)
<1>1. TheOp(m, o)
  BY MixinOps
<1>2. \A fn, path, method, scope : Op(fn, path, method, scope).scope = scope
  BY DEF Op
<1>3. m \in {"Resequence", "DisplayName", "GroupBy"} => ScopeRequired(o.scope)
  BY <1>1, <1>2 DEF TheOp, ScopeRequired
<1>4. m \in {"List", "Retrieve", "Create", "Update", "Delete"} => Mixin[m].otherwise = "skip"
  BY DEF Mixin, ListMixin, RetrieveMixin, CreateMixin, UpdateMixin, DeleteMixin
<1>5. m \in {"List", "Retrieve", "Create", "Update", "Delete", "Resequence", "DisplayName", "GroupBy"}
  BY DEF Mixin
<1>6. QED  BY <1>3, <1>4, <1>5

\* A route is open only where its own class leaves it open, for any controllers in any
\* order of import: a class with tokens that leaves out the permission of an opt-in route
\* is refused, and the other routes ask what the class declares
\* (TokenHasScopePermissionModelControllerMixin).
THEOREM OpenOnlyAsDeclared == Spec => []OpenRoutesAreDeclared
<1>1. PlanInv /\ TableInv => OpenRoutesAreDeclared
  <2> SUFFICES ASSUME PlanInv, TableInv, NEW r \in Routers, NEW x \in Range(r.routes), x.guard = None
               PROVE  \/ x.op \in DeclaredOps(r.decl) /\ x.op.scope = None
                      \/ ~r.decl.token
                      \/ /\ x.op.scope \notin r.decl.permission_map
                         /\ \E m \in Inherited(r.decl) :
                              x.op \in OpsOf(m) /\ Mixin[m].otherwise = "skip"
    BY DEF OpenRoutesAreDeclared
  <2> DEFINE d == r.decl
  <2>1. PICK i \in DOMAIN r.routes : x = r.routes[i]
    BY DEF Range
  <2>2. RouteOK(d, r.dict[i], x) /\ DeclaredOK(d)
    <3>1. RouterOK(r)
      BY DEF TableInv, Routers
    <3>2. RouteOK(r.decl, r.dict[i], r.routes[i]) /\ r.decl \in ControllersOf(plan)
      BY <3>1, Zenon DEF RouterOK
    <3>3. QED  BY <2>1, <3>2 DEF DeclaredOK, PlanInv
  <2>3. CASE GeneratedRoute(d, r.dict[i], x)
    <3>1. x.op \in ChainOps(d) /\ x.guard = CrudGuard(d, x.op) /\ ~ScopeRefused(d, x.op)
      BY <2>3 DEF GeneratedRoute
    <3>2. PICK m \in Inherited(d) : x.op \in OpsOf(m)
      BY <2>2, <3>1, ChainOp
    <3>3. m \in DOMAIN Mixin
      BY <3>2 DEF Inherited
    <3>4. x.op.scope # None
      BY <3>2, <3>3, ScopesAssumption
    <3>5. CASE d.token
      <4>1. ~_get_action_permissions(d, x.op.scope)
        BY <3>1, <3>4, <3>5 DEF CrudGuard
      <4>2. ~ScopeRequired(x.op.scope)
        BY <3>1, <3>5, <4>1 DEF ScopeRefused
      <4>3. Mixin[m].otherwise = "skip"
        BY <3>2, <3>3, <4>2, OptInScope
      <4>4. QED  BY <3>2, <3>3, <4>1, <4>3 DEF _get_action_permissions
    <3>6. QED  BY <3>5
  <2>4. CASE x.op \in DeclaredOps(d) /\ x.guard = x.op.scope
    BY <2>4
  <2>5. QED  BY <2>2, <2>3, <2>4 DEF RouteOK
<1>2. QED  BY <1>1, TableHolds, PTL

----------------------------------------------------------------------------
(* What serves.                                                            *)

\* What serves was checked, when every statement of the plan was executed.
ServedInv ==
    Served => done = Len(plan) /\ \A i \in DOMAIN table : Valid(table[i])

LEMMA ValidStays ==
    ASSUME UNCHANGED <<schemaVars, services>>, NEW i \in DOMAIN table, table' = table, Valid(table[i])
    PROVE  Valid(table[i])'
<1>1. bound' = bound /\ services' = services
  BY DEF schemaVars
<1> DEFINE r == table[i]
<1>2. r' = r
  OBVIOUS
<1>3. \A d : /\ _check_request_schemas(d)' = _check_request_schemas(d)
             /\ _check_response_schemas(d)' = _check_response_schemas(d)
  BY <1>1 DEF _check_request_schemas, _check_response_schemas, RequestPairs, Fields
<1>4. \A d : _check_derived_fields(d)' = _check_derived_fields(d)
  BY <1>1 DEF _check_derived_fields, Fields
<1>5. \A d : _check_path_parameters(d)' = _check_path_parameters(d)
  BY <1>1 DEF _check_path_parameters, Fields
<1>6. QED
  BY <1>2, <1>3, <1>4, <1>5 DEF Valid

LEMMA ServedHolds == Spec => []ServedInv
<1>1. Init => ServedInv
  BY DEF Init, ServedInv, Served
<1>2. ServedInv /\ [Next]_vars => ServedInv'
  <2> SUFFICES ASSUME ServedInv, [Next]_vars, Served'
               PROVE  done' = Len(plan') /\ \A i \in DOMAIN table' : Valid(table[i])'
    BY DEF ServedInv
  <2>1. CASE ready
    <3>1. /\ done = Len(plan) /\ \A i \in DOMAIN table : Valid(table[i])
          /\ UNCHANGED <<schemaVars, services, plan, done, table>>
      BY <2>1 DEF ready, Served
    <3>2. QED  BY <3>1, ValidStays
  <2>2. CASE UNCHANGED vars
    <3>1. UNCHANGED <<schemaVars, services, plan, done, table>> /\ Served
      BY <2>2 DEF vars, Served
    <3>2. QED  BY <3>1, ValidStays DEF ServedInv
  <2>3. CASE ImportSchema \/ ImportService \/ ImportController
    BY <2>3 DEF ImportSchema, ImportService, ImportController, ClassStatement, Importing, Served
  <2>4. QED  BY <2>1, <2>2, <2>3 DEF Next
<1>3. QED  BY <1>1, <1>2, PTL DEF Spec

----------------------------------------------------------------------------
(* The routes promised.                                                    *)

\* Of the routes of a router, a path with a method has one.
LEMMA OnePathOneRoute ==
    ASSUME NEW d, DeclaredOK(d), NEW o \in ChainOps(d) \cup DeclaredOps(d), NEW p \in ChainOps(d) \cup DeclaredOps(d),
           o.path = p.path, o.method = p.method
    PROVE  o = p
<1>1. CASE o \in ChainOps(d) /\ p \in ChainOps(d)
  BY <1>1, OneOperationOfChain
<1>2. CASE o \in DeclaredOps(d)
  BY <1>2, RoutesAssumption DEF DeclaredOK
<1>3. CASE p \in DeclaredOps(d)
  BY <1>3, RoutesAssumption DEF DeclaredOK
<1>4. QED  BY <1>1, <1>2, <1>3

\* The least number of a set is its Min.
LEMMA LeastIsMin ==
    ASSUME NEW T, T \subseteq Nat, T # {}
    PROVE  Min(T) \in T /\ \A m \in T : Min(T) <= m
<1>1. \E n \in T : \A m \in T : n <= m
  BY Least
<1>2. QED  BY <1>1 DEF Min

\* A fixed path of a mixin comes before the routes by id, once checked.
LEMMA StaticBeforeIds ==
    ASSUME NEW r, NEW d, r.decl = d, DictOK(d, r.dict, {p.fn : p \in ChainOps(d)}),
           NEW m \in StaticRoutes(d) \cap Inherited(d), "model" \in d.has, Valid(r)
    PROVE  /\ StaticName(m) \in ToSet(r.dict)
           /\ \A k, h \in DOMAIN r.dict :
                r.dict[k] = StaticName(m) /\ r.dict[h] \in {"retrieve", "update", "delete"} => k < h
<1>1. _check_static_route(r, m)
  BY DEF Valid
<1>2. \A k \in DOMAIN r.dict : Index(r.dict, r.dict[k]) = k
  <2> SUFFICES ASSUME NEW k \in DOMAIN r.dict PROVE Index(r.dict, r.dict[k]) = k
    OBVIOUS
  <2> DEFINE c == CHOOSE i \in DOMAIN r.dict : r.dict[i] = r.dict[k]
  <2>1. c \in DOMAIN r.dict /\ r.dict[c] = r.dict[k]
    OBVIOUS
  <2>2. Index(r.dict, r.dict[k]) = c
    BY DEF Index
  <2> HIDE DEF c
  <2>3. c = k
    BY <2>1 DEF DictOK
  <2>4. QED  BY <2>2, <2>3
<1>3. ASSUME NEW k \in DOMAIN r.dict, NEW h \in DOMAIN r.dict,
             r.dict[k] = StaticName(m), r.dict[h] \in {"retrieve", "update", "delete"}
      PROVE  k < h
  <2>1. r.dict[h] \in {"retrieve", "update", "delete"} \cap ToSet(r.dict)
    BY <1>3 DEF ToSet
  <2>2. Index(r.dict, StaticName(m)) < Index(r.dict, r.dict[h])
    BY <1>1, <2>1 DEF _check_static_route
  <2>3. QED  BY <1>2, <1>3, <2>2
<1>4. QED  BY <1>1, <1>3 DEF _check_static_route

\* A route by id never takes the path of another route.
LEMMA NoIdBefore ==
    ASSUME NEW r, NEW d, r.decl = d, DeclaredOK(d), RouterOK(r), Valid(r),
           NEW k \in DOMAIN r.routes, NEW h \in DOMAIN r.routes,
           r.routes[h].op.path = IdPath, r.routes[k].op.path \notin {"/", IdPath}
    PROVE  k < h
<1> DEFINE o == r.routes[k].op
           p == r.routes[h].op
<1>1. /\ DictOK(d, r.dict, {q.fn : q \in ChainOps(d)})
      /\ k \in DOMAIN r.dict /\ h \in DOMAIN r.dict
      /\ o.fn = r.dict[k] /\ o \in ChainOps(d) \cup DeclaredOps(d)
      /\ p.fn = r.dict[h] /\ p \in ChainOps(d) \cup DeclaredOps(d)
  BY DEF RouterOK, RouteOK, GeneratedRoute
<1>2. p.path = IdPath /\ o.path \notin {"/", IdPath}
  OBVIOUS
<1> HIDE DEF o, p
<1>3. p \in ChainOps(d)
  BY <1>1, <1>2, RoutesAssumption DEF DeclaredOK
<1>4. p.fn \in {"retrieve", "update", "delete"} /\ "model" \in d.has
  <2>1. PICK m \in Inherited(d) : "model" \in d.has /\ p \in OpsOf(m)
    BY <1>3, ChainOp
  <2>2. m \in DOMAIN Mixin
    BY DEF Inherited
  <2>3. QED  BY <1>2, <2>1, <2>2, PathOfOperation
<1>5. \A i, j \in DOMAIN r.dict : i \in Nat /\ j \in Nat
  <2> DEFINE S == OwnFunctions(d) \cup MixinFunctions
             b == r.dict
  <2>1. b \in Seq(S)
    BY <1>1 DEF DictOK
  <2> HIDE DEF S, b
  <2>2. DOMAIN b = 1..Len(b) /\ Len(b) \in Nat
    BY <2>1
  <2>3. \A i \in DOMAIN b : i \in Nat
    BY <2>2
  <2>4. QED  BY <2>3 DEF b
<1>6. CASE o \in DeclaredOps(d)
  <2>1. PICK j \in DOMAIN d.body : d.body[j] = o
    BY <1>6, DeclaredAlone
  <2>2. j \in DOMAIN r.dict /\ r.dict[j] = o.fn
    BY <1>1, <2>1 DEF DictOK
  <2>3. j = k
    BY <1>1, <2>2 DEF DictOK
  <2>4. k # h
    BY <1>1, <1>3, <1>6, DeclaredAlone
  <2>5. ~(h < k)
    <3> SUFFICES ASSUME h < k PROVE FALSE
      OBVIOUS
    <3>1. h \in DOMAIN d.body
      <4> DEFINE T == ToSet(d.body)
                 b == d.body
      <4>1. b \in Seq(T)
        BY RoutesAssumption DEF DeclaredOK
      <4>2. k \in DOMAIN b
        BY <2>1, <2>3
      <4> HIDE DEF T, b
      <4>3. DOMAIN b = 1..Len(b) /\ Len(b) \in Nat
        BY <4>1
      <4>4. h >= 1
        <5> DEFINE S == OwnFunctions(d) \cup MixinFunctions
                   e == r.dict
        <5>1. e \in Seq(S) /\ h \in DOMAIN e
          BY <1>1 DEF DictOK
        <5> HIDE DEF S, e
        <5>2. QED  BY <5>1
      <4>5. h \in DOMAIN b
        BY <1>1, <1>5, <4>2, <4>3, <4>4
      <4>6. QED  BY <4>5 DEF b
    <3>2. d.body[h].fn = p.fn
      BY <1>1, <3>1 DEF DictOK
    <3>3. d.body[k].path # None
      BY <1>6, <2>1, <2>3 DEF DeclaredOps
    <3>4. d.body[h].fn \notin {"retrieve", "update", "delete"}
      BY <2>1, <2>3, <3>1, <3>3, RoutesAssumption DEF DeclaredOK
    <3>5. QED  BY <1>4, <3>2, <3>4
  <2>6. QED  BY <1>1, <1>5, <2>4, <2>5
<1>7. CASE o \in ChainOps(d)
  <2>1. PICK m \in Inherited(d) : {"model", Mixin[m].needs} \subseteq d.has /\ o \in OpsOf(m)
    BY <1>7, ChainOp
  <2>2. m \in DOMAIN Mixin
    BY DEF Inherited
  <2>3. m \in {"Create", "Resequence", "DisplayName", "GroupBy"} /\ o.fn = StaticName(m)
    BY <1>2, <2>1, <2>2, PathOfOperation
  <2>4. m = "Create" => "create_request_schema" \in d.has
    BY <2>1, <2>2, MixinOps
  <2>5. m \in StaticRoutes(d) \cap Inherited(d)
    BY <2>3, <2>4 DEF StaticRoutes
  <2>6. QED  BY <1>1, <1>4, <2>3, <2>5, StaticBeforeIds
<1>8. QED  BY <1>1, <1>6, <1>7

\* A route of a router is the one that its path and its method resolve to.
LEMMA RouteResolved ==
    ASSUME NEW r, NEW d, r.decl = d, DeclaredOK(d), RouterOK(r), Valid(r), NEW k \in DOMAIN r.routes
    PROVE  LET o == r.routes[k].op
           IN  \E x \in Resolved(r, o.path, o.method) : x.op = o
<1> DEFINE o == r.routes[k].op
           hits == {i \in DOMAIN r.routes : Matches(r.routes[i].op.path, o.path)}
           view == {i \in DOMAIN r.routes : r.routes[i].op.path = r.routes[Min(hits)].op.path
                                            /\ r.routes[i].op.method = o.method}
<1>1. DOMAIN r.routes \subseteq Nat
  <2> DEFINE S == OwnFunctions(d) \cup MixinFunctions
             b == r.dict
  <2>1. b \in Seq(S) /\ DOMAIN r.routes \subseteq DOMAIN b
    BY DEF RouterOK, DictOK
  <2> HIDE DEF S, b
  <2>2. DOMAIN b \subseteq Nat
    BY <2>1
  <2>3. QED  BY <2>1, <2>2
<1>2. k \in hits
  BY DEF Matches
<1>3. hits \subseteq Nat /\ view \subseteq Nat
  BY <1>1
<1> DEFINE h == Min(hits)
<1>4. h \in hits /\ h <= k
  <2> HIDE DEF hits
  <2>1. QED  BY <1>2, <1>3, LeastIsMin
<1>5. h \in DOMAIN r.routes /\ Matches(r.routes[h].op.path, o.path)
  BY <1>4
<1> HIDE DEF h
<1>6. r.routes[h].op.path = o.path
  <2> SUFFICES ASSUME r.routes[h].op.path # o.path PROVE FALSE
    OBVIOUS
  <2>1. r.routes[h].op.path = IdPath /\ o.path \notin {"/", IdPath}
    BY <1>5 DEF Matches
  <2>2. k < h
    BY <1>5, <2>1, NoIdBefore
  <2>3. QED  BY <1>1, <1>4, <1>5, <2>2
<1>7. k \in view
  BY <1>6 DEF h
<1> DEFINE v == Min(view)
<1>8. v \in view
  <2> HIDE DEF view
  <2>1. QED  BY <1>3, <1>7, LeastIsMin
<1>9. v \in DOMAIN r.routes /\ r.routes[v].op.path = o.path /\ r.routes[v].op.method = o.method
  BY <1>6, <1>8 DEF h
<1> HIDE DEF v
<1>10. r.routes[v].op = o
  <2>1. r.routes[v].op \in ChainOps(d) \cup DeclaredOps(d) /\ o \in ChainOps(d) \cup DeclaredOps(d)
    BY <1>9 DEF RouterOK, RouteOK, GeneratedRoute
  <2> HIDE DEF o
  <2>2. QED  BY <1>9, <2>1, OnePathOneRoute
<1>11. Resolved(r, o.path, o.method) = {r.routes[v]}
  <2>1. hits # {} /\ view # {}
    BY <1>2, <1>7
  <2>2. QED  BY <2>1 DEF Resolved, v
<1>12. QED  BY <1>10, <1>11

\* A mixin that the class inherits is one of those that register its routes: what the
\* checks found of a mixin behind the base is nowhere in the class.
LEMMA PromisedRegistered ==
    ASSUME NEW r, NEW d, r.decl = d, DeclaredOK(d), RouterOK(r), Valid(r),
           NEW m \in Inherited(d), Mixin[m].needs \in d.has, NEW o \in OpsOf(m)
    PROVE  o \in ChainOps(d)
<1>1. "model" \in d.has /\ m \in DOMAIN Mixin
  <2>1. "model" \in d.has
    BY RoutesAssumption DEF DeclaredOK
  <2>2. QED  BY <2>1 DEF Inherited
<1>2. CASE m \in ToSet(Chain(d))
  BY <1>1, <1>2 DEF ChainOps
<1>3. CASE m \notin ToSet(Chain(d))
  <2>1. m \in {"Create", "Resequence", "DisplayName", "GroupBy"}
    BY <1>3, RoutesAssumption DEF DeclaredOK
  <2>2. m \in StaticRoutes(d) \cap Inherited(d)
    BY <1>1, <2>1, MixinOps DEF StaticRoutes
  <2>3. DictOK(d, r.dict, {p.fn : p \in ChainOps(d)})
    BY DEF RouterOK
  <2>4. StaticName(m) \in OwnFunctions(d) \cup {p.fn : p \in ChainOps(d)}
    BY <1>1, <2>2, <2>3, StaticBeforeIds DEF DictOK
  <2>5. PICK c \in OpsOf(m) : c.fn = StaticName(m)
    BY <2>1, StaticOf
  <2>6. c \in InheritedOps(d)
    BY DEF InheritedOps
  <2>7. StaticName(m) \in {p.fn : p \in ChainOps(d)}
    <3>1. CASE StaticName(m) \in OwnFunctions(d)
      <4>1. PICK b \in ToSet(d.body) : b.fn = StaticName(m)
        BY <3>1 DEF OwnFunctions, BodyNames_, ToSet
      <4>2. b \notin DeclaredOps(d)
        BY <2>5, <2>6, <4>1, RoutesAssumption DEF DeclaredOK
      <4>3. \E p \in ChainOps(d) : p.fn = b.fn
        BY <4>2, RoutesAssumption DEF DeclaredOK
      <4>4. QED  BY <4>1, <4>3
    <3>2. QED  BY <2>4, <3>1
  <2>8. PICK p \in ChainOps(d) : p.fn = c.fn
    BY <2>5, <2>7
  <2>9. PICK n \in DOMAIN Mixin : n \in ToSet(Chain(d)) /\ p \in OpsOf(n)
    <3>1. PICK n \in Inherited(d) : n \in ToSet(Chain(d)) /\ p \in OpsOf(n)
      BY ChainOp
    <3>2. QED  BY <3>1 DEF Inherited
  <2>10. n = m
    BY <1>1, <2>8, <2>9, OneOperation
  <2>11. QED  BY <1>3, <2>9, <2>10
<1>4. QED  BY <1>2, <1>3

\* Each route that a controller inherits or declares is the one that its path and its
\* method resolve to once the application serves, whatever mixins it has and in whatever
\* order: the checks refuse a fixed path behind an id, and a mixin behind the base.
THEOREM PromisesKept == Spec => []PromisedRoutesServed
<1>1. PlanInv /\ TableInv /\ ServedInv => PromisedRoutesServed
  <2> SUFFICES ASSUME PlanInv, TableInv, ServedInv, Served, NEW r \in Routers
               PROVE  /\ \A m \in Inherited(r.decl) : Mixin[m].needs \in r.decl.has =>
                           \A o \in OpsOf(m) : \E x \in Resolved(r, o.path, o.method) : x.op.fn = o.fn
                      /\ \A o \in DeclaredOps(r.decl) : \E x \in Resolved(r, o.path, o.method) : x.op.fn = o.fn
    BY DEF PromisedRoutesServed
  <2> DEFINE d == r.decl
  <2>1. RouterOK(r) /\ Valid(r)
    BY DEF TableInv, ServedInv, Routers
  <2>2. DeclaredOK(d)
    BY <2>1 DEF RouterOK, DeclaredOK, PlanInv
  <2>3. ASSUME NEW o \in ChainOps(d) \cup DeclaredOps(d)
        PROVE  \E x \in Resolved(r, o.path, o.method) : x.op.fn = o.fn
    <3>1. PICK k \in DOMAIN r.routes : r.routes[k].op = o
      BY <2>1, <2>3 DEF RouterOK
    <3>2. \E x \in Resolved(r, o.path, o.method) : x.op = o
      BY <2>1, <2>2, <3>1, RouteResolved
    <3>3. QED  BY <3>2
  <2>4. ASSUME NEW m \in Inherited(d), Mixin[m].needs \in d.has, NEW o \in OpsOf(m)
        PROVE  o \in ChainOps(d)
    BY <2>1, <2>2, <2>4, PromisedRegistered
  <2> HIDE DEF d
  <2>5. QED  BY <2>3, <2>4 DEF d
<1>2. QED  BY <1>1, TableHolds, ServedHolds, PTL

----------------------------------------------------------------------------
(* The bodies.                                                             *)

\* A field that goes in under one name takes its type under that name, and nothing
\* under another; where it is not required, a body that leaves it out leaves it be.
LEMMA OneName ==
    ASSUME NEW i, i.names.accepts = {i.names.public},
           i.type \notin {"absent", "null", "refused", "unset"}
    PROVE  /\ Validated(i, i.names.public, i.type) = i.type
           /\ \A n : n # i.names.public => Validated(i, n, i.type) # i.type
           /\ \A c : i.default # "required" => Updated(i, c, i.names.public, "absent") = "kept"
<1>1. Validated(i, i.names.public, i.type) = i.type
  BY DEF Validated
<1>2. \A n : n # i.names.public => Validated(i, n, i.type) \in {"refused", "unset"}
  BY DEF Validated
<1>3. i.default # "required" => Validated(i, i.names.public, "absent") = "unset"
  BY DEF Validated
<1>4. \A c : i.default # "required" => Updated(i, c, i.names.public, "absent") = "kept"
  BY <1>3 DEF UpdateValue, Updated
<1>5. QED  BY <1>1, <1>2, <1>4

\* The names a field has: one, unless it is serialized or is accepted under both.
LEMMA NamesOfAlias ==
    ASSUME NEW c, NEW alias,
           ~ExpandedAlias(c, alias).serialized,
           ~ {"orm", "public"} \subseteq ExpandedAlias(c, alias).accepts
    PROVE  ExpandedAlias(c, alias).accepts = {ExpandedAlias(c, alias).public}
  BY DEF ExpandedAlias

\* A field of a schema that create_schema accepted.
LEMMA FieldOf ==
    ASSUME NEW q \in Plans, NEW s \in SchemasOf(q), ~MetaRefused(s), NEW f \in SelectedFields(s)
    PROVE  LET i == Definitions(s)[f]
           IN  /\ i.type \notin {"absent", "null", "refused", "unset"}
               /\ ~i.names.serialized /\ ~ {"orm", "public"} \subseteq i.names.accepts
                    => i.names.accepts = {i.names.public}
               /\ s.optional = All /\ (\A g \in DOMAIN s.custom : s.custom[g].as # "file")
                    => i.default # "required"
<1> DEFINE i == Definitions(s)[f]
           c == Column(s.model, f)
<1>1. CASE f \in DOMAIN s.custom
  <2> DEFINE a == s.custom[f]
             names == [public |-> "orm", serialized |-> FALSE, accepts |-> {"orm"}]
  <2>1. i = Annotation(a)
    BY <1>1 DEF Definitions
  <2>2. a.as \in {"nested", "list", "file"}
    BY <1>1, SchemasAssumption
  <2> HIDE DEF a, i
  <2>3. /\ Annotation(a).type = a.as /\ Annotation(a).names = names
        /\ a.as # "file" => Annotation(a).default \in {"callable", "None"}
    BY DEF Annotation
  <2>4. names.accepts = {names.public}
    OBVIOUS
  <2> HIDE DEF names
  <2>5. i.type = a.as /\ i.names.accepts = {i.names.public} /\ (a.as # "file" => i.default # "required")
    BY <2>1, <2>3, <2>4
  <2>6. (\A g \in DOMAIN s.custom : s.custom[g].as # "file") => a.as # "file"
    BY <1>1 DEF a
  <2>7. i.type \notin {"absent", "null", "refused", "unset"}
    BY <2>2, <2>5
  <2>8. QED  BY <2>5, <2>6, <2>7 DEF i
<1>2. CASE f \notin DOMAIN s.custom
  <2> DEFINE names == ExpandedAlias(c, AliasOf(s, f))
             opt == Optional(s, f)
             e == IF IsDerived(c) THEN Described(c) ELSE c
  <2>1. i = Converted(c, opt, names)
    BY <1>2 DEF Definitions
  <2>2. s.model \in DOMAIN Models /\ f \in DOMAIN Models[s.model]
    <3>1. s.model \in DOMAIN Models
      BY SchemasAssumption
    <3>2. s.fields # <<>> => ToSet(s.fields) \subseteq DOMAIN Models[s.model]
      BY DEF MetaRefused
    <3>3. QED  BY <3>1, <3>2 DEF SelectedFields
  <2> HIDE DEF i, names, opt, c, e
  <2>3. \A o, n : /\ Converted(c, o, n).type = PythonType(e) /\ Converted(c, o, n).names = n
                  /\ Converted(c, o, n).default = FieldDefault(e, o)
    BY DEF Converted, FieldInfo, e
  <2>4. PythonType(e) \notin {"absent", "null", "refused", "unset"} /\ FieldDefault(e, TRUE) # "required"
    <3>1. /\ Converted(c, TRUE, {}).type \notin {"absent", "null", "refused", "unset"}
          /\ Converted(c, TRUE, {}).default # "required"
      BY <2>2, ColumnsAssumption DEF c
    <3>2. QED  BY <2>3, <3>1
  <2>5. s.optional = All => opt = TRUE
    BY DEF opt, Optional
  <2>6. ~names.serialized /\ ~ {"orm", "public"} \subseteq names.accepts => names.accepts = {names.public}
    BY NamesOfAlias DEF names
  <2>7. i.type = PythonType(e) /\ i.names = names /\ i.default = FieldDefault(e, opt)
    BY <2>1, <2>3
  <2>8. s.optional = All => i.default # "required"
    BY <2>4, <2>5, <2>7
  <2>9. QED  BY <2>4, <2>6, <2>7, <2>8 DEF i
<1>3. QED  BY <1>1, <1>2

\* Once the application serves, the schema of a request is that of its statement.
LEMMA RequestSchema ==
    ASSUME PlanInv, SchemasInv, ServedInv, Served,
           NEW d \in ControllersOf(plan), "model" \in d.has, NEW p \in RequestPairs(d)
    PROVE  \E s \in SchemasOf(plan) :
             s.id = p[1] /\ ~MetaRefused(s) /\ Fields(p[1]) = Definitions(s)
<1>1. p[1] # None /\ p[1] \in {d.create_request, d.update_request}
  BY DEF RequestPairs
<1>2. PICK s \in SchemasOf(plan) : s.id = p[1]
  BY <1>1, ControllersAssumption DEF PlanInv
<1>3. Executed = ToSet(plan)
  BY PlanShape DEF ServedInv, Executed, ToSet
<1>4. s \in ExecutedSchemas
  BY <1>3 DEF ExecutedSchemas, SchemasOf
<1>5. p[1] \in DOMAIN bound
  BY <1>2, <1>4 DEF SchemasInv, BoundInv, Served
<1>6. PICK e \in ExecutedSchemas : e.id = p[1] /\ ~MetaRefused(e) /\ bound[p[1]].fields = Definitions(e)
  BY <1>5 DEF SchemasInv, BoundInv
<1>7. e \in SchemasOf(plan)
  BY PlanShape
<1>8. QED  BY <1>6, <1>7 DEF Fields

\* Once the application serves, each name that a request documents reaches the row
\* through the schema of its service, no other does, and an update keeps what the body
\* leaves out, whatever schemas and aliases are declared (_check_request_schemas).
THEOREM BodiesReach == Spec => []BodiesReachTheRow
<1>1. PlanInv /\ SchemasInv /\ TableInv /\ ServedInv => BodiesReachTheRow
  <2> SUFFICES ASSUME PlanInv, SchemasInv, TableInv, ServedInv, Served,
                      NEW r \in Routers, "model" \in r.decl.has,
                      NEW p \in RequestPairs(r.decl), NEW f \in DOMAIN Fields(p[1])
               PROVE  LET i == Fields(p[1])[f]
                          c == Column(r.decl.model, f)
                      IN /\ p[2] # None => f \in DOMAIN Fields(p[2])
                         /\ Validated(i, i.names.public, i.type) = i.type
                         /\ \A n \in BodyNames \ {i.names.public} : Validated(i, n, i.type) # i.type
                         /\ p[1] = r.decl.update_request => Updated(i, c, i.names.public, "absent") = "kept"
    BY DEF BodiesReachTheRow
  <2> DEFINE d == r.decl
             i == Fields(p[1])[f]
  <2>1. d \in ControllersOf(plan) /\ Valid(r)
    BY DEF TableInv, RouterOK, Routers, ServedInv
  <2>2. _check_request_schemas(d)
    BY <2>1 DEF Valid
  <2>3. /\ ~i.names.serialized /\ ~ {"orm", "public"} \subseteq i.names.accepts
        /\ p[2] # None => f \in DOMAIN Fields(p[2])
    BY <2>2 DEF _check_request_schemas
  <2>4. PICK s \in SchemasOf(plan) : s.id = p[1] /\ ~MetaRefused(s) /\ Fields(p[1]) = Definitions(s)
    BY <2>1, RequestSchema
  <2>5. f \in SelectedFields(s) /\ i = Definitions(s)[f]
    BY <2>4 DEF Definitions
  <2> HIDE DEF d, i
  <2>6. /\ i.type \notin {"absent", "null", "refused", "unset"}
        /\ i.names.accepts = {i.names.public}
        /\ s.optional = All /\ (\A g \in DOMAIN s.custom : s.custom[g].as # "file") => i.default # "required"
    BY <2>3, <2>4, <2>5, FieldOf DEF PlanInv
  <2>7. p[1] = d.update_request => i.default # "required"
    BY <2>1, <2>4, <2>6, ControllersAssumption DEF PlanInv
  <2>8. /\ Validated(i, i.names.public, i.type) = i.type
        /\ \A n : n # i.names.public => Validated(i, n, i.type) # i.type
        /\ \A c : i.default # "required" => Updated(i, c, i.names.public, "absent") = "kept"
    BY <2>6, OneName
  <2>9. QED  BY <2>3, <2>7, <2>8 DEF d, i
<1>2. QED  BY <1>1, TableHolds, ServedHolds, PTL
=============================================================================
