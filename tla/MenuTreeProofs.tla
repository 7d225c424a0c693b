----------------------------- MODULE MenuTreeProofs -----------------------------
(***************************************************************************)
(* Proofs about the menu tree, for any menus.  The types hold for any      *)
(* number of processes.  That paths spell the ancestors, that no menu is   *)
(* lost and that read_tree shows exactly the subtree are proved where the  *)
(* code makes it true: requests served one at a time, administrators that  *)
(* pick no parent below the menu they save.                                *)
(*                                                                         *)
(* Two recursions are reasoned about, the walk down of the recursive query *)
(* and the insertions of read_tree, each by the least number at which it   *)
(* would go wrong.                                                         *)
(***************************************************************************)
EXTENDS MenuTree, FiniteSetTheorems, WellFoundedInduction, TLAPS

--------------------------------------------------------------------------------
(* A set of numbers has a least one: the only induction used below. *)
LEMMA Least ==
    ASSUME NEW T, T \subseteq Nat, T # {}
    PROVE  \E n \in T : \A m \in T : n <= m
<1> DEFINE up(n) == {i \in Nat : i < n}
           U == {up(n) : n \in T}
<1>1. ASSUME NEW n \in Nat PROVE IsFiniteSet(up(n)) /\ up(n) \subseteq Nat
  <2>1. up(n) = 0..(n - 1)
    OBVIOUS
  <2>2. n - 1 \in Int /\ 0 \in Int
    OBVIOUS
  <2>3. IsFiniteSet(0..(n - 1))
    BY <2>2, FS_Interval
  <2>4. QED BY <2>1, <2>3
<1>2. U \subseteq FiniteSubsetsOf(Nat) /\ U # {}
  BY <1>1 DEF FiniteSubsetsOf
<1>3. PICK X \in U : \A Y \in U : ~(<<Y, X>> \in StrictSubsetOrdering(Nat))
  <2>1. IsWellFoundedOn(StrictSubsetOrdering(Nat), FiniteSubsetsOf(Nat))
    BY FS_StrictSubsetOrderingWellFounded
  <2>2. QED BY <1>2, <2>1, WFMin, Zenon
<1>4. PICK n \in T : X = up(n)
  OBVIOUS
<1>5. ASSUME NEW m \in T, m < n PROVE FALSE
  <2>1. up(m) \subseteq up(n) /\ up(m) # up(n) /\ up(m) \in U
    BY <1>5
  <2>2. up(m) \subseteq Nat /\ up(n) \subseteq Nat
    OBVIOUS
  <2>3. <<up(m), up(n)>> \in StrictSubsetOrdering(Nat)
    BY <2>1, <2>2 DEF StrictSubsetOrdering
  <2>4. QED BY <1>3, <1>4, <2>1, <2>3
<1>6. QED BY <1>5

--------------------------------------------------------------------------------
(***************************************************************************)
(* Walks: a sequence of live rows from a root down, each the parent of the *)
(* next.                                                                   *)
(***************************************************************************)
Walk(V, q) ==
    /\ q \in Seq(Menus) /\ q # <<>>
    /\ \A i \in 1..Len(q) : q[i] \in Live(V)
    /\ V[q[1]].parent = Null
    /\ \A i \in 2..Len(q) : V[q[i]].parent = q[i - 1]

WalkTo(V, q, r) == Walk(V, q) /\ Last(q) = r

LEMMA WalkOfOne ==
    ASSUME NEW V, NEW r \in Live(V), V[r].parent = Null
    PROVE  WalkTo(V, <<r>>, r)
BY DEF WalkTo, Walk, Live, Last

LEMMA WalkFurther ==
    ASSUME NEW V, NEW q, NEW r \in Live(V), NEW x, WalkTo(V, q, x), V[r].parent = x
    PROVE  WalkTo(V, Append(q, r), r)
<1> DEFINE s == Append(q, r)
<1>1. q \in Seq(Menus) /\ q # <<>> /\ Len(q) \in Nat /\ Len(q) >= 1 /\ r \in Menus
  BY DEF WalkTo, Walk, Live
<1>2. s \in Seq(Menus) /\ s # <<>> /\ Len(s) = Len(q) + 1 /\ s[Len(q) + 1] = r
      /\ \A i \in 1..Len(q) : s[i] = q[i]
  BY <1>1
<1> HIDE DEF s
<1>3. q[Len(q)] = x
  BY DEF WalkTo, Last
<1>4. ASSUME NEW i \in 1..Len(s) PROVE s[i] \in Live(V)
  <2>1. i \in 1..Len(q) \/ i = Len(q) + 1
    BY <1>1, <1>2
  <2>2. QED BY <1>1, <1>2, <2>1 DEF WalkTo, Walk
<1>5. s[1] = q[1]
  BY <1>1, <1>2
<1>6. ASSUME NEW i \in 2..Len(s) PROVE V[s[i]].parent = s[i - 1]
  <2>1. i \in 2..Len(q) \/ i = Len(q) + 1
    BY <1>1, <1>2
  <2>2. CASE i \in 2..Len(q)
    <3>1. s[i] = q[i] /\ s[i - 1] = q[i - 1]
      BY <1>1, <1>2, <2>2
    <3>2. QED BY <2>2, <3>1 DEF WalkTo, Walk
  <2>3. CASE i = Len(q) + 1
    <3>1. s[i] = r /\ s[i - 1] = x
      BY <1>1, <1>2, <1>3, <2>3
    <3>2. QED BY <3>1
  <2>4. QED BY <2>1, <2>2, <2>3
<1>7. Last(s) = r
  BY <1>2 DEF Last
<1>8. QED BY <1>2, <1>4, <1>5, <1>6, <1>7 DEF WalkTo, Walk, s

LEMMA WalkCut ==
    ASSUME NEW V, NEW q, Walk(V, q), NEW k \in 1..Len(q)
    PROVE  WalkTo(V, SubSeq(q, 1, k), q[k])
<1> DEFINE s == SubSeq(q, 1, k)
<1>1. q \in Seq(Menus) /\ Len(q) \in Nat /\ k \in Nat /\ k >= 1 /\ k <= Len(q)
  BY DEF Walk
<1>2. s \in Seq(Menus) /\ Len(s) = k /\ \A i \in 1..k : s[i] = q[i]
  BY <1>1
<1> HIDE DEF s
<1>3. s # <<>>
  BY <1>1, <1>2
<1>4. ASSUME NEW i \in 1..Len(s) PROVE s[i] \in Live(V)
  BY <1>1, <1>2 DEF Walk
<1>5. s[1] = q[1]
  BY <1>1, <1>2
<1>6. ASSUME NEW i \in 2..Len(s) PROVE V[s[i]].parent = s[i - 1]
  <2>1. s[i] = q[i] /\ s[i - 1] = q[i - 1] /\ i \in 2..Len(q)
    BY <1>1, <1>2
  <2>2. QED BY <2>1 DEF Walk
<1>7. Last(s) = q[k]
  BY <1>1, <1>2 DEF Last
<1>8. QED BY <1>2, <1>3, <1>4, <1>5, <1>6, <1>7 DEF WalkTo, Walk, s

LEMMA WalkStep ==
    ASSUME NEW V, NEW q, NEW r, WalkTo(V, q, r)
    PROVE  /\ r \in Live(V) /\ q = Append(SubSeq(q, 1, Len(q) - 1), r)
           /\ \/ Len(q) = 1 /\ V[r].parent = Null
              \/ /\ Len(q) > 1 /\ V[r].parent \in Live(V)
                 /\ WalkTo(V, SubSeq(q, 1, Len(q) - 1), V[r].parent)
<1>1. q \in Seq(Menus) /\ q # <<>> /\ Len(q) \in Nat /\ Len(q) >= 1 /\ q[Len(q)] = r
  BY DEF WalkTo, Walk, Last
<1>2. r \in Live(V)
  BY <1>1 DEF WalkTo, Walk
<1>3. q = Append(SubSeq(q, 1, Len(q) - 1), r)
  BY <1>1
<1>4. CASE Len(q) = 1
  BY <1>1, <1>2, <1>3, <1>4 DEF WalkTo, Walk
<1>5. CASE Len(q) > 1
  <2>1. V[r].parent = q[Len(q) - 1] /\ Len(q) - 1 \in 1..Len(q)
    BY <1>1, <1>5 DEF WalkTo, Walk
  <2>2. WalkTo(V, SubSeq(q, 1, Len(q) - 1), V[r].parent)
    BY <2>1, WalkCut DEF WalkTo
  <2>3. V[r].parent \in Live(V)
    BY <2>1 DEF WalkTo, Walk
  <2>4. QED BY <1>2, <1>3, <1>5, <2>2, <2>3
<1>6. Len(q) = 1 \/ Len(q) > 1
  <2>1. \A n \in Nat : n >= 1 => n = 1 \/ n > 1
    OBVIOUS
  <2>2. QED BY <1>1, <2>1
<1>7. QED BY <1>4, <1>5, <1>6

(* Two walks to a row are one. *)
LEMMA WalksAreUnique ==
    ASSUME NEW V, NEW q, NEW s, NEW r, WalkTo(V, q, r), WalkTo(V, s, r)
    PROVE  q = s
<1> DEFINE T == {n \in Nat : \E a, b, x : WalkTo(V, a, x) /\ WalkTo(V, b, x)
                                          /\ a # b /\ Len(a) = n}
<1> SUFFICES ASSUME q # s PROVE FALSE
  OBVIOUS
<1>1. Len(q) \in T
  BY DEF WalkTo, Walk
<1>2. PICK n \in T : \A m \in T : n <= m
  <2>1. T \subseteq Nat /\ T # {}
    BY <1>1
  <2> HIDE DEF T
  <2>2. QED BY <2>1, Least
<1>3. PICK a, b, x : WalkTo(V, a, x) /\ WalkTo(V, b, x) /\ a # b /\ Len(a) = n
  OBVIOUS
<1> DEFINE a1 == SubSeq(a, 1, Len(a) - 1)
           b1 == SubSeq(b, 1, Len(b) - 1)
<1>4. a = Append(a1, x) /\ b = Append(b1, x)
  BY <1>3, WalkStep
<1>5. /\ a \in Seq(Menus) /\ b \in Seq(Menus) /\ Len(a) \in Nat /\ Len(b) \in Nat
      /\ Len(a) >= 1 /\ Len(b) >= 1
  BY <1>3 DEF WalkTo, Walk
<1>6. Null \notin Live(V)
  BY MenuAssumption DEF Live
<1>7. CASE Len(a) = 1
  <2>1. V[x].parent = Null
    BY <1>3, <1>7, WalkStep
  <2>2. Len(b) = 1
    BY <1>3, <1>6, <2>1, WalkStep
  <2>3. a1 = <<>> /\ b1 = <<>>
    BY <1>5, <1>7, <2>2
  <2>4. QED BY <1>3, <1>4, <2>3
<1>8. CASE Len(a) # 1
  <2>1. V[x].parent \in Live(V) /\ WalkTo(V, a1, V[x].parent)
    BY <1>3, <1>8, WalkStep
  <2>2. WalkTo(V, b1, V[x].parent)
    BY <1>3, <1>6, <2>1, WalkStep
  <2>3. a1 # b1
    BY <1>3, <1>4
  <2>4. Len(a1) = n - 1 /\ n - 1 \in Nat
    BY <1>3, <1>5
  <2>5. n - 1 \in T
    BY <2>1, <2>2, <2>3, <2>4
  <2>6. QED BY <1>2, <2>4, <2>5
<1>9. QED BY <1>7, <1>8

(* No row comes twice in a walk, so a walk is no longer than there are rows. *)
LEMMA WalksAreShort ==
    ASSUME NEW V, NEW q, Walk(V, q)
    PROVE  Len(q) <= Cardinality(Menus)
<1>1. q \in Seq(Menus) /\ Len(q) \in Nat
  BY DEF Walk
<1>2. ASSUME NEW i \in 1..Len(q), NEW j \in 1..Len(q), q[i] = q[j] PROVE i = j
  <2>1. WalkTo(V, SubSeq(q, 1, i), q[i]) /\ WalkTo(V, SubSeq(q, 1, j), q[i])
    BY <1>2, WalkCut
  <2>2. SubSeq(q, 1, i) = SubSeq(q, 1, j)
    BY <2>1, WalksAreUnique
  <2>3. Len(SubSeq(q, 1, i)) = i /\ Len(SubSeq(q, 1, j)) = j
    BY <1>1
  <2>4. QED BY <2>2, <2>3
<1> DEFINE f == [i \in 1..Len(q) |-> q[i]]
<1>3. f \in Injection(1..Len(q), Menus)
  BY <1>1, <1>2 DEF Injection, IsInjective
<1>4. IsFiniteSet(1..Len(q)) /\ Cardinality(1..Len(q)) = Len(q)
  BY <1>1, FS_Interval
<1>5. Cardinality(1..Len(q)) <= Cardinality(Menus)
  BY <1>3, <1>4, FS_Injection, MenuAssumption
<1>6. QED BY <1>4, <1>5

--------------------------------------------------------------------------------
(***************************************************************************)
(* The recursive query of recompute_parent_store finds exactly the walks.  *)
(***************************************************************************)
IsDown(V, m, f) ==
    f = [n \in 0..m |-> IF n = 0 THEN RootWalks(V)
                                 ELSE f[n - 1] \cup LongerWalks(V, f[n - 1])]

LEMMA DownExists ==
    ASSUME NEW V, NEW m \in Nat
    PROVE  \E f : IsDown(V, m, f)
<1> DEFINE T == {n \in Nat : ~ \E f : IsDown(V, n, f)}
<1> SUFFICES ASSUME m \in T PROVE FALSE
  OBVIOUS
<1>1. PICK k \in T : \A n \in T : k <= n
  <2>1. T \subseteq Nat /\ T # {}
    OBVIOUS
  <2> HIDE DEF T
  <2>2. QED BY <2>1, Least
<1>2. CASE k = 0
  <2> DEFINE f == [n \in 0..0 |-> RootWalks(V)]
  <2>1. IsDown(V, 0, f)
    BY DEF IsDown
  <2>2. QED BY <1>2, <2>1
<1>3. CASE k # 0
  <2>1. k - 1 \in Nat /\ ~(k <= k - 1)
    BY <1>3
  <2>2. PICK f : IsDown(V, k - 1, f)
    BY <1>1, <2>1
  <2>3. DOMAIN f = 0..(k - 1) /\ f[0] = RootWalks(V)
        /\ \A n \in 1..(k - 1) : f[n] = f[n - 1] \cup LongerWalks(V, f[n - 1])
    <3>1. f = [n \in 0..(k - 1) |-> IF n = 0 THEN RootWalks(V)
                                    ELSE f[n - 1] \cup LongerWalks(V, f[n - 1])]
      BY <2>2 DEF IsDown
    <3>2. ASSUME NEW n \in 0..(k - 1)
          PROVE  f[n] = IF n = 0 THEN RootWalks(V)
                        ELSE f[n - 1] \cup LongerWalks(V, f[n - 1])
      BY <3>1
    <3>3. 0 \in 0..(k - 1) /\ \A n \in 1..(k - 1) : n \in 0..(k - 1) /\ n # 0
      BY <2>1
    <3>4. QED BY <3>1, <3>2, <3>3
  <2> DEFINE g == [n \in 0..k |-> IF n = k THEN f[k - 1] \cup LongerWalks(V, f[k - 1])
                                           ELSE f[n]]
  <2>4. ASSUME NEW n \in 0..k
        PROVE  g[n] = IF n = 0 THEN RootWalks(V)
                      ELSE g[n - 1] \cup LongerWalks(V, g[n - 1])
    <3>1. CASE n = 0
      BY <1>3, <2>3, <3>1
    <3>2. CASE n = k
      <4>1. k - 1 \in 0..k /\ k - 1 # k
        BY <2>1
      <4>2. g[k - 1] = f[k - 1]
        BY <4>1
      <4>3. QED BY <1>3, <3>2, <4>2
    <3>3. CASE n # 0 /\ n # k
      <4>1. n \in 1..(k - 1) /\ n - 1 \in 0..k /\ n - 1 # k
        BY <2>1, <3>3
      <4>2. g[n] = f[n] /\ g[n - 1] = f[n - 1]
        BY <3>3, <4>1
      <4>3. QED BY <2>3, <3>3, <4>1, <4>2
    <3>4. QED BY <3>1, <3>2, <3>3
  <2>5. g = [n \in 0..k |-> IF n = 0 THEN RootWalks(V)
                            ELSE g[n - 1] \cup LongerWalks(V, g[n - 1])]
    <3> HIDE DEF g
    <3>1. g = [n \in 0..k |-> g[n]]
      BY DEF g
    <3>2. QED BY <2>4, <3>1
  <2>6. IsDown(V, k, g)
    <3> HIDE DEF g
    <3>1. QED BY <2>5 DEF IsDown
  <2>7. QED BY <1>1, <2>6
<1>4. QED BY <1>2, <1>3

LEMMA WalkDownUnfolds ==
    ASSUME NEW V, NEW C, C = Cardinality(Menus)
    PROVE  /\ C \in Nat
           /\ \E f : /\ WalkDown(V) = f[C] /\ f[0] = RootWalks(V)
                     /\ \A n \in 1..C : f[n] = f[n - 1] \cup LongerWalks(V, f[n - 1])
<1>1. C \in Nat
  BY FS_CardinalityType, MenuAssumption
<1> DEFINE g == CHOOSE f : f = [n \in 0..C |-> IF n = 0 THEN RootWalks(V)
                                  ELSE f[n - 1] \cup LongerWalks(V, f[n - 1])]
<1>2. WalkDown(V) = g[C]
  BY DEF WalkDown
<1>3. g = [n \in 0..C |-> IF n = 0 THEN RootWalks(V)
                          ELSE g[n - 1] \cup LongerWalks(V, g[n - 1])]
  <2> DEFINE P(f) == f = [n \in 0..C |-> IF n = 0 THEN RootWalks(V)
                                         ELSE f[n - 1] \cup LongerWalks(V, f[n - 1])]
  <2>1. \E f : P(f)
    <3>1. PICK h : IsDown(V, C, h)
      BY <1>1, DownExists
    <3>2. P(h)
      BY <3>1 DEF IsDown
    <3> HIDE DEF P
    <3>3. QED BY <3>2
  <2>2. g = CHOOSE f : P(f)
    OBVIOUS
  <2> HIDE DEF P
  <2>3. P(g)
    BY <2>1, <2>2
  <2>4. QED BY <2>3 DEF P
<1> HIDE DEF g
<1>4. ASSUME NEW n \in 0..C
      PROVE  g[n] = IF n = 0 THEN RootWalks(V) ELSE g[n - 1] \cup LongerWalks(V, g[n - 1])
  BY <1>3
<1>5. 0 \in 0..C /\ \A n \in 1..C : n \in 0..C /\ n # 0
  BY <1>1
<1>6. QED BY <1>1, <1>2, <1>4, <1>5

LEMMA WalkDownWalks ==
    ASSUME NEW V, NEW q \in WalkDown(V)
    PROVE  Walk(V, q)
<1> DEFINE C == Cardinality(Menus)
<1>1. C \in Nat
  BY WalkDownUnfolds
<1>2. PICK f : /\ WalkDown(V) = f[C] /\ f[0] = RootWalks(V)
               /\ \A n \in 1..C : f[n] = f[n - 1] \cup LongerWalks(V, f[n - 1])
  BY WalkDownUnfolds
<1> HIDE DEF C
<1> DEFINE T == {n \in 0..C : \E s \in f[n] : ~Walk(V, s)}
<1> SUFFICES ASSUME ~Walk(V, q) PROVE FALSE
  OBVIOUS
<1>3. PICK k \in T : \A n \in T : k <= n
  <2>1. C \in T /\ T \subseteq Nat
    BY <1>1, <1>2
  <2> HIDE DEF T
  <2>2. QED BY <2>1, Least
<1>4. k \in 0..C
  OBVIOUS
<1>5. PICK s \in f[k] : ~Walk(V, s)
  BY <1>3
<1>6. CASE k = 0
  <2>1. PICK r \in Live(V) : s = <<r>> /\ V[r].parent = Null
    BY <1>2, <1>5, <1>6 DEF RootWalks
  <2>2. QED BY <1>5, <2>1, WalkOfOne DEF WalkTo
<1>7. CASE k # 0
  <2>1. k \in 1..C /\ k - 1 \in 0..C /\ ~(k <= k - 1)
    BY <1>1, <1>4, <1>7
  <2>2. \A u \in f[k - 1] : Walk(V, u)
    BY <1>3, <2>1
  <2>3. s \in LongerWalks(V, f[k - 1])
    BY <1>2, <1>5, <2>1, <2>2
  <2>4. PICK u \in f[k - 1], r \in Live(V) :
             s = Append(u, r) /\ V[Last(s)].parent = s[Len(s) - 1]
    BY <2>3 DEF LongerWalks
  <2>5. Walk(V, u) /\ u \in Seq(Menus) /\ u # <<>> /\ Len(u) \in Nat /\ Len(u) >= 1
    BY <2>2 DEF Walk
  <2>6. Len(s) = Len(u) + 1 /\ s[Len(s)] = r /\ s[Len(s) - 1] = u[Len(u)]
    BY <2>4, <2>5 DEF Live
  <2>7. V[r].parent = Last(u)
    BY <2>4, <2>6 DEF Last
  <2>8. Walk(V, s)
    BY <2>4, <2>5, <2>7, WalkFurther DEF WalkTo
  <2>9. QED BY <1>5, <2>8
<1>8. QED BY <1>6, <1>7

LEMMA WalksAreFound ==
    ASSUME NEW V, NEW q, Walk(V, q)
    PROVE  q \in WalkDown(V)
<1> DEFINE C == Cardinality(Menus)
<1>1. C \in Nat
  BY WalkDownUnfolds
<1>2. PICK f : /\ WalkDown(V) = f[C] /\ f[0] = RootWalks(V)
               /\ \A n \in 1..C : f[n] = f[n - 1] \cup LongerWalks(V, f[n - 1])
  BY WalkDownUnfolds
<1>3. Len(q) \in Nat /\ Len(q) <= C
  BY WalksAreShort DEF Walk
<1> HIDE DEF C
<1> DEFINE T == {n \in 0..C : \E s : Walk(V, s) /\ Len(s) <= n + 1 /\ s \notin f[n]}
<1> SUFFICES ASSUME q \notin WalkDown(V) PROVE FALSE
  OBVIOUS
<1>4. PICK k \in T : \A n \in T : k <= n
  <2>1. C \in T /\ T \subseteq Nat
    BY <1>1, <1>2, <1>3
  <2> HIDE DEF T
  <2>2. QED BY <2>1, Least
<1>5. k \in 0..C
  OBVIOUS
<1>6. PICK s : Walk(V, s) /\ Len(s) <= k + 1 /\ s \notin f[k]
  BY <1>4
<1>7. s \in Seq(Menus) /\ s # <<>> /\ Len(s) \in Nat /\ Len(s) >= 1
  BY <1>6 DEF Walk
<1> DEFINE r == Last(s)
<1>8. WalkTo(V, s, r)
  BY <1>6 DEF WalkTo
<1> HIDE DEF r
<1>9. CASE k = 0
  <2>1. Len(s) = 1
    <3>1. \A n \in Nat : n >= 1 /\ n <= 0 + 1 => n = 1
      OBVIOUS
    <3>2. QED BY <1>6, <1>7, <1>9, <3>1
  <2>2. r \in Live(V) /\ V[r].parent = Null /\ s = <<r>>
    <3>1. r \in Live(V) /\ V[r].parent = Null
      BY <1>8, <2>1, WalkStep
    <3>2. s = <<s[1]>> /\ r = s[1]
      BY <1>7, <2>1 DEF Last, r
    <3>3. QED BY <3>1, <3>2
  <2>3. s \in RootWalks(V)
    BY <2>2 DEF RootWalks
  <2>4. QED BY <1>2, <1>6, <1>9, <2>3
<1>10. CASE k # 0
  <2>1. k \in 1..C /\ k - 1 \in 0..C /\ ~(k <= k - 1) /\ k - 1 + 1 = k
    BY <1>1, <1>5, <1>10
  <2>2. \A u : Walk(V, u) /\ Len(u) <= k => u \in f[k - 1]
    BY <1>4, <2>1
  <2>3. f[k] = f[k - 1] \cup LongerWalks(V, f[k - 1])
    BY <1>2, <2>1
  <2>4. Len(s) = k + 1 /\ Len(s) # 1
    <3>1. ~(Len(s) <= k)
      BY <1>6, <2>2, <2>3
    <3>2. \A n \in Nat : n <= k + 1 /\ ~(n <= k) => n = k + 1
      BY <1>1, <1>5
    <3>3. k + 1 # 1
      BY <1>1, <1>5, <1>10
    <3>4. QED BY <1>6, <1>7, <3>1, <3>2, <3>3
  <2> DEFINE u == SubSeq(s, 1, Len(s) - 1)
  <2>5. /\ r \in Live(V) /\ s = Append(u, r)
        /\ Walk(V, u) /\ Last(u) = V[r].parent
    BY <1>8, <2>4, WalkStep DEF WalkTo
  <2>6. Len(u) = k /\ u[Len(u)] = s[Len(s) - 1] /\ s[Len(s)] = r
    <3>1. Len(s) - 1 \in 1..Len(s) /\ Len(s) - 1 = k
      BY <1>7, <2>4, <2>1
    <3>2. Len(u) = k /\ u[k] = s[k]
      BY <1>7, <3>1
    <3>3. s[Len(s)] = r
      BY DEF Last, r
    <3>4. QED BY <3>1, <3>2, <3>3
  <2> HIDE DEF u
  <2>7. u \in f[k - 1]
    <3>1. Len(u) <= k
      BY <2>6, <2>1
    <3>2. QED BY <2>2, <2>5, <3>1
  <2>8. V[Last(s)].parent = s[Len(s) - 1]
    BY <2>5, <2>6 DEF Last
  <2>9. s \in LongerWalks(V, f[k - 1])
    <3>1. s \in {Append(x, y) : x \in f[k - 1], y \in Live(V)}
      BY <2>5, <2>7
    <3>2. QED BY <2>8, <3>1 DEF LongerWalks
  <2>10. QED BY <1>6, <2>3, <2>9
<1>11. QED BY <1>9, <1>10

(* What the query gives: a walk to each row of S that one leads to. *)
LEMMA RecomputedExact ==
    ASSUME NEW V, NEW S
    PROVE  /\ DOMAIN Recomputed(V, S) = {r \in S : \E q : WalkTo(V, q, r)}
           /\ \A r \in DOMAIN Recomputed(V, S) : WalkTo(V, Recomputed(V, S)[r], r)
<1> DEFINE Q == WalkDown(V)
           D == S \cap {Last(q) : q \in Q}
<1>1. Recomputed(V, S) = [r \in D |-> CHOOSE q \in Q : Last(q) = r]
  BY DEF Recomputed
<1>2. \A q, r : q \in Q /\ Last(q) = r <=> WalkTo(V, q, r)
  BY WalkDownWalks, WalksAreFound DEF WalkTo
<1> HIDE DEF Q
<1>3. D = {r \in S : \E q : WalkTo(V, q, r)}
  BY <1>2
<1>4. ASSUME NEW r \in D PROVE WalkTo(V, CHOOSE q \in Q : Last(q) = r, r)
  <2>1. \E q \in Q : Last(q) = r
    OBVIOUS
  <2>2. (CHOOSE q \in Q : Last(q) = r) \in Q /\ Last(CHOOSE q \in Q : Last(q) = r) = r
    BY <2>1
  <2>3. QED BY <1>2, <2>2
<1> HIDE DEF D
<1>5. QED BY <1>1, <1>3, <1>4

--------------------------------------------------------------------------------
(***************************************************************************)
(* Tables whose paths are walks, and what a request does to one.           *)
(***************************************************************************)

\* Every row carries the walk that leads to it.
Climbed(V) == \A r \in Live(V) : WalkTo(V, V[r].path, r)

\* A walk leads to every row, whatever path it carries.
Rooted(V) == \A r \in Live(V) : \E q \in WalkDown(V) : Last(q) = r

RowOK(r, m) ==
    /\ DOMAIN m = {"live", "parent", "path"}
    /\ m.live \in BOOLEAN /\ m.parent \in Menus \cup {Null} /\ m.path \in Seq(Menus)
    /\ IF m.live THEN m.path # <<>> /\ Last(m.path) = r ELSE m = NoMenu

TxOK(t) ==
    /\ DOMAIN t = {"pc", "kind", "rows", "parent", "above", "old", "written", "paths"}
    /\ t.pc \in {"idle", "validate", "write", "recompute", "store", "commit"}
    /\ t.kind \in {"none", "create", "move", "save", "delete"}
    /\ t.rows \subseteq Menus /\ t.parent \in Menus \cup {Null}
    /\ t.above \in Seq(Menus) /\ t.old \in Seq(Menus)
    /\ DOMAIN t.written \subseteq Menus /\ \A r \in DOMAIN t.written : RowOK(r, t.written[r])
    /\ DOMAIN t.paths \subseteq Menus
    /\ \A r \in DOMAIN t.paths :
         t.paths[r] \in Seq(Menus) /\ t.paths[r] # <<>> /\ Last(t.paths[r]) = r

TypeInv ==
    /\ DOMAIN menus = Menus /\ \A r \in Menus : RowOK(r, menus[r])
    /\ DOMAIN tx = Procs /\ \A p \in Procs : TxOK(tx[p])

\* What the one request t relies on, over the committed rows M.
Sound(t, M) ==
    LET V == Overlay(t.written, M) IN
    /\ Climbed(M)
    /\ t.pc = "validate" => t.kind = "move"
    /\ t.pc \in {"validate", "write"} /\ t.kind # "delete" =>
         t.parent \in Live(M) \cup {Null} /\ t.above = PathOf(M, t.parent)
    /\ t.pc = "write" /\ t.kind = "create" => t.rows \cap Live(M) = {}
    /\ t.pc = "write" /\ t.kind \in {"move", "save"} =>
         t.rows \subseteq Live(M) /\ t.rows \cap Range(t.above) = {}
    /\ t.pc = "write" /\ t.kind = "save" => \E r \in Menus : t.rows = {r} /\ t.old = M[r].path
    /\ t.pc = "recompute" =>
         /\ Rooted(V)
         /\ \A x \in Live(V) : \/ t.kind = "save" => IsPrefix(t.old, V[x].path)
                               \/ WalkTo(V, V[x].path, x)
    /\ t.pc = "store" =>
         /\ DOMAIN t.paths \subseteq Live(V)
         /\ \A x \in Live(V) :
              WalkTo(V, IF x \in DOMAIN t.paths THEN t.paths[x] ELSE V[x].path, x)
    /\ t.pc = "commit" => Climbed(V)

AloneInv == \A p \in Procs : Sound(tx[p], menus)

--------------------------------------------------------------------------------
(* Reading a table through a transaction. *)
LEMMA OverlaySeen ==
    ASSUME NEW own, NEW rows, NEW r \in DOMAIN own \cup DOMAIN rows
    PROVE  Overlay(own, rows)[r] = IF r \in DOMAIN own THEN own[r] ELSE rows[r]
BY DEF Overlay

LEMMA OverlayDomain ==
    ASSUME NEW own, NEW rows
    PROVE  DOMAIN Overlay(own, rows) = DOMAIN own \cup DOMAIN rows
BY DEF Overlay

LEMMA OverlayOK ==
    ASSUME NEW own, NEW rows, DOMAIN own \subseteq Menus,
           \A r \in DOMAIN own : RowOK(r, own[r]),
           DOMAIN rows \subseteq Menus, \A r \in DOMAIN rows : RowOK(r, rows[r])
    PROVE  /\ DOMAIN Overlay(own, rows) = DOMAIN own \cup DOMAIN rows
           /\ \A r \in DOMAIN own \cup DOMAIN rows : RowOK(r, Overlay(own, rows)[r])
<1>1. DOMAIN Overlay(own, rows) = DOMAIN own \cup DOMAIN rows
  BY OverlayDomain
<1>2. ASSUME NEW r \in DOMAIN own \cup DOMAIN rows PROVE RowOK(r, Overlay(own, rows)[r])
  <2>1. Overlay(own, rows)[r] = IF r \in DOMAIN own THEN own[r] ELSE rows[r]
    BY OverlaySeen
  <2>2. QED BY <2>1
<1>3. QED BY <1>1, <1>2

LEMMA NoMenuOK == ASSUME NEW r PROVE RowOK(r, NoMenu)
BY DEF RowOK, NoMenu

LEMMA IdleOK == TxOK(Idle)
BY DEF TxOK, Idle

LEMMA PathOfOK ==
    ASSUME NEW M, \A r \in Menus : RowOK(r, M[r]), NEW x \in Menus \cup {Null}
    PROVE  PathOf(M, x) \in Seq(Menus)
BY DEF PathOf, RowOK

LEMMA PathUnderOK ==
    ASSUME NEW above \in Seq(Menus), NEW r \in Menus
    PROVE  /\ PathUnder(above, r) \in Seq(Menus) /\ PathUnder(above, r) # <<>>
           /\ Last(PathUnder(above, r)) = r
BY DEF PathUnder, Last

LEMMA RecomputedOK ==
    ASSUME NEW V, NEW S \in SUBSET Menus
    PROVE  /\ DOMAIN Recomputed(V, S) \subseteq S
           /\ \A r \in DOMAIN Recomputed(V, S) :
                /\ Recomputed(V, S)[r] \in Seq(Menus) /\ Recomputed(V, S)[r] # <<>>
                /\ Last(Recomputed(V, S)[r]) = r
<1>1. DOMAIN Recomputed(V, S) \subseteq S
      /\ \A r \in DOMAIN Recomputed(V, S) : WalkTo(V, Recomputed(V, S)[r], r)
  <2>1. /\ DOMAIN Recomputed(V, S) = {r \in S : \E q : WalkTo(V, q, r)}
        /\ \A r \in DOMAIN Recomputed(V, S) : WalkTo(V, Recomputed(V, S)[r], r)
    BY RecomputedExact, Zenon
  <2>2. QED BY <2>1
<1>2. \A q, r : WalkTo(V, q, r) => q \in Seq(Menus) /\ q # <<>> /\ Last(q) = r
  BY DEF WalkTo, Walk
<1>3. QED BY <1>1, <1>2

LEMMA NewRowOK ==
    ASSUME NEW above \in Seq(Menus), NEW r \in Menus, NEW x \in Menus \cup {Null}
    PROVE  RowOK(r, [live |-> TRUE, parent |-> x, path |-> PathUnder(above, r)])
BY PathUnderOK DEF RowOK

LEMMA ResolvedOK ==
    ASSUME TypeInv, NEW kind \in {"create", "move", "save"}, NEW S \in SUBSET Menus,
           NEW x \in Menus \cup {Null}
    PROVE  LET t == Resolved(kind, S, x) IN
           /\ TxOK(t) /\ t.pc = (IF kind = "move" THEN "validate" ELSE "write")
           /\ t.kind = kind /\ t.rows = S /\ t.parent = x /\ t.above = PathOf(menus, x)
           /\ t.old = <<>> /\ t.written = <<>> /\ t.paths = <<>>
<1>1. PathOf(menus, x) \in Seq(Menus)
  BY PathOfOK DEF TypeInv
<1>2. QED BY <1>1 DEF Resolved, Idle, TxOK

\* What each step makes of the record of its process.
LEMMA TypesStep ==
    ASSUME TypeInv, [Next]_vars
    PROVE  TypeInv'
<1> USE DEF TypeInv
<1>1. CASE UNCHANGED vars
  BY <1>1 DEF vars
<1>2. ASSUME NEW p \in Procs, Request(p) \/ Step(p) \/ Rollback(p) PROVE TypeInv'
  <2> DEFINE t == tx[p]
  <2>1. TxOK(t) /\ \A r \in Menus : RowOK(r, menus[r])
    OBVIOUS
  <2>2. ASSUME NEW q, TxOK(q), tx' = [tx EXCEPT ![p] = q], UNCHANGED menus PROVE TypeInv'
    <3>1. DOMAIN tx' = Procs
      BY <2>2
    <3>2. \A o \in Procs : TxOK(tx'[o])
      BY <2>2
    <3>3. QED BY <3>1, <3>2, <2>2
  <2>3. ASSUME Abandon(p) PROVE TypeInv'
    BY <2>2, <2>3, IdleOK DEF Abandon
  <2>4. DOMAIN View(p) = Menus /\ \A r \in Menus : RowOK(r, View(p)[r])
    <3>1. DOMAIN t.written \subseteq Menus /\ \A r \in DOMAIN t.written : RowOK(r, t.written[r])
      BY <2>1 DEF TxOK
    <3>2. QED BY <2>1, <3>1, OverlayOK DEF View
  <2>5. ASSUME NEW r \in Menus, NEW m \in Menus \cup {Null}, Create(p, r, m) PROVE TypeInv'
    <3>1. TxOK(Resolved("create", {r}, m))
      BY ResolvedOK
    <3>2. QED BY <2>2, <2>5, <3>1 DEF Create, Begin
  <2>6. ASSUME NEW r \in Menus, NEW m \in Menus \cup {Null}, AdminSave(p, r, m) PROVE TypeInv'
    <3> DEFINE u == Resolved("save", {r}, m)
               q == [u EXCEPT !.old = menus[r].path]
    <3>1. TxOK(u)
      BY ResolvedOK
    <3>2. menus[r].path \in Seq(Menus)
      BY DEF RowOK
    <3>3. tx' = [tx EXCEPT ![p] = q] /\ UNCHANGED menus
      BY <2>6 DEF AdminSave, Begin
    <3> HIDE DEF u
    <3>4. TxOK(q)
      BY <3>1, <3>2 DEF TxOK
    <3>5. QED BY <2>2, <3>3, <3>4
  <2>7. ASSUME NEW S \in SUBSET Menus, NEW m \in Menus \cup {Null}, Move(p, S, m) PROVE TypeInv'
    <3>1. TxOK(Resolved("move", S, m))
      BY ResolvedOK
    <3>2. QED BY <2>2, <2>7, <3>1 DEF Move, Begin
  <2>8. ASSUME NEW S \in SUBSET Menus, Delete(p, S) PROVE TypeInv'
    <3> DEFINE q == [Idle EXCEPT !.pc = "write", !.kind = "delete", !.rows = S]
    <3>1. TxOK(q)
      BY DEF TxOK, Idle
    <3>2. QED BY <2>2, <2>8, <3>1 DEF Delete, Begin
  <2>9. CASE ValidateMove(p)
    <3> DEFINE S == t.rows \cap Live(menus)
               q == [t EXCEPT !.pc = "write", !.rows = S]
    <3>1. TxOK(q)
      BY <2>1 DEF TxOK
    <3>2. Abandon(p) \/ (tx' = [tx EXCEPT ![p] = q] /\ UNCHANGED menus)
      BY <2>9 DEF ValidateMove
    <3>3. QED BY <2>2, <2>3, <3>1, <3>2
  <2>10. ASSUME NEW f, NEW s \in {"recompute", "commit"}, DOMAIN f \subseteq Menus,
                \A r \in DOMAIN f : RowOK(r, f[r])
         PROVE  TxOK([t EXCEPT !.pc = s, !.written = f])
    BY <2>1, <2>10 DEF TxOK
  <2>11. CASE WriteCreate(p)
    <3> DEFINE f == [r \in t.rows |-> [live |-> TRUE, parent |-> t.parent,
                                       path |-> PathUnder(t.above, r)]]
    <3>1. DOMAIN f \subseteq Menus /\ \A r \in DOMAIN f : RowOK(r, f[r])
      <4>1. t.above \in Seq(Menus) /\ t.rows \subseteq Menus /\ t.parent \in Menus \cup {Null}
        BY <2>1 DEF TxOK
      <4>2. QED BY <4>1, NewRowOK
    <3>2. Abandon(p) \/ (tx' = [tx EXCEPT ![p] = [t EXCEPT !.pc = "commit", !.written = f]]
                         /\ UNCHANGED menus)
      BY <2>11 DEF WriteCreate
    <3> HIDE DEF f
    <3>3. QED BY <2>2, <2>3, <2>10, <3>1, <3>2
  <2>12. CASE WriteMove(p)
    <3> DEFINE f == [r \in {x \in t.rows : menus[x].live} |->
                       [menus[r] EXCEPT !.parent = t.parent]]
    <3>1. ASSUME NEW r \in t.rows, menus[r].live
          PROVE  RowOK(r, [menus[r] EXCEPT !.parent = t.parent])
      BY <2>1, <3>1 DEF TxOK, RowOK
    <3>2. DOMAIN f \subseteq Menus /\ \A r \in DOMAIN f : RowOK(r, f[r])
      BY <2>1, <3>1 DEF TxOK
    <3>3. tx' = [tx EXCEPT ![p] = [t EXCEPT !.pc = "recompute", !.written = f]]
          /\ UNCHANGED menus
      BY <2>12 DEF WriteMove
    <3> HIDE DEF f
    <3>4. QED BY <2>2, <2>10, <3>2, <3>3
  <2>13. CASE WriteSave(p)
    <3> DEFINE f == [r \in t.rows |-> [live |-> TRUE, parent |-> t.parent,
                                       path |-> PathUnder(t.above, r)]]
    <3>1. DOMAIN f \subseteq Menus /\ \A r \in DOMAIN f : RowOK(r, f[r])
      <4>1. t.above \in Seq(Menus) /\ t.rows \subseteq Menus /\ t.parent \in Menus \cup {Null}
        BY <2>1 DEF TxOK
      <4>2. QED BY <4>1, NewRowOK
    <3>2. Abandon(p) \/ (tx' = [tx EXCEPT ![p] = [t EXCEPT !.pc = "recompute", !.written = f]]
                         /\ UNCHANGED menus)
      BY <2>13 DEF WriteSave
    <3> HIDE DEF f
    <3>3. QED BY <2>2, <2>3, <2>10, <3>1, <3>2
  <2>14. CASE WriteDelete(p)
    <3> DEFINE f == [r \in t.rows \cap Live(menus) |-> NoMenu]
    <3>1. DOMAIN f \subseteq Menus /\ \A r \in DOMAIN f : RowOK(r, f[r])
      BY NoMenuOK DEF Live
    <3>2. Abandon(p) \/ (tx' = [tx EXCEPT ![p] = [t EXCEPT !.pc = "commit", !.written = f]]
                         /\ UNCHANGED menus)
      BY <2>14 DEF WriteDelete
    <3> HIDE DEF f
    <3>3. QED BY <2>2, <2>3, <2>10, <3>1, <3>2
  <2>15. CASE RecomputeRead(p)
    <3> DEFINE S == {r \in Live(View(p)) : t.kind = "save" => IsPrefix(t.old, View(p)[r].path)}
               f == Recomputed(View(p), S)
               q == [t EXCEPT !.pc = "store", !.paths = f]
    <3>1. Abandon(p) \/ (tx' = [tx EXCEPT ![p] = q] /\ UNCHANGED menus)
      BY <2>15 DEF RecomputeRead
    <3>2. S \in SUBSET Menus
      BY DEF Live
    <3> HIDE DEF S
    <3>3. DOMAIN f \subseteq Menus
          /\ \A r \in DOMAIN f : f[r] \in Seq(Menus) /\ f[r] # <<>> /\ Last(f[r]) = r
      BY <3>2, RecomputedOK
    <3> HIDE DEF f
    <3>4. TxOK(q)
      BY <2>1, <3>3 DEF TxOK
    <3>5. QED BY <2>2, <2>3, <3>1, <3>4
  <2>16. CASE RecomputeStore(p)
    <3> DEFINE D == {r \in DOMAIN t.paths : View(p)[r].live}
               g == [r \in D |-> [View(p)[r] EXCEPT !.path = t.paths[r]]]
               f == Overlay(g, t.written)
    <3>1. tx' = [tx EXCEPT ![p] = [t EXCEPT !.pc = "commit", !.written = f]] /\ UNCHANGED menus
      BY <2>16 DEF RecomputeStore
    <3>2. D \subseteq Menus
      BY <2>1 DEF TxOK
    <3>3. ASSUME NEW r \in D PROVE RowOK(r, [View(p)[r] EXCEPT !.path = t.paths[r]])
      <4>1. RowOK(r, View(p)[r]) /\ View(p)[r].live
        BY <2>4, <3>2
      <4>2. t.paths[r] \in Seq(Menus) /\ t.paths[r] # <<>> /\ Last(t.paths[r]) = r
        BY <2>1 DEF TxOK
      <4>3. QED BY <4>1, <4>2 DEF RowOK
    <3>4. DOMAIN g \subseteq Menus /\ \A r \in DOMAIN g : RowOK(r, g[r])
      BY <3>2, <3>3
    <3>5. DOMAIN t.written \subseteq Menus /\ \A r \in DOMAIN t.written : RowOK(r, t.written[r])
      BY <2>1 DEF TxOK
    <3> HIDE DEF g
    <3>6. DOMAIN f \subseteq Menus /\ \A r \in DOMAIN f : RowOK(r, f[r])
      BY <3>4, <3>5, OverlayOK
    <3> HIDE DEF f
    <3>7. QED BY <2>2, <2>10, <3>1, <3>6
  <2>17. CASE Commit(p)
    <3>1. menus' = View(p) /\ tx' = [tx EXCEPT ![p] = Idle]
      BY <2>17 DEF Commit
    <3>2. DOMAIN tx' = Procs /\ \A o \in Procs : TxOK(tx'[o])
      BY <3>1, IdleOK
    <3>3. DOMAIN menus' = Menus /\ \A r \in Menus : RowOK(r, menus'[r])
      BY <2>4, <3>1
    <3>4. QED BY <3>2, <3>3
  <2>18. CASE Rollback(p)
    BY <2>3, <2>18 DEF Rollback
  <2>19. QED
    BY <1>2, <2>5, <2>6, <2>7, <2>8, <2>9, <2>11, <2>12, <2>13, <2>14, <2>15, <2>16,
       <2>17, <2>18 DEF Request, Step
<1>3. QED BY <1>1, <1>2 DEF Next

LEMMA TypesStart == Init => TypeInv
BY IdleOK, NoMenuOK DEF Init, TypeInv

LEMMA TypesHold == Spec => []TypeInv
BY TypesStart, TypesStep, PTL DEF Spec

(* Rows, transactions and requests have their types, and a path ends with the *)
(* key of its row, however many processes serve requests.                     *)
THEOREM TypesAreKept == Spec => []TypeOK
<1>1. TypeInv => TypeOK
  <2> SUFFICES ASSUME TypeInv PROVE TypeOK
    OBVIOUS
  <2>1. ASSUME NEW r \in Menus
        PROVE  /\ menus[r].live \in BOOLEAN /\ menus[r].parent \in Menus \cup {Null}
               /\ IF menus[r].live THEN menus[r].path # <<>> /\ Last(menus[r].path) = r
                                   ELSE menus[r] = NoMenu
    <3>1. RowOK(r, menus[r])
      BY DEF TypeInv
    <3>2. QED BY <3>1 DEF RowOK
  <2>2. ASSUME NEW p \in Procs
        PROVE  /\ tx[p].pc \in {"idle", "validate", "write", "recompute", "store", "commit"}
               /\ tx[p].kind \in {"none", "create", "move", "save", "delete"}
               /\ tx[p].rows \cup DOMAIN tx[p].written \cup DOMAIN tx[p].paths \subseteq Menus
    <3>1. TxOK(tx[p])
      BY DEF TypeInv
    <3>2. QED BY <3>1 DEF TxOK
  <2>3. QED BY <2>1, <2>2 DEF TypeOK
<1>2. QED BY <1>1, TypesHold, PTL

--------------------------------------------------------------------------------
(***************************************************************************)
(* Walks of a table and of the table it becomes.                           *)
(***************************************************************************)
LEMMA WalkKept ==
    ASSUME NEW V, NEW W, NEW q, NEW r, WalkTo(V, q, r),
           \A i \in 1..Len(q) : q[i] \in Live(W) /\ W[q[i]].parent = V[q[i]].parent
    PROVE  WalkTo(W, q, r)
<1>1. q \in Seq(Menus) /\ q # <<>> /\ Last(q) = r /\ Len(q) \in Nat
  BY DEF WalkTo, Walk
<1>2. 1 \in 1..Len(q) /\ \A i \in 2..Len(q) : i \in 1..Len(q)
  BY <1>1
<1>3. W[q[1]].parent = Null
  BY <1>2 DEF WalkTo, Walk
<1>4. \A i \in 2..Len(q) : W[q[i]].parent = q[i - 1]
  BY <1>2 DEF WalkTo, Walk
<1>5. QED BY <1>1, <1>3, <1>4 DEF WalkTo, Walk

LEMMA RootedMeans ==
    ASSUME NEW V
    PROVE  Rooted(V) <=> \A r \in Live(V) : \E q : WalkTo(V, q, r)
<1>1. \A q, r : q \in WalkDown(V) /\ Last(q) = r <=> WalkTo(V, q, r)
  BY WalkDownWalks, WalksAreFound DEF WalkTo
<1>2. ASSUME NEW r
      PROVE  (\E q \in WalkDown(V) : Last(q) = r) <=> (\E q : WalkTo(V, q, r))
  BY <1>1
<1>3. QED BY <1>2 DEF Rooted

LEMMA ClimbedIsRooted ==
    ASSUME NEW V, Climbed(V)
    PROVE  Rooted(V)
BY RootedMeans DEF Climbed

(* The path of an ancestor is where the walk to it ends. *)
LEMMA PathsAreCuts ==
    ASSUME NEW V, Climbed(V), NEW q, Walk(V, q), NEW i \in 1..Len(q)
    PROVE  q[i] \in Live(V) /\ V[q[i]].path = SubSeq(q, 1, i)
<1>1. q[i] \in Live(V)
  BY DEF Walk
<1>2. WalkTo(V, SubSeq(q, 1, i), q[i])
  BY WalkCut
<1>3. WalkTo(V, V[q[i]].path, q[i])
  BY <1>1 DEF Climbed
<1>4. QED BY <1>1, <1>2, <1>3, WalksAreUnique

LEMMA AncestorsArePrefixes ==
    ASSUME NEW V, Climbed(V), NEW a \in Live(V), NEW x \in Live(V)
    PROVE  IsPrefix(V[a].path, V[x].path) <=> a \in Range(V[x].path)
<1> DEFINE q == V[x].path
           u == V[a].path
<1>1. WalkTo(V, q, x) /\ WalkTo(V, u, a)
  BY DEF Climbed
<1> HIDE DEF q, u
<1>2. /\ q \in Seq(Menus) /\ u \in Seq(Menus) /\ u # <<>> /\ Len(q) \in Nat /\ Len(u) \in Nat
      /\ Len(u) >= 1 /\ u[Len(u)] = a
  BY <1>1 DEF WalkTo, Walk, Last
<1>3. ASSUME IsPrefix(u, q) PROVE a \in Range(q)
  <2>1. Len(u) <= Len(q) /\ SubSeq(u, 1, Len(u)) = SubSeq(q, 1, Len(u))
    BY <1>3 DEF IsPrefix
  <2>2. Len(u) \in 1..Len(q) /\ q[Len(u)] = a
    <3>1. SubSeq(u, 1, Len(u))[Len(u)] = u[Len(u)]
      BY <1>2
    <3>2. SubSeq(q, 1, Len(u))[Len(u)] = q[Len(u)]
      BY <1>2, <2>1
    <3>3. QED BY <1>2, <2>1, <3>1, <3>2
  <2>3. QED BY <1>2, <2>2 DEF Range
<1>4. ASSUME a \in Range(q) PROVE IsPrefix(u, q)
  <2>1. PICK i \in 1..Len(q) : q[i] = a
    BY <1>2, <1>4 DEF Range
  <2>2. u = SubSeq(q, 1, i)
    BY <1>1, <2>1, PathsAreCuts DEF WalkTo, u
  <2>3. Len(u) = i /\ i <= Len(q)
    BY <1>2, <2>2
  <2>4. SubSeq(u, 1, Len(u)) = u
    BY <1>2
  <2>5. QED BY <2>2, <2>3, <2>4 DEF IsPrefix
<1>5. QED BY <1>3, <1>4 DEF q, u

(* Rows given another parent, none of them above it: walks still lead everywhere. *)
LEMMA Replanted ==
    ASSUME NEW M, Climbed(M), NEW S, NEW x \in Live(M) \cup {Null},
           S \cap Range(PathOf(M, x)) = {},
           NEW V, Live(V) = Live(M),
           \A r \in Live(M) : V[r].parent = IF r \in S THEN x ELSE M[r].parent
    PROVE  /\ Rooted(V)
           /\ \A r \in Live(M) \cap S : WalkTo(V, PathUnder(PathOf(M, x), r), r)
<1> DEFINE A == PathOf(M, x)
<1>1. Null \notin Live(M)
  BY MenuAssumption DEF Live
<1>2. ASSUME NEW r \in Live(M) \cap S PROVE WalkTo(V, Append(A, r), r)
  <2>1. V[r].parent = x /\ r \in Live(V)
    OBVIOUS
  <2>2. CASE x = Null
    <3>1. A = <<>> /\ Append(<<>>, r) = <<r>>
      BY <2>2 DEF PathOf
    <3>2. QED BY <2>1, <2>2, <3>1, WalkOfOne
  <2>3. CASE x # Null
    <3>1. WalkTo(M, A, x)
      BY <2>3 DEF PathOf, Climbed
    <3>2. A \in Seq(Menus) /\ Len(A) \in Nat
      BY <3>1 DEF WalkTo, Walk
    <3>3. ASSUME NEW i \in 1..Len(A)
          PROVE  A[i] \in Live(V) /\ V[A[i]].parent = M[A[i]].parent
      <4>1. A[i] \in Live(M)
        BY <3>1 DEF WalkTo, Walk
      <4>2. A[i] \in Range(A)
        BY <3>2 DEF Range
      <4>3. QED BY <4>1, <4>2
    <3>4. WalkTo(V, A, x)
      BY <3>1, <3>3, WalkKept
    <3>5. QED BY <2>1, <3>4, WalkFurther
  <2>4. QED BY <2>2, <2>3
<1>3. ASSUME NEW r \in Live(M) PROVE \E u : WalkTo(V, u, r)
  <2> DEFINE q == M[r].path
             T == {n \in 1..Len(q) : ~ \E u : WalkTo(V, u, q[n])}
  <2>1. WalkTo(M, q, r)
    BY DEF Climbed
  <2> HIDE DEF q
  <2>2. q \in Seq(Menus) /\ Len(q) \in Nat /\ Len(q) >= 1 /\ q[Len(q)] = r
    BY <2>1 DEF WalkTo, Walk, Last
  <2> SUFFICES ASSUME ~ \E u : WalkTo(V, u, r) PROVE FALSE
    OBVIOUS
  <2>3. PICK k \in T : \A n \in T : k <= n
    <3>1. Len(q) \in T /\ T \subseteq Nat
      BY <2>2
    <3> HIDE DEF T
    <3>2. QED BY <3>1, Least
  <2>4. k \in 1..Len(q) /\ q[k] \in Live(M) /\ q[k] \notin S
    <3>1. k \in 1..Len(q) /\ ~ \E u : WalkTo(V, u, q[k])
      OBVIOUS
    <3>2. q[k] \in Live(M)
      BY <2>1, <3>1 DEF WalkTo, Walk
    <3>3. QED BY <1>2, <3>1, <3>2
  <2>5. V[q[k]].parent = M[q[k]].parent /\ q[k] \in Live(V)
    BY <2>4
  <2>6. CASE k = 1
    <3>1. M[q[k]].parent = Null
      BY <2>1, <2>6 DEF WalkTo, Walk
    <3>2. WalkTo(V, <<q[k]>>, q[k])
      BY <2>5, <3>1, WalkOfOne
    <3>3. QED BY <3>2
  <2>7. CASE k # 1
    <3>1. k \in 2..Len(q) /\ k - 1 \in 1..Len(q) /\ ~(k <= k - 1)
      BY <2>2, <2>4, <2>7
    <3>2. PICK u : WalkTo(V, u, q[k - 1])
      BY <2>3, <3>1
    <3>3. M[q[k]].parent = q[k - 1]
      BY <2>1, <3>1 DEF WalkTo, Walk
    <3>4. WalkTo(V, Append(u, q[k]), q[k])
      BY <2>5, <3>2, <3>3, WalkFurther
    <3>5. QED BY <3>4
  <2>8. QED BY <2>6, <2>7
<1>4. Rooted(V)
  BY <1>3, RootedMeans
<1>5. QED BY <1>2, <1>4 DEF PathUnder

--------------------------------------------------------------------------------
(***************************************************************************)
(* What each request writes, with no other beside it.                      *)
(***************************************************************************)
LEMMA CreatedClimb ==
    ASSUME NEW M, Climbed(M), NEW S \in SUBSET Menus, S \cap Live(M) = {},
           NEW x \in Live(M) \cup {Null}, NEW V,
           \A r \in Menus : V[r] = IF r \in S THEN [live |-> TRUE, parent |-> x,
                                                   path |-> PathUnder(PathOf(M, x), r)]
                                              ELSE M[r]
    PROVE  Climbed(V)
<1>1. Live(M) \subseteq Live(V) /\ \A r \in Live(M) : V[r] = M[r]
  BY DEF Live
<1>2. ASSUME NEW r \in Live(M) PROVE WalkTo(V, V[r].path, r)
  <2>1. WalkTo(M, M[r].path, r)
    BY DEF Climbed
  <2>2. \A i \in 1..Len(M[r].path) : M[r].path[i] \in Live(M)
    BY <2>1 DEF WalkTo, Walk
  <2>3. WalkTo(V, M[r].path, r)
    BY <1>1, <2>1, <2>2, WalkKept
  <2>4. QED BY <1>1, <2>3
<1>3. ASSUME NEW r \in S PROVE WalkTo(V, V[r].path, r)
  <2>1. r \in Live(V) /\ V[r].parent = x /\ V[r].path = Append(PathOf(M, x), r)
    <3>1. r \in Menus
      OBVIOUS
    <3>2. V[r] = [live |-> TRUE, parent |-> x, path |-> PathUnder(PathOf(M, x), r)]
      BY <3>1
    <3>3. QED BY <3>1, <3>2 DEF Live, PathUnder
  <2>2. CASE x = Null
    <3>1. V[r].path = <<r>>
      BY <2>1, <2>2 DEF PathOf
    <3>2. QED BY <2>1, <2>2, <3>1, WalkOfOne
  <2>3. CASE x # Null
    <3>1. x \in Live(M) /\ PathOf(M, x) = V[x].path
      BY <1>1, <2>3 DEF PathOf
    <3>2. WalkTo(V, PathOf(M, x), x)
      BY <1>2, <3>1
    <3>3. QED BY <2>1, <3>2, WalkFurther
  <2>4. QED BY <2>2, <2>3
<1>4. ASSUME NEW r \in Live(V) PROVE r \in Live(M) \/ r \in S
  BY DEF Live
<1>5. QED BY <1>2, <1>3, <1>4 DEF Climbed

LEMMA DeletedClimb ==
    ASSUME NEW M, Climbed(M), NEW S, \A x \in Live(M) : M[x].parent \notin S, NEW V,
           \A r \in Menus : V[r] = IF r \in S THEN NoMenu ELSE M[r]
    PROVE  Climbed(V)
<1>1. \A r \in Menus : r \in Live(V) <=> r \in Live(M) /\ r \notin S
  BY DEF Live, NoMenu
<1>2. ASSUME NEW r \in Live(V) PROVE WalkTo(V, V[r].path, r)
  <2> DEFINE q == M[r].path
  <2>1. r \in Live(M) /\ r \notin S /\ V[r].path = q
    BY <1>1 DEF Live
  <2>2. WalkTo(M, q, r)
    BY <2>1 DEF Climbed
  <2> HIDE DEF q
  <2>3. q \in Seq(Menus) /\ Len(q) \in Nat /\ q[Len(q)] = r
    BY <2>2 DEF WalkTo, Walk, Last
  <2>4. ASSUME NEW i \in 1..Len(q) PROVE q[i] \in Live(V) /\ V[q[i]].parent = M[q[i]].parent
    <3>1. q[i] \in Live(M) /\ q[i] \in Menus
      BY <2>2 DEF WalkTo, Walk, Live
    <3>2. q[i] \notin S
      <4>1. CASE i = Len(q)
        BY <2>1, <2>3, <4>1
      <4>2. CASE i # Len(q)
        <5>1. i + 1 \in 2..Len(q) /\ i + 1 \in 1..Len(q) /\ (i + 1) - 1 = i
          BY <2>3, <4>2
        <5>2. M[q[i + 1]].parent = q[i] /\ q[i + 1] \in Live(M)
          BY <2>2, <5>1 DEF WalkTo, Walk
        <5>3. QED BY <5>2
      <4>3. QED BY <4>1, <4>2
    <3>3. QED BY <1>1, <3>1, <3>2
  <2>5. WalkTo(V, q, r)
    BY <2>2, <2>4, WalkKept
  <2>6. QED BY <2>1, <2>5
<1>3. QED BY <1>2 DEF Climbed

(* What save() leaves outside of the rows it recomputes is right already. *)
LEMMA SavedElsewhere ==
    ASSUME NEW M, Climbed(M), NEW r \in Live(M), NEW x \in Live(M) \cup {Null},
           r \notin Range(PathOf(M, x)), NEW V, Live(V) = Live(M),
           \A y \in Live(M) :
             /\ V[y].parent = IF y = r THEN x ELSE M[y].parent
             /\ V[y].path = IF y = r THEN PathUnder(PathOf(M, x), r) ELSE M[y].path
    PROVE  /\ Rooted(V)
           /\ \A y \in Live(V) : IsPrefix(M[r].path, V[y].path) \/ WalkTo(V, V[y].path, y)
<1>1. /\ Rooted(V)
      /\ \A y \in Live(M) \cap {r} : WalkTo(V, PathUnder(PathOf(M, x), y), y)
  <2>1. {r} \cap Range(PathOf(M, x)) = {}
        /\ \A y \in Live(M) : V[y].parent = IF y \in {r} THEN x ELSE M[y].parent
    OBVIOUS
  <2>2. QED BY <2>1, Replanted
<1>2. ASSUME NEW y \in Live(V), ~IsPrefix(M[r].path, V[y].path)
      PROVE  WalkTo(V, V[y].path, y)
  <2>1. CASE y = r
    BY <1>1, <2>1
  <2>2. CASE y # r
    <3> DEFINE q == M[y].path
    <3>1. V[y].path = q /\ y \in Live(M)
      BY <2>2
    <3>2. r \notin Range(q)
      BY <1>2, <3>1, AncestorsArePrefixes
    <3>3. WalkTo(M, q, y)
      BY <3>1 DEF Climbed
    <3> HIDE DEF q
    <3>4. ASSUME NEW i \in 1..Len(q)
          PROVE  q[i] \in Live(V) /\ V[q[i]].parent = M[q[i]].parent
      <4>1. q[i] \in Live(M)
        BY <3>3 DEF WalkTo, Walk
      <4>2. q[i] \in Range(q)
        BY <3>3 DEF WalkTo, Walk, Range
      <4>3. QED BY <3>2, <4>1, <4>2
    <3>5. QED BY <3>1, <3>3, <3>4, WalkKept
  <2>3. QED BY <2>1, <2>2
<1>3. QED BY <1>1, <1>2

(* A walk read for each row, stored. *)
LEMMA StoredClimb ==
    ASSUME NEW V, NEW paths, DOMAIN paths \subseteq Live(V),
           \A y \in Live(V) : WalkTo(V, IF y \in DOMAIN paths THEN paths[y] ELSE V[y].path, y),
           NEW W, Live(W) = Live(V),
           \A y \in Live(V) :
             /\ W[y].parent = V[y].parent
             /\ W[y].path = IF y \in DOMAIN paths THEN paths[y] ELSE V[y].path
    PROVE  Climbed(W)
<1>1. ASSUME NEW y \in Live(W) PROVE WalkTo(W, W[y].path, y)
  <2>1. WalkTo(V, W[y].path, y)
    OBVIOUS
  <2>2. \A i \in 1..Len(W[y].path) : W[y].path[i] \in Live(V)
    BY <2>1 DEF WalkTo, Walk
  <2>3. QED BY <2>1, <2>2, WalkKept
<1>2. QED BY <1>1 DEF Climbed

--------------------------------------------------------------------------------
(***************************************************************************)
(* One process: what it read stays true until it commits.                  *)
(***************************************************************************)
LEMMA OverlayTwice ==
    ASSUME NEW g, NEW own, NEW M, DOMAIN M = Menus, DOMAIN own \subseteq Menus,
           DOMAIN g \subseteq Menus
    PROVE  \A r \in Menus : Overlay(Overlay(g, own), M)[r] =
                              IF r \in DOMAIN g THEN g[r] ELSE Overlay(own, M)[r]
BY DEF Overlay

LEMMA SoundAlone ==
    ASSUME NEW w, Procs = {w}, AdminCares, TypeInv, AloneInv, [Next]_vars
    PROVE  AloneInv'
<1>1. CASE UNCHANGED vars
  BY <1>1 DEF vars, AloneInv
<1>2. ASSUME Request(w) \/ Step(w) \/ Rollback(w) PROVE AloneInv'
  <2> DEFINE t == tx[w]
             M == menus
             V == View(w)
  <2>1. /\ TxOK(t) /\ DOMAIN tx = {w} /\ DOMAIN M = Menus
        /\ \A r \in Menus : RowOK(r, M[r])
    BY DEF TypeInv
  <2>2. /\ DOMAIN t = {"pc", "kind", "rows", "parent", "above", "old", "written", "paths"}
        /\ t.rows \subseteq Menus /\ DOMAIN t.written \subseteq Menus
    BY <2>1 DEF TxOK
  <2>3. Sound(t, M) /\ V = Overlay(t.written, M)
    BY DEF AloneInv, View
  <2>4. Climbed(M)
    BY <2>3 DEF Sound
  <2>5. ASSUME NEW N, Climbed(N) PROVE Sound(Idle, N)
    BY <2>5 DEF Sound, Idle
  <2>6. ASSUME NEW q, Sound(q, M), tx' = [tx EXCEPT ![w] = q], UNCHANGED menus PROVE AloneInv'
    <3>1. tx'[w] = q /\ menus' = M
      BY <2>1, <2>6
    <3>2. QED BY <2>6, <3>1 DEF AloneInv
  <2>7. ASSUME Abandon(w) PROVE AloneInv'
    BY <2>4, <2>5, <2>6, <2>7 DEF Abandon
  <2>8. ASSUME NEW f, DOMAIN f \subseteq Menus
        PROVE  \A r \in Menus : Overlay(f, M)[r] = IF r \in DOMAIN f THEN f[r] ELSE M[r]
    BY <2>1, <2>8, OverlaySeen
  <2>9. ASSUME NEW r \in Menus, NEW m \in Menus \cup {Null}, Create(w, r, m) PROVE AloneInv'
    <3> DEFINE q == Resolved("create", {r}, m)
    <3>1. q.pc = "write" /\ q.kind = "create" /\ q.rows = {r} /\ q.parent = m
          /\ q.above = PathOf(M, m)
      BY ResolvedOK
    <3>2. tx' = [tx EXCEPT ![w] = q] /\ UNCHANGED menus
      BY <2>9 DEF Create, Begin
    <3> HIDE DEF q
    <3>3. {r} \cap Live(M) = {} /\ m \in Live(M) \cup {Null}
      BY <2>9 DEF Create, NewKey, Live
    <3>4. Sound(q, M)
      BY <2>4, <3>1, <3>3 DEF Sound
    <3>5. QED BY <2>6, <3>2, <3>4
  <2>10. ASSUME NEW r \in Menus, NEW m \in Menus \cup {Null}, AdminSave(w, r, m) PROVE AloneInv'
    <3> DEFINE u == Resolved("save", {r}, m)
               q == [u EXCEPT !.old = M[r].path]
    <3>1. u.pc = "write" /\ u.kind = "save" /\ u.rows = {r} /\ u.parent = m
          /\ u.above = PathOf(M, m) /\ TxOK(u)
      BY ResolvedOK
    <3>2. tx' = [tx EXCEPT ![w] = q] /\ UNCHANGED menus
      BY <2>10 DEF AdminSave, Begin
    <3> HIDE DEF u
    <3>3. q.pc = "write" /\ q.kind = "save" /\ q.rows = {r} /\ q.parent = m
          /\ q.above = PathOf(M, m) /\ q.old = M[r].path
      BY <3>1 DEF TxOK
    <3> HIDE DEF q
    <3>4. r \in Live(M) /\ m \in Live(M) \cup {Null} /\ r \notin Range(PathOf(M, m))
      BY <2>10 DEF AdminSave
    <3>5. {r} \subseteq Live(M) /\ {r} \cap Range(PathOf(M, m)) = {}
      BY <3>4
    <3>6. Sound(q, M)
      BY <2>4, <3>3, <3>4, <3>5 DEF Sound
    <3>7. QED BY <2>6, <3>2, <3>6
  <2>11. ASSUME NEW S \in SUBSET Menus, NEW m \in Menus \cup {Null}, Move(w, S, m) PROVE AloneInv'
    <3> DEFINE q == Resolved("move", S, m)
    <3>1. q.pc = "validate" /\ q.kind = "move" /\ q.parent = m /\ q.above = PathOf(M, m)
      BY ResolvedOK
    <3>2. tx' = [tx EXCEPT ![w] = q] /\ UNCHANGED menus /\ m \in Live(M) \cup {Null}
      BY <2>11 DEF Move, Begin
    <3> HIDE DEF q
    <3>3. Sound(q, M)
      BY <2>4, <3>1, <3>2 DEF Sound
    <3>4. QED BY <2>6, <3>2, <3>3
  <2>12. ASSUME NEW S \in SUBSET Menus, Delete(w, S) PROVE AloneInv'
    <3> DEFINE q == [Idle EXCEPT !.pc = "write", !.kind = "delete", !.rows = S]
    <3>1. q.pc = "write" /\ q.kind = "delete"
      BY DEF Idle
    <3>2. tx' = [tx EXCEPT ![w] = q] /\ UNCHANGED menus
      BY <2>12 DEF Delete, Begin
    <3> HIDE DEF q
    <3>3. Sound(q, M)
      BY <2>4, <3>1 DEF Sound
    <3>4. QED BY <2>6, <3>2, <3>3
  <2>13. CASE ValidateMove(w)
    <3> DEFINE S == t.rows \cap Live(M)
               q == [t EXCEPT !.pc = "write", !.rows = S]
    <3>1. CASE /\ \A r \in S : ~Refused(t, r)
               /\ tx' = [tx EXCEPT ![w] = q] /\ UNCHANGED menus
      <4>1. t.pc = "validate"
        BY <2>13 DEF ValidateMove
      <4>2. t.kind = "move" /\ t.parent \in Live(M) \cup {Null} /\ t.above = PathOf(M, t.parent)
        BY <2>3, <4>1 DEF Sound
      <4>3. S \cap Range(t.above) = {}
        <5>1. CASE t.parent = Null
          BY <4>2, <5>1 DEF PathOf, Range
        <5>2. CASE t.parent # Null
          BY <3>1, <5>2 DEF Refused
        <5>3. QED BY <5>1, <5>2
      <4>4. q.pc = "write" /\ q.kind = "move" /\ q.rows = S /\ q.parent = t.parent
            /\ q.above = t.above
        BY <2>2, <4>2
      <4>5. S \subseteq Live(M)
        OBVIOUS
      <4> HIDE DEF q, S
      <4>6. Sound(q, M)
        BY <2>4, <4>2, <4>3, <4>4, <4>5 DEF Sound
      <4>7. QED BY <2>6, <3>1, <4>6
    <3>2. QED BY <2>7, <2>13, <3>1 DEF ValidateMove
  <2>14. CASE WriteCreate(w)
    <3> DEFINE f == [r \in t.rows |-> [live |-> TRUE, parent |-> t.parent,
                                       path |-> PathUnder(t.above, r)]]
               q == [t EXCEPT !.pc = "commit", !.written = f]
    <3>1. t.pc = "write" /\ t.kind = "create"
          /\ (Abandon(w) \/ (tx' = [tx EXCEPT ![w] = q] /\ UNCHANGED menus))
      BY <2>14 DEF WriteCreate
    <3>2. t.parent \in Live(M) \cup {Null} /\ t.above = PathOf(M, t.parent)
          /\ t.rows \cap Live(M) = {}
      BY <2>3, <3>1 DEF Sound
    <3>3. \A r \in Menus : Overlay(f, M)[r] =
             IF r \in t.rows THEN [live |-> TRUE, parent |-> t.parent,
                                   path |-> PathUnder(PathOf(M, t.parent), r)] ELSE M[r]
      <4>1. DOMAIN f = t.rows /\ DOMAIN f \subseteq Menus
        BY <2>2
      <4>2. \A r \in t.rows : f[r] = [live |-> TRUE, parent |-> t.parent,
                                      path |-> PathUnder(PathOf(M, t.parent), r)]
        BY <3>2
      <4> HIDE DEF f
      <4>3. QED BY <2>8, <4>1, <4>2
    <3>4. q.pc = "commit" /\ q.written = f
      BY <2>2
    <3> HIDE DEF f, q
    <3>5. Climbed(Overlay(f, M))
      BY <2>2, <2>4, <3>2, <3>3, CreatedClimb
    <3>6. Sound(q, M)
      BY <2>4, <3>4, <3>5 DEF Sound
    <3>7. QED BY <2>6, <2>7, <3>1, <3>6
  <2>15. CASE WriteMove(w)
    <3> DEFINE S == {r \in t.rows : M[r].live}
               f == [r \in S |-> [M[r] EXCEPT !.parent = t.parent]]
               q == [t EXCEPT !.pc = "recompute", !.written = f]
               U == Overlay(f, M)
    <3>1. t.pc = "write" /\ t.kind = "move" /\ tx' = [tx EXCEPT ![w] = q] /\ UNCHANGED menus
      BY <2>15 DEF WriteMove
    <3>2. t.parent \in Live(M) \cup {Null} /\ t.above = PathOf(M, t.parent)
          /\ t.rows \subseteq Live(M) /\ t.rows \cap Range(t.above) = {}
      BY <2>3, <3>1 DEF Sound
    <3>3. S = t.rows
      BY <3>2 DEF Live
    <3>4. ASSUME NEW r \in Menus
          PROVE  U[r].live = M[r].live
                 /\ U[r].parent = IF r \in t.rows THEN t.parent ELSE M[r].parent
      <4>1. U[r] = IF r \in t.rows THEN [M[r] EXCEPT !.parent = t.parent] ELSE M[r]
        BY <2>2, <2>8, <3>3
      <4>2. DOMAIN M[r] = {"live", "parent", "path"}
        BY <2>1 DEF RowOK
      <4>3. QED BY <4>1, <4>2
    <3>5. q.pc = "recompute" /\ q.written = f /\ q.kind = "move"
      BY <2>2, <3>1
    <3> HIDE DEF S, f, q
    <3>6. Live(U) = Live(M) /\ \A r \in Live(M) :
                                 U[r].parent = IF r \in t.rows THEN t.parent ELSE M[r].parent
      BY <3>4 DEF Live
    <3> HIDE DEF U
    <3>7. Rooted(U)
      <4>1. t.rows \cap Range(PathOf(M, t.parent)) = {}
        BY <3>2
      <4>2. QED BY <2>4, <3>2, <3>6, <4>1, Replanted
    <3>8. Sound(q, M)
      BY <2>4, <3>5, <3>7 DEF Sound, U
    <3>9. QED BY <2>6, <3>1, <3>8
  <2>16. CASE WriteSave(w)
    <3> DEFINE f == [r \in t.rows |-> [live |-> TRUE, parent |-> t.parent,
                                       path |-> PathUnder(t.above, r)]]
               q == [t EXCEPT !.pc = "recompute", !.written = f]
               U == Overlay(f, M)
    <3>1. t.pc = "write" /\ t.kind = "save"
          /\ (Abandon(w) \/ (tx' = [tx EXCEPT ![w] = q] /\ UNCHANGED menus))
      BY <2>16 DEF WriteSave
    <3>2. t.parent \in Live(M) \cup {Null} /\ t.above = PathOf(M, t.parent)
          /\ t.rows \subseteq Live(M) /\ t.rows \cap Range(t.above) = {}
          /\ \E r \in Menus : t.rows = {r} /\ t.old = M[r].path
      BY <2>3, <3>1 DEF Sound
    <3>3. PICK r \in Menus : t.rows = {r} /\ t.old = M[r].path
      BY <3>2
    <3>4. ASSUME NEW y \in Menus
          PROVE  /\ U[y].live = M[y].live
                 /\ U[y].parent = IF y = r THEN t.parent ELSE M[y].parent
                 /\ U[y].path = IF y = r THEN PathUnder(PathOf(M, t.parent), r) ELSE M[y].path
      <4> DEFINE new == [live |-> TRUE, parent |-> t.parent, path |-> PathUnder(t.above, r)]
      <4>1. DOMAIN f = {r} /\ f[r] = new
        BY <3>3
      <4>2. M[r].live = TRUE
        BY <2>1, <3>2, <3>3 DEF Live, RowOK
      <4>3. new.live = TRUE /\ new.parent = t.parent
            /\ new.path = PathUnder(PathOf(M, t.parent), r)
        BY <3>2
      <4> HIDE DEF f, new
      <4>4. U[y] = IF y = r THEN new ELSE M[y]
        BY <2>8, <4>1
      <4>5. QED BY <4>2, <4>3, <4>4
    <3>5. q.pc = "recompute" /\ q.written = f /\ q.kind = "save" /\ q.old = M[r].path
      BY <2>2, <3>1, <3>3
    <3> HIDE DEF f, q
    <3>6. Live(U) = Live(M)
      BY <3>4 DEF Live
    <3>7. \A y \in Live(M) :
            /\ U[y].parent = IF y = r THEN t.parent ELSE M[y].parent
            /\ U[y].path = IF y = r THEN PathUnder(PathOf(M, t.parent), r) ELSE M[y].path
      BY <3>4 DEF Live
    <3> HIDE DEF U
    <3>8. r \in Live(M) /\ r \notin Range(PathOf(M, t.parent))
      BY <3>2, <3>3
    <3>9. /\ Rooted(U)
          /\ \A y \in Live(U) : IsPrefix(M[r].path, U[y].path) \/ WalkTo(U, U[y].path, y)
      BY <2>4, <3>2, <3>6, <3>7, <3>8, SavedElsewhere
    <3>10. Sound(q, M)
      BY <2>4, <3>5, <3>9 DEF Sound, U
    <3>11. QED BY <2>6, <2>7, <3>1, <3>10
  <2>17. CASE WriteDelete(w)
    <3> DEFINE S == t.rows \cap Live(M)
               f == [r \in S |-> NoMenu]
               q == [t EXCEPT !.pc = "commit", !.written = f]
    <3>1. CASE /\ ~ \E x \in Live(M) : M[x].parent \in S
               /\ tx' = [tx EXCEPT ![w] = q] /\ UNCHANGED menus
      <4>1. \A r \in Menus : Overlay(f, M)[r] = IF r \in S THEN NoMenu ELSE M[r]
        BY <2>2, <2>8
      <4>2. q.pc = "commit" /\ q.written = f
        BY <2>2
      <4> HIDE DEF S, f, q
      <4>3. Climbed(Overlay(f, M))
        BY <2>4, <3>1, <4>1, DeletedClimb
      <4>4. Sound(q, M)
        BY <2>4, <4>2, <4>3 DEF Sound
      <4>5. QED BY <2>6, <3>1, <4>4
    <3>2. QED BY <2>7, <2>17, <3>1 DEF WriteDelete
  <2>18. CASE RecomputeRead(w)
    <3> DEFINE S == {r \in Live(V) : t.kind = "save" => IsPrefix(t.old, V[r].path)}
               f == Recomputed(V, S)
               q == [t EXCEPT !.pc = "store", !.paths = f]
    <3>1. t.pc = "recompute" /\ (Abandon(w) \/ (tx' = [tx EXCEPT ![w] = q] /\ UNCHANGED menus))
      BY <2>18 DEF RecomputeRead
    <3>2. /\ Rooted(V)
          /\ \A x \in Live(V) : \/ t.kind = "save" => IsPrefix(t.old, V[x].path)
                                \/ WalkTo(V, V[x].path, x)
      BY <2>3, <3>1 DEF Sound
    <3>3. DOMAIN f = {r \in S : \E u : WalkTo(V, u, r)} /\ \A r \in DOMAIN f : WalkTo(V, f[r], r)
      BY RecomputedExact, Zenon
    <3>4. \A r \in Live(V) : \E u : WalkTo(V, u, r)
      BY <3>2, RootedMeans
    <3>5. q.pc = "store" /\ q.paths = f /\ q.written = t.written
      BY <2>2
    <3>6. S \subseteq Live(V) /\ \A x \in Live(V) : x \in S \/ WalkTo(V, V[x].path, x)
      BY <3>2
    <3> HIDE DEF f, q, S
    <3>7. DOMAIN f \subseteq Live(V)
          /\ \A x \in Live(V) : WalkTo(V, IF x \in DOMAIN f THEN f[x] ELSE V[x].path, x)
      BY <3>3, <3>4, <3>6
    <3>8. Sound(q, M)
      <4>1. Overlay(q.written, M) = V
        BY <2>3, <3>5
      <4> HIDE DEF V
      <4>2. QED BY <2>4, <3>5, <3>7, <4>1 DEF Sound
    <3>9. QED BY <2>6, <2>7, <3>1, <3>8
  <2>19. CASE RecomputeStore(w)
    <3> DEFINE D == {r \in DOMAIN t.paths : V[r].live}
               g == [r \in D |-> [V[r] EXCEPT !.path = t.paths[r]]]
               f == Overlay(g, t.written)
               q == [t EXCEPT !.pc = "commit", !.written = f]
               U == Overlay(f, M)
    <3>1. t.pc = "store" /\ tx' = [tx EXCEPT ![w] = q] /\ UNCHANGED menus
      BY <2>19 DEF RecomputeStore
    <3>2. /\ DOMAIN t.paths \subseteq Live(V)
          /\ \A x \in Live(V) :
               WalkTo(V, IF x \in DOMAIN t.paths THEN t.paths[x] ELSE V[x].path, x)
      BY <2>3, <3>1 DEF Sound
    <3>3. D = DOMAIN t.paths /\ D \subseteq Menus
      BY <3>2 DEF Live
    <3>4. \A r \in Menus : RowOK(r, V[r])
      <4>1. \A r \in DOMAIN t.written : RowOK(r, t.written[r])
        BY <2>1 DEF TxOK
      <4>2. QED BY <2>1, <2>2, <2>3, <4>1, OverlayOK
    <3>5. ASSUME NEW y \in Menus
          PROVE  /\ U[y].live = V[y].live /\ U[y].parent = V[y].parent
                 /\ U[y].path = IF y \in DOMAIN t.paths THEN t.paths[y] ELSE V[y].path
      <4>1. U[y] = IF y \in D THEN g[y] ELSE V[y]
        <5>1. DOMAIN g = D
          OBVIOUS
        <5> HIDE DEF g, D
        <5>2. QED BY <2>1, <2>2, <2>3, <3>3, <5>1, OverlayTwice
      <4>2. DOMAIN V[y] = {"live", "parent", "path"}
        BY <3>4 DEF RowOK
      <4>3. QED BY <3>3, <4>1, <4>2
    <3>6. q.pc = "commit" /\ q.written = f
      BY <2>2
    <3> HIDE DEF D, g, f, q
    <3>7. /\ Live(U) = Live(V)
          /\ \A y \in Live(V) :
               /\ U[y].parent = V[y].parent
               /\ U[y].path = IF y \in DOMAIN t.paths THEN t.paths[y] ELSE V[y].path
      BY <3>5 DEF Live
    <3> HIDE DEF U, V
    <3>8. Climbed(U)
      BY <3>2, <3>7, StoredClimb
    <3>9. Sound(q, M)
      BY <2>4, <3>6, <3>8 DEF Sound, U
    <3>10. QED BY <2>6, <3>1, <3>9
  <2>20. CASE Commit(w)
    <3>1. t.pc = "commit" /\ menus' = V /\ tx' = [tx EXCEPT ![w] = Idle]
      BY <2>20 DEF Commit
    <3>2. Climbed(V)
      BY <2>3, <3>1 DEF Sound
    <3>3. tx'[w] = Idle /\ Climbed(menus')
      BY <2>1, <3>1, <3>2
    <3>4. QED BY <2>5, <3>3 DEF AloneInv
  <2>21. CASE Rollback(w)
    BY <2>7, <2>21 DEF Rollback
  <2>22. QED
    BY <1>2, <2>9, <2>10, <2>11, <2>12, <2>13, <2>14, <2>15, <2>16, <2>17, <2>18, <2>19,
       <2>20, <2>21 DEF Request, Step
<1>3. QED BY <1>1, <1>2 DEF Next

LEMMA AloneStart == Init => AloneInv
BY DEF Init, AloneInv, Sound, Climbed, Live, NoMenu, Idle

LEMMA AloneHolds ==
    ASSUME NEW w, Procs = {w}, AdminCares
    PROVE  Spec => []AloneInv
<1>1. TypeInv /\ AloneInv /\ [Next]_vars => AloneInv'
  BY SoundAlone
<1>2. QED BY <1>1, AloneStart, TypesHold, PTL DEF Spec

LEMMA AloneClimbs ==
    ASSUME NEW w, Procs = {w}, AloneInv
    PROVE  Climbed(menus)
BY DEF AloneInv, Sound

(* Served one at a time, requests of every kind leave every path spelling the *)
(* ancestors of its row, when administrators pick no parent below the menu.   *)
THEOREM PathsSpellAncestors ==
    ASSUME NEW w, Procs = {w}, AdminCares
    PROVE  Spec => []PathsFollowParents
<1>1. ASSUME AloneInv PROVE PathsFollowParents
  <2>1. Climbed(menus)
    BY <1>1, AloneClimbs
  <2>2. Null \notin Live(menus)
    BY MenuAssumption DEF Live
  <2>3. ASSUME NEW r \in Live(menus)
        PROVE  menus[r].path = Append(PathOf(menus, menus[r].parent), r)
    <3> DEFINE q == menus[r].path
               u == SubSeq(q, 1, Len(q) - 1)
    <3>1. WalkTo(menus, q, r)
      BY <2>1 DEF Climbed
    <3>2. q = Append(u, r)
      BY <3>1, WalkStep
    <3>3. CASE Len(q) = 1
      <4>1. menus[r].parent = Null
        BY <3>1, <3>3, WalkStep
      <4>2. q \in Seq(Menus)
        BY <3>1 DEF WalkTo, Walk
      <4>3. u = <<>>
        BY <3>3, <4>2
      <4>4. QED BY <3>2, <4>1, <4>3 DEF PathOf
    <3>4. CASE Len(q) # 1
      <4>1. menus[r].parent \in Live(menus) /\ WalkTo(menus, u, menus[r].parent)
        BY <3>1, <3>4, WalkStep
      <4>2. WalkTo(menus, menus[menus[r].parent].path, menus[r].parent)
        BY <2>1, <4>1 DEF Climbed
      <4>3. u = menus[menus[r].parent].path
        BY <4>1, <4>2, WalksAreUnique
      <4>4. QED BY <2>2, <3>2, <4>1, <4>3 DEF PathOf
    <3>5. QED BY <3>3, <3>4
  <2>4. QED BY <2>3 DEF PathsFollowParents
<1>2. QED BY <1>1, AloneHolds, PTL

(* One at a time, no menu is lost. *)
THEOREM NoneIsLostAlone ==
    ASSUME NEW w, Procs = {w}, AdminCares
    PROVE  Spec => []NoMenuIsLost
<1>1. ASSUME AloneInv PROVE NoMenuIsLost
  <2>1. Rooted(menus)
    BY <1>1, AloneClimbs, ClimbedIsRooted
  <2>2. ASSUME NEW q \in WalkDown(menus) PROVE Last(q) \in Live(menus)
    <3>1. Walk(menus, q)
      BY WalkDownWalks
    <3>2. Len(q) \in 1..Len(q)
      BY <3>1 DEF Walk
    <3>3. QED BY <3>1, <3>2 DEF Walk, Last
  <2>3. QED BY <2>1, <2>2 DEF NoMenuIsLost, Rooted
<1>2. QED BY <1>1, AloneHolds, PTL

(***************************************************************************)
(* read_tree: what the insertions build, one row after the other.          *)
(***************************************************************************)
ParentIn(root, r) == IF r = root THEN Null ELSE menus[r].parent

IsTree(root, order, m, f) ==
    f = [n \in 0..m |-> IF n = 0 THEN EmptyTree
                        ELSE Insert(f[n - 1], order[n], ParentIn(root, order[n]))]

LEMMA TreeExists ==
    ASSUME NEW root, NEW order, NEW m \in Nat
    PROVE  \E f : IsTree(root, order, m, f)
<1> DEFINE G(t, n) == Insert(t, order[n], ParentIn(root, order[n]))
           T == {n \in Nat : ~ \E f : IsTree(root, order, n, f)}
<1> SUFFICES ASSUME m \in T PROVE FALSE
  OBVIOUS
<1>1. PICK k \in T : \A n \in T : k <= n
  <2>1. T \subseteq Nat /\ T # {}
    OBVIOUS
  <2> HIDE DEF T
  <2>2. QED BY <2>1, Least
<1>2. CASE k = 0
  <2> DEFINE f == [n \in 0..0 |-> EmptyTree]
  <2>1. IsTree(root, order, 0, f)
    BY DEF IsTree
  <2>2. QED BY <1>2, <2>1
<1>3. CASE k # 0
  <2>1. k - 1 \in Nat /\ ~(k <= k - 1)
    BY <1>3
  <2>2. PICK f : IsTree(root, order, k - 1, f)
    BY <1>1, <2>1
  <2>3. DOMAIN f = 0..(k - 1) /\ f[0] = EmptyTree
        /\ \A n \in 1..(k - 1) : f[n] = G(f[n - 1], n)
    <3>1. f = [n \in 0..(k - 1) |-> IF n = 0 THEN EmptyTree ELSE G(f[n - 1], n)]
      BY <2>2 DEF IsTree
    <3> HIDE DEF G
    <3>2. ASSUME NEW n \in 0..(k - 1)
          PROVE  f[n] = IF n = 0 THEN EmptyTree ELSE G(f[n - 1], n)
      BY <3>1
    <3>3. 0 \in 0..(k - 1) /\ \A n \in 1..(k - 1) : n \in 0..(k - 1) /\ n # 0
      BY <2>1
    <3>4. QED BY <3>1, <3>2, <3>3
  <2> DEFINE g == [n \in 0..k |-> IF n = k THEN G(f[k - 1], k) ELSE f[n]]
  <2> HIDE DEF G
  <2>4. ASSUME NEW n \in 0..k
        PROVE  g[n] = IF n = 0 THEN EmptyTree ELSE G(g[n - 1], n)
    <3>1. CASE n = 0
      BY <1>3, <2>3, <3>1
    <3>2. CASE n = k
      <4>1. k - 1 \in 0..k /\ k - 1 # k
        BY <2>1
      <4>2. g[k - 1] = f[k - 1]
        BY <4>1
      <4>3. QED BY <1>3, <3>2, <4>2
    <3>3. CASE n # 0 /\ n # k
      <4>1. n \in 1..(k - 1) /\ n - 1 \in 0..k /\ n - 1 # k
        BY <2>1, <3>3
      <4>2. g[n] = f[n] /\ g[n - 1] = f[n - 1]
        BY <3>3, <4>1
      <4>3. QED BY <2>3, <3>3, <4>1, <4>2
    <3>4. QED BY <3>1, <3>2, <3>3
  <2>5. g = [n \in 0..k |-> IF n = 0 THEN EmptyTree ELSE G(g[n - 1], n)]
    <3> HIDE DEF g
    <3>1. g = [n \in 0..k |-> g[n]]
      BY DEF g
    <3>2. QED BY <2>4, <3>1
  <2>6. IsTree(root, order, k, g)
    <3> HIDE DEF g
    <3>1. QED BY <2>5 DEF IsTree, G
  <2>7. QED BY <1>1, <2>6
<1>4. QED BY <1>2, <1>3

GrowsTo(root, order, f, tree) ==
    /\ tree = f[Len(order)] /\ f[0] = EmptyTree
    /\ \A n \in 1..Len(order) : f[n] = Insert(f[n - 1], order[n], ParentIn(root, order[n]))

LEMMA ReadTreeUnfolds ==
    ASSUME NEW root, NEW order, Len(order) \in Nat
    PROVE  \E f : GrowsTo(root, order, f, ReadTree(root, order))
<1> DEFINE C == Len(order)
           P(f) == f = [n \in 0..C |-> IF n = 0 THEN EmptyTree
                          ELSE Insert(f[n - 1], order[n],
                                      IF order[n] = root THEN Null ELSE menus[order[n]].parent)]
           g == CHOOSE f : P(f)
<1>1. ReadTree(root, order) = g[C]
  BY DEF ReadTree
<1>2. PICK h : IsTree(root, order, C, h)
  BY TreeExists
<1>3. P(h)
  BY <1>2 DEF IsTree, ParentIn
<1>4. P(g)
  <2> HIDE DEF P
  <2>1. QED BY <1>3
<1> HIDE DEF g
<1>5. ASSUME NEW n \in 0..C
      PROVE  g[n] = IF n = 0 THEN EmptyTree
                    ELSE Insert(g[n - 1], order[n], ParentIn(root, order[n]))
  BY <1>4 DEF ParentIn
<1>6. 0 \in 0..C /\ \A n \in 1..C : n \in 0..C /\ n # 0
  OBVIOUS
<1>7. GrowsTo(root, order, g, ReadTree(root, order))
  BY <1>1, <1>5, <1>6 DEF GrowsTo
<1>8. QED BY <1>7

LEMMA InsertEffect ==
    ASSUME NEW tree, NEW key, NEW parent
    PROVE  LET u == Insert(tree, key, parent)
               old(r) == IF r \in DOMAIN tree.nodes THEN tree.nodes[r] ELSE <<>>
           IN  /\ u.filled = tree.filled \cup {key}
               /\ DOMAIN u.nodes = DOMAIN tree.nodes \cup ({key, parent} \ {Null})
               /\ \A r \in DOMAIN u.nodes :
                    u.nodes[r] = IF parent # Null /\ r = parent THEN Append(old(r), key)
                                                                ELSE old(r)
<1> DEFINE new == [k \in {key, parent} \ {Null} |-> <<>>]
           nodes == Overlay(tree.nodes, new)
           old(r) == IF r \in DOMAIN tree.nodes THEN tree.nodes[r] ELSE <<>>
           filled == tree.filled \cup {key}
           grown == IF parent = Null THEN nodes
                    ELSE [nodes EXCEPT ![parent] = Append(@, key)]
<1>1. DOMAIN nodes = DOMAIN tree.nodes \cup ({key, parent} \ {Null})
  BY OverlayDomain
<1>2. ASSUME NEW r \in DOMAIN nodes PROVE nodes[r] = old(r)
  <2>1. DOMAIN new = {key, parent} \ {Null} /\ \A k \in DOMAIN new : new[k] = <<>>
    OBVIOUS
  <2> HIDE DEF new
  <2>2. nodes[r] = IF r \in DOMAIN tree.nodes THEN tree.nodes[r] ELSE new[r]
    BY <1>1, <2>1, OverlaySeen
  <2>3. QED BY <1>1, <2>1, <2>2
<1>3. Insert(tree, key, parent) = [filled |-> filled, nodes |-> grown]
  BY DEF Insert
<1> HIDE DEF nodes, old
<1>4. DOMAIN grown = DOMAIN nodes
      /\ \A r \in DOMAIN nodes :
           grown[r] = IF parent # Null /\ r = parent THEN Append(old(r), key) ELSE old(r)
  BY <1>2
<1> HIDE DEF grown, filled
<1>5. Insert(tree, key, parent).filled = filled /\ Insert(tree, key, parent).nodes = grown
  BY <1>3
<1>6. QED BY <1>1, <1>4, <1>5 DEF old, filled

\* The children gathered from the first n rows.
Kids(seq, S, order, n) ==
    /\ seq \in Seq(Menus) /\ Range(seq) = S
    /\ \A i, j \in DOMAIN seq : i < j =>
         \E k, l \in 1..n : k < l /\ order[k] = seq[i] /\ order[l] = seq[j]

LEMMA KidsNone == ASSUME NEW order, NEW n PROVE Kids(<<>>, {}, order, n)
BY DEF Kids, Range

LEMMA KidsKept ==
    ASSUME NEW seq, NEW S, NEW order, NEW n \in Nat, Kids(seq, S, order, n)
    PROVE  Kids(seq, S, order, n + 1)
<1>1. \A k \in 1..n : k \in 1..(n + 1)
  OBVIOUS
<1>2. QED BY <1>1 DEF Kids

LEMMA KidsGrow ==
    ASSUME NEW seq, NEW S, NEW order, NEW n \in Nat, Kids(seq, S, order, n),
           NEW key \in Menus, order[n + 1] = key, \A x \in S : \E k \in 1..n : order[k] = x
    PROVE  Kids(Append(seq, key), S \cup {key}, order, n + 1)
<1> DEFINE s == Append(seq, key)
           L == Len(seq)
<1>1. seq \in Seq(Menus) /\ L \in Nat /\ DOMAIN seq = 1..L /\ Range(seq) = S
  BY DEF Kids
<1>2. /\ s \in Seq(Menus) /\ DOMAIN s = 1..(L + 1) /\ s[L + 1] = key
      /\ \A i \in 1..L : s[i] = seq[i]
  BY <1>1
<1> HIDE DEF s, L
<1>3. \A i \in 1..(L + 1) : i \in 1..L \/ i = L + 1
  BY <1>1
<1>4. \A i \in 1..L : i \in 1..(L + 1)
  BY <1>1
<1>5. L + 1 \in 1..(L + 1)
  BY <1>1
<1>6. Range(s) = S \cup {key}
  <2>1. ASSUME NEW i \in DOMAIN s PROVE s[i] \in S \cup {key}
    <3>1. CASE i \in 1..L
      BY <1>1, <1>2, <3>1 DEF Range
    <3>2. CASE i = L + 1
      BY <1>2, <3>2
    <3>3. QED BY <1>2, <1>3, <3>1, <3>2
  <2>2. ASSUME NEW x \in S PROVE \E i \in DOMAIN s : s[i] = x
    <3>1. PICK i \in 1..L : seq[i] = x
      BY <1>1 DEF Range
    <3>2. QED BY <1>2, <1>4, <3>1
  <2>3. \E i \in DOMAIN s : s[i] = key
    BY <1>2, <1>5
  <2>4. QED BY <2>1, <2>2, <2>3 DEF Range
<1>7. ASSUME NEW i \in DOMAIN s, NEW j \in DOMAIN s, i < j
      PROVE  \E k, l \in 1..(n + 1) : k < l /\ order[k] = s[i] /\ order[l] = s[j]
  <2>1. i \in 1..L
    BY <1>1, <1>2, <1>7
  <2>2. CASE j \in 1..L
    <3>1. PICK k \in 1..n, l \in 1..n : k < l /\ order[k] = seq[i] /\ order[l] = seq[j]
      BY <1>1, <1>7, <2>1, <2>2 DEF Kids
    <3>2. k \in 1..(n + 1) /\ l \in 1..(n + 1)
      OBVIOUS
    <3>3. QED BY <1>2, <2>1, <2>2, <3>1, <3>2
  <2>3. CASE j = L + 1
    <3>1. s[i] \in S
      BY <1>1, <1>2, <2>1 DEF Range
    <3>2. PICK k \in 1..n : order[k] = s[i]
      BY <3>1
    <3>3. k \in 1..(n + 1) /\ n + 1 \in 1..(n + 1) /\ k < n + 1
      OBVIOUS
    <3>4. QED BY <1>2, <2>3, <3>2, <3>3
  <2>4. QED BY <1>2, <1>3, <2>2, <2>3
<1>8. QED BY <1>2, <1>6, <1>7 DEF Kids, s

\* The tree after the first n rows of `order`.
Built(root, order, n, tree) ==
    /\ tree.filled = {order[i] : i \in 1..n}
    /\ DOMAIN tree.nodes = ({order[i] : i \in 1..n}
                              \cup {ParentIn(root, order[i]) : i \in 1..n}) \ {Null}
    /\ \A r \in DOMAIN tree.nodes :
         Kids(tree.nodes[r], {x \in tree.filled : ParentIn(root, x) = r}, order, n)

LEMMA BuiltStep ==
    ASSUME NEW root, NEW order, NEW n \in Nat, NEW tree, Built(root, order, n, tree),
           order[n + 1] \in Menus, ParentIn(root, order[n + 1]) \in Menus \cup {Null},
           \A i \in 1..n : order[n + 1] # order[i]
    PROVE  Built(root, order, n + 1,
                 Insert(tree, order[n + 1], ParentIn(root, order[n + 1])))
<1> DEFINE key == order[n + 1]
           par == ParentIn(root, key)
           u == Insert(tree, key, par)
           old(r) == IF r \in DOMAIN tree.nodes THEN tree.nodes[r] ELSE <<>>
           kids(r) == {x \in tree.filled : ParentIn(root, x) = r}
<1>1. Null \notin Menus /\ key \in Menus /\ par \in Menus \cup {Null}
  BY MenuAssumption
<1>2. \A i \in 1..(n + 1) : i \in 1..n \/ i = n + 1
  OBVIOUS
<1>3. (\A i \in 1..n : i \in 1..(n + 1)) /\ n + 1 \in 1..(n + 1)
  OBVIOUS
<1>4. /\ u.filled = tree.filled \cup {key}
      /\ DOMAIN u.nodes = DOMAIN tree.nodes \cup ({key, par} \ {Null})
      /\ \A r \in DOMAIN u.nodes :
           u.nodes[r] = IF par # Null /\ r = par THEN Append(old(r), key) ELSE old(r)
  BY InsertEffect
<1>5. tree.filled = {order[i] : i \in 1..n} /\ key \notin tree.filled
  BY DEF Built
<1> HIDE DEF u, old
<1>6. u.filled = {order[i] : i \in 1..(n + 1)}
  BY <1>2, <1>3, <1>4, <1>5
<1>7. DOMAIN u.nodes = ({order[i] : i \in 1..(n + 1)}
                          \cup {ParentIn(root, order[i]) : i \in 1..(n + 1)}) \ {Null}
  <2>1. {ParentIn(root, order[i]) : i \in 1..(n + 1)} =
          {ParentIn(root, order[i]) : i \in 1..n} \cup {par}
    BY <1>2, <1>3
  <2>2. {order[i] : i \in 1..(n + 1)} = {order[i] : i \in 1..n} \cup {key}
    BY <1>2, <1>3
  <2>3. DOMAIN tree.nodes = ({order[i] : i \in 1..n}
                              \cup {ParentIn(root, order[i]) : i \in 1..n}) \ {Null}
    BY DEF Built
  <2> HIDE DEF key, par
  <2>4. QED BY <1>1, <1>4, <2>1, <2>2, <2>3
<1>8. ASSUME NEW r \in DOMAIN u.nodes
      PROVE  Kids(u.nodes[r], {x \in u.filled : ParentIn(root, x) = r}, order, n + 1)
  <2>1. r # Null
    BY <1>7
  <2>2. Kids(old(r), kids(r), order, n)
    <3>1. CASE r \in DOMAIN tree.nodes
      BY <3>1 DEF Built, old
    <3>2. CASE r \notin DOMAIN tree.nodes
      <4>1. kids(r) = {}
        <5>1. ASSUME NEW x \in tree.filled, ParentIn(root, x) = r PROVE FALSE
          <6>1. r \in {ParentIn(root, order[i]) : i \in 1..n}
            BY <1>5, <5>1
          <6>2. r \in DOMAIN tree.nodes
            BY <2>1, <6>1 DEF Built
          <6>3. QED BY <3>2, <6>2
        <5>2. QED BY <5>1
      <4>2. old(r) = <<>>
        BY <3>2 DEF old
      <4> HIDE DEF kids
      <4>3. QED BY <4>1, <4>2, KidsNone
    <3>3. QED BY <3>1, <3>2
  <2>3. CASE r = par
    <3>1. u.nodes[r] = Append(old(r), key)
      BY <1>4, <2>1, <2>3
    <3>2. {x \in u.filled : ParentIn(root, x) = r} = kids(r) \cup {key}
      BY <1>4, <2>3
    <3>3. \A x \in kids(r) : \E k \in 1..n : order[k] = x
      BY <1>5
    <3> HIDE DEF kids
    <3>4. Kids(Append(old(r), key), kids(r) \cup {key}, order, n + 1)
      BY <1>1, <2>2, <3>3, KidsGrow
    <3>5. QED BY <3>1, <3>2, <3>4
  <2>4. CASE r # par
    <3>1. u.nodes[r] = old(r)
      BY <1>4, <2>4
    <3>2. {x \in u.filled : ParentIn(root, x) = r} = kids(r)
      BY <1>4, <2>4
    <3> HIDE DEF kids
    <3>3. QED BY <2>2, <3>1, <3>2, KidsKept
  <2>5. QED BY <2>3, <2>4
<1>9. QED BY <1>6, <1>7, <1>8 DEF Built, u

LEMMA ReadTreeBuilds ==
    ASSUME NEW root, NEW order \in Seq(Menus),
           \A r \in Menus : ParentIn(root, r) \in Menus \cup {Null},
           \A i, j \in 1..Len(order) : i # j => order[i] # order[j]
    PROVE  Built(root, order, Len(order), ReadTree(root, order))
<1> DEFINE C == Len(order)
<1>1. C \in Nat /\ C = Len(order)
  OBVIOUS
<1> HIDE DEF C
<1>2. PICK f : GrowsTo(root, order, f, ReadTree(root, order))
  BY <1>1, ReadTreeUnfolds
<1>3. /\ ReadTree(root, order) = f[C] /\ f[0] = EmptyTree
      /\ \A n \in 1..C : f[n] = Insert(f[n - 1], order[n], ParentIn(root, order[n]))
  BY <1>1, <1>2 DEF GrowsTo
<1> DEFINE T == {n \in 0..C : ~Built(root, order, n, f[n])}
<1> SUFFICES ASSUME ~Built(root, order, C, f[C]) PROVE FALSE
  BY <1>1, <1>3
<1>4. PICK k \in T : \A n \in T : k <= n
  <2>1. C \in T /\ T \subseteq Nat
    BY <1>1
  <2> HIDE DEF T
  <2>2. QED BY <2>1, Least
<1>5. k \in 0..C /\ ~Built(root, order, k, f[k])
  OBVIOUS
<1>6. CASE k = 0
  <2>1. 1..0 = {} /\ EmptyTree.filled = {} /\ DOMAIN EmptyTree.nodes = {}
    BY DEF EmptyTree
  <2>2. Built(root, order, 0, EmptyTree)
    BY <2>1 DEF Built
  <2>3. QED BY <1>3, <1>5, <1>6, <2>2
<1>7. CASE k # 0
  <2>1. k \in 1..C /\ k - 1 \in 0..C /\ ~(k <= k - 1) /\ k - 1 \in Nat /\ (k - 1) + 1 = k
    BY <1>1, <1>5, <1>7
  <2>2. Built(root, order, k - 1, f[k - 1])
    BY <1>4, <2>1
  <2>3. order[k] \in Menus
    BY <1>1, <2>1
  <2>4. \A i \in 1..(k - 1) : order[k] # order[i]
    <3>1. \A i \in 1..(k - 1) : i \in 1..C /\ i # k
      BY <1>1, <2>1
    <3>2. QED BY <1>1, <2>1, <3>1
  <2>5. Built(root, order, k, Insert(f[k - 1], order[k], ParentIn(root, order[k])))
    BY <2>1, <2>2, <2>3, <2>4, BuiltStep
  <2>6. QED BY <1>3, <1>5, <2>1, <2>5
<1>8. QED BY <1>6, <1>7

LEMMA SetToSeqsExact ==
    ASSUME NEW S \in SUBSET Menus, NEW order \in SetToSeqs(S)
    PROVE  /\ order \in Seq(Menus) /\ DOMAIN order = 1..Len(order)
           /\ {order[i] : i \in 1..Len(order)} = S
           /\ \A i, j \in 1..Len(order) : i # j => order[i] # order[j]
<1> DEFINE C == Cardinality(S)
<1>1. IsFiniteSet(S) /\ C \in Nat
  BY FS_Subset, FS_CardinalityType, MenuAssumption
<1>2. order \in [1..C -> S] /\ \A i, j \in 1..C : i # j => order[i] # order[j]
  BY DEF SetToSeqs
<1>3. order \in Seq(Menus) /\ Len(order) = C /\ DOMAIN order = 1..C
  BY <1>1, <1>2
<1>4. IsFiniteSet(1..C) /\ Cardinality(1..C) = C
  BY <1>1, FS_Interval
<1>5. order \in Injection(1..C, S)
  BY <1>2 DEF Injection, IsInjective
<1>6. order \in Surjection(1..C, S)
  BY <1>1, <1>4, <1>5, FS_Injection
<1>7. \A x \in S : \E i \in 1..C : order[i] = x
  BY <1>6 DEF Surjection
<1> HIDE DEF C
<1>8. {order[i] : i \in 1..C} = S
  BY <1>2, <1>7
<1>9. QED BY <1>2, <1>3, <1>8

(* One at a time, read_tree shows the whole subtree below each menu and nothing *)
(* else, every row under its own parent and in the order it came.             *)
THEOREM TreesAreReadWhole ==
    ASSUME NEW w, Procs = {w}, AdminCares
    PROVE  Spec => []ReadTreeExact
<1>1. ASSUME TypeInv, AloneInv, NEW root \in Live(menus)
      PROVE  /\ ReadRows(root) = Below(root)
             /\ \A x \in Below(root) \ {root} : menus[x].parent \in Below(root)
  <2>1. Climbed(menus)
    BY <1>1, AloneClimbs
  <2>2. ASSUME NEW x \in Live(menus)
        PROVE  (\E q \in WalkDown(menus) : Last(q) = x /\ root \in Range(q))
               <=> root \in Range(menus[x].path)
    <3> DEFINE q == menus[x].path
    <3>1. WalkTo(menus, q, x)
      BY <2>1 DEF Climbed
    <3> HIDE DEF q
    <3>2. ASSUME NEW u, u \in WalkDown(menus), Last(u) = x PROVE u = q
      BY <3>1, <3>2, WalkDownWalks, WalksAreUnique DEF WalkTo
    <3>3. q \in WalkDown(menus) /\ Last(q) = x
      BY <3>1, WalksAreFound DEF WalkTo
    <3>4. (\E u \in WalkDown(menus) : Last(u) = x /\ root \in Range(u)) <=> root \in Range(q)
      BY <3>2, <3>3
    <3>5. QED BY <3>4 DEF q
  <2>3. Below(root) = {x \in Live(menus) : root \in Range(menus[x].path)}
    BY <2>2 DEF Below
  <2>4. ReadRows(root) = Below(root)
    BY <2>1, <2>3, AncestorsArePrefixes DEF ReadRows
  <2>5. ASSUME NEW x \in Below(root) \ {root} PROVE menus[x].parent \in Below(root)
    <3> DEFINE q == menus[x].path
               u == SubSeq(q, 1, Len(q) - 1)
    <3>1. x \in Live(menus) /\ root \in Range(q)
      BY <2>3
    <3>2. WalkTo(menus, q, x)
      BY <2>1, <3>1 DEF Climbed
    <3>3. q \in Seq(Menus) /\ Len(q) \in Nat /\ Len(q) >= 1 /\ q[Len(q)] = x
      BY <3>2 DEF WalkTo, Walk, Last
    <3> HIDE DEF q
    <3>4. PICK i \in 1..Len(q) : q[i] = root
      BY <3>1, <3>3 DEF Range
    <3>5. i # Len(q) /\ Len(q) # 1
      BY <3>3, <3>4
    <3>6. menus[x].parent \in Live(menus) /\ WalkTo(menus, u, menus[x].parent)
      BY <3>2, <3>5, WalkStep
    <3>7. i \in DOMAIN u /\ u[i] = root
      BY <3>3, <3>4, <3>5
    <3>8. menus[menus[x].parent].path = u
      <4>1. WalkTo(menus, menus[menus[x].parent].path, menus[x].parent)
        BY <2>1, <3>6 DEF Climbed
      <4>2. QED BY <3>6, <4>1, WalksAreUnique
    <3>9. root \in Range(u)
      BY <3>7 DEF Range
    <3>10. QED BY <2>3, <3>6, <3>8, <3>9
  <2>6. QED BY <2>4, <2>5
<1>2. ASSUME TypeInv, AloneInv, NEW root \in Live(menus), NEW order \in SetToSeqs(ReadRows(root))
      PROVE  LET tree == ReadTree(root, order) IN
             /\ DOMAIN tree.nodes = tree.filled /\ tree.filled = Below(root)
             /\ \A r \in Below(root) :
                  LET children == {x \in Below(root) \ {root} : menus[x].parent = r}
                  IN InOrder(tree.nodes[r], children, order)
  <2> DEFINE tree == ReadTree(root, order)
             B == Below(root)
  <2>1. /\ ReadRows(root) = B /\ B \subseteq Menus /\ Null \notin B
        /\ \A x \in B \ {root} : menus[x].parent \in B
    BY <1>1, <1>2, MenuAssumption DEF Below, Live
  <2>2. /\ order \in Seq(Menus) /\ DOMAIN order = 1..Len(order)
        /\ {order[i] : i \in 1..Len(order)} = B
        /\ \A i, j \in 1..Len(order) : i # j => order[i] # order[j]
    BY <1>2, <2>1, SetToSeqsExact
  <2>3. \A r \in Menus : ParentIn(root, r) \in Menus \cup {Null}
    BY <1>2 DEF TypeInv, RowOK, ParentIn
  <2>4. Built(root, order, Len(order), tree)
    BY <2>2, <2>3, ReadTreeBuilds
  <2> HIDE DEF tree, B
  <2>5. tree.filled = B
    BY <2>2, <2>4 DEF Built
  <2>6. DOMAIN tree.nodes = B
    <3>1. \A i \in 1..Len(order) : ParentIn(root, order[i]) \in B \cup {Null}
      BY <2>1, <2>2 DEF ParentIn
    <3>2. DOMAIN tree.nodes = (B \cup {ParentIn(root, order[i]) : i \in 1..Len(order)}) \ {Null}
      BY <2>2, <2>4 DEF Built
    <3>3. QED BY <2>1, <3>1, <3>2
  <2>7. ASSUME NEW r \in B
        PROVE  InOrder(tree.nodes[r], {x \in B \ {root} : menus[x].parent = r}, order)
    <3>1. {x \in B : ParentIn(root, x) = r} = {x \in B \ {root} : menus[x].parent = r}
      BY <2>1 DEF ParentIn
    <3>2. Kids(tree.nodes[r], {x \in B : ParentIn(root, x) = r}, order, Len(order))
      BY <2>4, <2>5, <2>6 DEF Built
    <3> DEFINE kids == {x \in B : ParentIn(root, x) = r}
               seq == tree.nodes[r]
    <3> HIDE DEF kids, seq
    <3>3. Kids(seq, kids, order, Len(order))
      BY <3>2 DEF kids, seq
    <3>4. InOrder(seq, kids, order)
      BY <2>2, <3>3 DEF Kids, InOrder
    <3>5. QED BY <3>1, <3>4 DEF kids, seq
  <2>8. QED BY <2>5, <2>6, <2>7 DEF tree, B
<1>3. TypeInv /\ AloneInv => ReadTreeExact
  BY <1>1, <1>2 DEF ReadTreeExact
<1>4. QED BY <1>3, TypesHold, AloneHolds, PTL

================================================================================
