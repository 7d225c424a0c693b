----------------------- MODULE TenantConnectionsProofs -----------------------
(***************************************************************************)
(* Statements run on the database selected for them, and inside the        *)
(* transaction that should cover them; connections go back to their pools; *)
(* and idle pools are closed: for any number of threads, databases and     *)
(* nested blocks, while pools are evicted and databases are forgotten at   *)
(* any time.                                                               *)
(***************************************************************************)
EXTENDS TenantConnections, TLAPS

\* current_database() where the context variable holds x.
Cur(x) == IF x = None THEN DefaultDb ELSE x

\* i is the last block of kind k among the first j.
LastOf(fr, k, i, j) == fr[i].k = k /\ \A n \in (i + 1)..j : fr[n].k # k
NoneOf(fr, k, j) == \A n \in 1..j : fr[n].k # k

\* c[j] is what the context variable held inside the first j blocks: the
\* database of the innermost use_database() among them.  Every token restores
\* it, and no switch happened inside an atomic().
History(fr, c) ==
    /\ c \in [0..Len(fr) -> Dbs \cup {None}]
    /\ \A j \in 0..Len(fr) :
         \/ NoneOf(fr, "use", j) /\ c[j] = None
         \/ \E i \in 1..j : LastOf(fr, "use", i, j) /\ c[j] = fr[i].db
    /\ \A j \in 0..Len(fr) : NoneOf(fr, "tx", j) \/ \E i \in 1..j : LastOf(fr, "tx", i, j)
    /\ \A i \in 1..Len(fr) : fr[i].k = "use" => fr[i].token = c[i - 1]
    /\ \A i \in 1..Len(fr) : fr[i].k = "tx" =>
         /\ c[i - 1] = c[i]
         /\ \A j \in i..Len(fr) : Cur(c[j]) = fr[i].db

StackOK(fr, cx) ==
    /\ fr \in Seq(Frame)
    /\ \E c : History(fr, c) /\ c[Len(fr)] = cx

\* The blocks of a prefix are those of the whole.
LEMMA SamePrefix ==
    ASSUME NEW fr, NEW s, NEW n \in Nat, \A i \in 1..n : s[i] = fr[i],
           NEW k, NEW j \in 0..n
    PROVE  /\ NoneOf(s, k, j) <=> NoneOf(fr, k, j)
           /\ \A i \in 1..j : LastOf(s, k, i, j) <=> LastOf(fr, k, i, j)
<1>1. \A m \in 1..j : s[m] = fr[m]
  OBVIOUS
<1>2. NoneOf(s, k, j) <=> NoneOf(fr, k, j)
  BY <1>1 DEF NoneOf
<1>3. ASSUME NEW i \in 1..j
      PROVE  LastOf(s, k, i, j) <=> LastOf(fr, k, i, j)
  <2>1. \A m \in (i + 1)..j : m \in 1..j
    OBVIOUS
  <2>2. QED BY <1>1, <2>1 DEF LastOf
<1>4. QED BY <1>2, <1>3

\* A block of another kind changes nothing for kind k.
LEMMA OneMore ==
    ASSUME NEW s, NEW n \in Nat, NEW k, s[n + 1].k # k
    PROVE  /\ NoneOf(s, k, n) => NoneOf(s, k, n + 1)
           /\ \A i \in 1..n : LastOf(s, k, i, n) => LastOf(s, k, i, n + 1)
<1>1. NoneOf(s, k, n) => NoneOf(s, k, n + 1)
  <2>1. \A m \in 1..(n + 1) : m \in 1..n \/ m = n + 1
    OBVIOUS
  <2>2. QED BY <2>1 DEF NoneOf
<1>2. ASSUME NEW i \in 1..n
      PROVE  LastOf(s, k, i, n) => LastOf(s, k, i, n + 1)
  <2>1. \A m \in (i + 1)..(n + 1) : m \in (i + 1)..n \/ m = n + 1
    OBVIOUS
  <2>2. QED BY <2>1 DEF LastOf
<1>3. QED BY <1>1, <1>2

LEMMA EmptyStack == StackOK(<<>>, None)
<1> DEFINE c == [j \in 0..0 |-> None]
<1>1. History(<<>>, c)
  BY DEF History, NoneOf
<1>2. QED BY <1>1 DEF StackOK

\* Entering use_database(): the same database, or no atomic() around it.
LEMMA PushUse ==
    ASSUME NEW fr, NEW cx, StackOK(fr, cx), NEW d \in Dbs,
           d = Cur(cx) \/ NoneOf(fr, "tx", Len(fr))
    PROVE  StackOK(Append(fr, [k |-> "use", db |-> d, token |-> cx]), d)
<1> DEFINE x == [k |-> "use", db |-> d, token |-> cx]
<1> DEFINE s == Append(fr, x)
<1> DEFINE n == Len(fr)
<1>1. PICK c : History(fr, c) /\ c[n] = cx
  BY DEF StackOK
<1> DEFINE e == [j \in 0..(n + 1) |-> IF j = n + 1 THEN d ELSE c[j]]
<1>2. n \in Nat /\ fr \in Seq(Frame) /\ cx \in Dbs \cup {None}
  BY <1>1 DEF StackOK, History
<1>3. s \in Seq(Frame) /\ Len(s) = n + 1 /\ s[n + 1] = x /\ \A i \in 1..n : s[i] = fr[i]
  BY <1>2 DEF Frame
<1>4. e \in [0..Len(s) -> Dbs \cup {None}] /\ e[n + 1] = d /\ \A j \in 0..n : e[j] = c[j]
  BY <1>1, <1>2, <1>3 DEF History
<1> HIDE DEF s, e, n
<1>5. \A j \in 0..Len(s) :
         \/ NoneOf(s, "use", j) /\ e[j] = None
         \/ \E i \in 1..j : LastOf(s, "use", i, j) /\ e[j] = s[i].db
  <2>1. ASSUME NEW j \in 0..n
        PROVE  \/ NoneOf(s, "use", j) /\ e[j] = None
               \/ \E i \in 1..j : LastOf(s, "use", i, j) /\ e[j] = s[i].db
    <3>1. \/ NoneOf(fr, "use", j) /\ c[j] = None
          \/ \E i \in 1..j : LastOf(fr, "use", i, j) /\ c[j] = fr[i].db
      BY <1>1, <2>1 DEF History, n
    <3>2. /\ NoneOf(s, "use", j) <=> NoneOf(fr, "use", j)
          /\ \A i \in 1..j : LastOf(s, "use", i, j) <=> LastOf(fr, "use", i, j)
      BY <1>2, <1>3, SamePrefix
    <3>3. \A i \in 1..j : s[i] = fr[i]
      BY <1>2, <1>3
    <3>4. QED BY <1>4, <3>1, <3>2, <3>3
  <2>2. LastOf(s, "use", n + 1, n + 1) /\ e[n + 1] = s[n + 1].db
    BY <1>2, <1>3, <1>4 DEF LastOf
  <2>3. n + 1 \in 1..(n + 1) /\ \A j \in 0..Len(s) : j \in 0..n \/ j = n + 1
    BY <1>2, <1>3
  <2>4. QED BY <1>3, <2>1, <2>2, <2>3
<1>6. \A j \in 0..Len(s) : NoneOf(s, "tx", j) \/ \E i \in 1..j : LastOf(s, "tx", i, j)
  <2>1. ASSUME NEW j \in 0..n
        PROVE  NoneOf(s, "tx", j) \/ \E i \in 1..j : LastOf(s, "tx", i, j)
    <3>1. NoneOf(fr, "tx", j) \/ \E i \in 1..j : LastOf(fr, "tx", i, j)
      BY <1>1, <2>1 DEF History, n
    <3>2. QED BY <1>2, <1>3, <3>1, SamePrefix
  <2>2. NoneOf(s, "tx", n + 1) \/ \E i \in 1..(n + 1) : LastOf(s, "tx", i, n + 1)
    <3>1. NoneOf(s, "tx", n) \/ \E i \in 1..n : LastOf(s, "tx", i, n)
      BY <1>2, <2>1
    <3>2. s[n + 1].k # "tx" /\ \A i \in 1..n : i \in 1..(n + 1)
      BY <1>2, <1>3
    <3>3. QED BY <1>2, <3>1, <3>2, OneMore
  <2>3. n + 1 \in 1..(n + 1) /\ \A j \in 0..Len(s) : j \in 0..n \/ j = n + 1
    BY <1>2, <1>3
  <2>4. QED BY <1>3, <2>1, <2>2, <2>3
<1>7. \A i \in 1..Len(s) : s[i].k = "use" => s[i].token = e[i - 1]
  <2>1. ASSUME NEW i \in 1..n, s[i].k = "use"
        PROVE  s[i].token = e[i - 1]
    <3>1. fr[i].k = "use" => fr[i].token = c[i - 1]
      BY <1>1, <2>1 DEF History, n
    <3>2. i - 1 \in 0..n
      BY <1>2, <2>1
    <3>3. QED BY <1>3, <1>4, <2>1, <3>1, <3>2
  <2>2. s[n + 1].k = "use" => s[n + 1].token = e[n]
    BY <1>1, <1>2, <1>3, <1>4
  <2>3. \A i \in 1..Len(s) : i \in 1..n \/ i = n + 1
    BY <1>2, <1>3
  <2>4. QED BY <1>2, <2>1, <2>2, <2>3
<1>8. \A i \in 1..Len(s) : s[i].k = "tx" =>
         /\ e[i - 1] = e[i]
         /\ \A j \in i..Len(s) : Cur(e[j]) = s[i].db
  <2> SUFFICES ASSUME NEW i \in 1..Len(s), s[i].k = "tx"
               PROVE  e[i - 1] = e[i] /\ \A j \in i..Len(s) : Cur(e[j]) = s[i].db
    OBVIOUS
  <2>1. i \in 1..n /\ s[i] = fr[i]
    BY <1>2, <1>3
  <2>2. c[i - 1] = c[i] /\ \A j \in i..n : Cur(c[j]) = fr[i].db
    BY <1>1, <2>1 DEF History, n
  <2>3. d = Cur(cx)
    BY <2>1 DEF NoneOf, n
  <2>4. Cur(e[n + 1]) = s[i].db
    <3>1. Cur(cx) = fr[i].db
      BY <1>1, <1>2, <2>1, <2>2
    <3>2. Cur(d) = d
      BY TenancyAssumption DEF Cur
    <3>3. QED BY <1>4, <2>1, <2>3, <3>1, <3>2
  <2>5. QED BY <1>2, <1>3, <1>4, <2>1, <2>2, <2>4
<1>9. QED BY <1>3, <1>4, <1>5, <1>6, <1>7, <1>8 DEF StackOK, History, s

\* Entering atomic() on the current database.
LEMMA PushTx ==
    ASSUME NEW fr, NEW cx, StackOK(fr, cx)
    PROVE  StackOK(Append(fr, [k |-> "tx", db |-> Cur(cx), token |-> None]), cx)
<1> DEFINE x == [k |-> "tx", db |-> Cur(cx), token |-> None]
<1> DEFINE s == Append(fr, x)
<1> DEFINE n == Len(fr)
<1>1. PICK c : History(fr, c) /\ c[n] = cx
  BY DEF StackOK
<1> DEFINE e == [j \in 0..(n + 1) |-> IF j = n + 1 THEN cx ELSE c[j]]
<1>2. n \in Nat /\ fr \in Seq(Frame) /\ cx \in Dbs \cup {None} /\ Cur(cx) \in Dbs
  BY <1>1, TenancyAssumption DEF StackOK, History, Cur
<1>3. s \in Seq(Frame) /\ Len(s) = n + 1 /\ s[n + 1] = x /\ \A i \in 1..n : s[i] = fr[i]
  BY <1>2 DEF Frame
<1>4. e \in [0..Len(s) -> Dbs \cup {None}] /\ e[n + 1] = cx /\ \A j \in 0..n : e[j] = c[j]
  BY <1>1, <1>2, <1>3 DEF History
<1> HIDE DEF s, e, n
<1>5. \A j \in 0..Len(s) :
         \/ NoneOf(s, "use", j) /\ e[j] = None
         \/ \E i \in 1..j : LastOf(s, "use", i, j) /\ e[j] = s[i].db
  <2>1. ASSUME NEW j \in 0..n
        PROVE  \/ NoneOf(s, "use", j) /\ e[j] = None
               \/ \E i \in 1..j : LastOf(s, "use", i, j) /\ e[j] = s[i].db
    <3>1. \/ NoneOf(fr, "use", j) /\ c[j] = None
          \/ \E i \in 1..j : LastOf(fr, "use", i, j) /\ c[j] = fr[i].db
      BY <1>1, <2>1 DEF History, n
    <3>2. /\ NoneOf(s, "use", j) <=> NoneOf(fr, "use", j)
          /\ \A i \in 1..j : LastOf(s, "use", i, j) <=> LastOf(fr, "use", i, j)
      BY <1>2, <1>3, SamePrefix
    <3>3. \A i \in 1..j : s[i] = fr[i]
      BY <1>2, <1>3
    <3>4. QED BY <1>4, <3>1, <3>2, <3>3
  <2>2. e[n] = e[n + 1]
    BY <1>1, <1>2, <1>4
  <2>3. \/ NoneOf(s, "use", n + 1) /\ e[n + 1] = None
        \/ \E i \in 1..(n + 1) : LastOf(s, "use", i, n + 1) /\ e[n + 1] = s[i].db
    <3>1. \/ NoneOf(s, "use", n) /\ e[n] = None
          \/ \E i \in 1..n : LastOf(s, "use", i, n) /\ e[n] = s[i].db
      BY <1>2, <2>1
    <3>2. s[n + 1].k # "use" /\ \A i \in 1..n : i \in 1..(n + 1)
      BY <1>2, <1>3
    <3>3. QED BY <1>2, <2>2, <3>1, <3>2, OneMore
  <2>4. \A j \in 0..Len(s) : j \in 0..n \/ j = n + 1
    BY <1>2, <1>3
  <2>5. QED BY <2>1, <2>3, <2>4
<1>6. \A j \in 0..Len(s) : NoneOf(s, "tx", j) \/ \E i \in 1..j : LastOf(s, "tx", i, j)
  <2>1. ASSUME NEW j \in 0..n
        PROVE  NoneOf(s, "tx", j) \/ \E i \in 1..j : LastOf(s, "tx", i, j)
    <3>1. NoneOf(fr, "tx", j) \/ \E i \in 1..j : LastOf(fr, "tx", i, j)
      BY <1>1, <2>1 DEF History, n
    <3>2. QED BY <1>2, <1>3, <3>1, SamePrefix
  <2>2. LastOf(s, "tx", n + 1, n + 1)
    BY <1>2, <1>3 DEF LastOf
  <2>3. n + 1 \in 1..(n + 1) /\ \A j \in 0..Len(s) : j \in 0..n \/ j = n + 1
    BY <1>2, <1>3
  <2>4. QED BY <1>3, <2>1, <2>2, <2>3
<1>7. \A i \in 1..Len(s) : s[i].k = "use" => s[i].token = e[i - 1]
  <2>1. ASSUME NEW i \in 1..n, s[i].k = "use"
        PROVE  s[i].token = e[i - 1]
    <3>1. fr[i].k = "use" => fr[i].token = c[i - 1]
      BY <1>1, <2>1 DEF History, n
    <3>2. i - 1 \in 0..n
      BY <1>2, <2>1
    <3>3. QED BY <1>3, <1>4, <2>1, <3>1, <3>2
  <2>2. s[n + 1].k = "use" => s[n + 1].token = e[n]
    BY <1>1, <1>2, <1>3, <1>4
  <2>3. \A i \in 1..Len(s) : i \in 1..n \/ i = n + 1
    BY <1>2, <1>3
  <2>4. QED BY <1>2, <2>1, <2>2, <2>3
<1>8. \A i \in 1..Len(s) : s[i].k = "tx" =>
         /\ e[i - 1] = e[i]
         /\ \A j \in i..Len(s) : Cur(e[j]) = s[i].db
  <2> SUFFICES ASSUME NEW i \in 1..Len(s), s[i].k = "tx"
               PROVE  e[i - 1] = e[i] /\ \A j \in i..Len(s) : Cur(e[j]) = s[i].db
    OBVIOUS
  <2>1. CASE i = n + 1
    BY <1>1, <1>2, <1>3, <1>4, <2>1
  <2>2. CASE i \in 1..n
    <3>1. c[i - 1] = c[i] /\ \A j \in i..n : Cur(c[j]) = fr[i].db
      BY <1>1, <1>3, <2>2 DEF History, n
    <3>2. Cur(cx) = fr[i].db
      BY <1>1, <1>2, <2>2, <3>1
    <3>3. i - 1 \in 0..n /\ i \in 0..n /\ \A j \in i..Len(s) : j \in i..n \/ j = n + 1
      BY <1>2, <1>3, <2>2
    <3>4. \A j \in i..n : j \in 0..n
      BY <1>2, <2>2
    <3>5. QED BY <1>3, <1>4, <2>2, <3>1, <3>2, <3>3, <3>4
  <2>3. QED BY <1>2, <1>3, <2>1, <2>2
<1>9. QED BY <1>3, <1>4, <1>5, <1>6, <1>7, <1>8 DEF StackOK, History, s

\* Leaving the innermost block: its token, or the same context after atomic().
LEMMA Pop ==
    ASSUME NEW fr, NEW cx, StackOK(fr, cx), Len(fr) > 0
    PROVE  /\ fr[Len(fr)].k = "use" =>
                StackOK(SubSeq(fr, 1, Len(fr) - 1), fr[Len(fr)].token)
           /\ fr[Len(fr)].k = "tx" =>
                /\ StackOK(SubSeq(fr, 1, Len(fr) - 1), cx)
                /\ fr[Len(fr)].db = Cur(cx)
<1> DEFINE n == Len(fr) - 1
<1> DEFINE s == SubSeq(fr, 1, n)
<1>1. PICK c : History(fr, c) /\ c[Len(fr)] = cx
  BY DEF StackOK
<1> DEFINE e == [j \in 0..n |-> c[j]]
<1>2. n \in Nat /\ Len(fr) = n + 1 /\ fr \in Seq(Frame)
  BY DEF StackOK
<1>3. s \in Seq(Frame) /\ Len(s) = n /\ \A i \in 1..n : s[i] = fr[i]
  BY <1>2
<1>4. \A j \in 0..n : j \in 0..(n + 1) /\ e[j] = c[j]
  BY <1>2
<1>5. e \in [0..Len(s) -> Dbs \cup {None}]
  <2>1. \A j \in 0..n : c[j] \in Dbs \cup {None}
    BY <1>1, <1>2, <1>4 DEF History
  <2>2. QED BY <1>3, <2>1
<1> HIDE DEF s, e, n
<1>6. \A i \in 1..n : i \in 0..n /\ i \in 1..Len(fr) /\ i - 1 \in 0..n
  BY <1>2
<1>7. \A j \in 0..Len(s) :
         \/ NoneOf(s, "use", j) /\ e[j] = None
         \/ \E i \in 1..j : LastOf(s, "use", i, j) /\ e[j] = s[i].db
  <2> SUFFICES ASSUME NEW j \in 0..n
               PROVE  \/ NoneOf(s, "use", j) /\ e[j] = None
                      \/ \E i \in 1..j : LastOf(s, "use", i, j) /\ e[j] = s[i].db
    BY <1>3
  <2>1. \/ NoneOf(fr, "use", j) /\ c[j] = None
        \/ \E i \in 1..j : LastOf(fr, "use", i, j) /\ c[j] = fr[i].db
    BY <1>1, <1>2, <1>4 DEF History
  <2>2. \A i \in 1..j : s[i] = fr[i]
    BY <1>2, <1>3
  <2>3. QED BY <1>2, <1>3, <1>4, <2>1, <2>2, SamePrefix
<1>8. \A j \in 0..Len(s) : NoneOf(s, "tx", j) \/ \E i \in 1..j : LastOf(s, "tx", i, j)
  <2> SUFFICES ASSUME NEW j \in 0..n
               PROVE  NoneOf(s, "tx", j) \/ \E i \in 1..j : LastOf(s, "tx", i, j)
    BY <1>3
  <2>1. NoneOf(fr, "tx", j) \/ \E i \in 1..j : LastOf(fr, "tx", i, j)
    BY <1>1, <1>2, <1>4 DEF History
  <2>2. QED BY <1>2, <1>3, <2>1, SamePrefix
<1>9. \A i \in 1..Len(s) : s[i].k = "use" => s[i].token = e[i - 1]
  BY <1>1, <1>3, <1>4, <1>6 DEF History
<1>10. \A i \in 1..Len(s) : s[i].k = "tx" =>
         /\ e[i - 1] = e[i]
         /\ \A j \in i..Len(s) : Cur(e[j]) = s[i].db
  <2> SUFFICES ASSUME NEW i \in 1..n, s[i].k = "tx"
               PROVE  e[i - 1] = e[i] /\ \A j \in i..n : Cur(e[j]) = s[i].db
    BY <1>3
  <2>1. c[i - 1] = c[i] /\ \A j \in i..Len(fr) : Cur(c[j]) = fr[i].db
    BY <1>1, <1>3, <1>6 DEF History
  <2>2. \A j \in i..n : j \in i..Len(fr) /\ j \in 0..n
    BY <1>2
  <2>3. QED BY <1>3, <1>4, <1>6, <2>1, <2>2
<1>11. StackOK(s, c[n])
  <2>1. e[n] = c[n]
    BY <1>2, <1>4
  <2>2. QED BY <1>3, <1>5, <1>7, <1>8, <1>9, <1>10, <2>1 DEF StackOK, History
<1>12. Len(fr) \in 1..Len(fr) /\ Len(fr) - 1 = n
  BY <1>2 DEF n
<1>13. fr[Len(fr)].k = "use" => fr[Len(fr)].token = c[n]
  BY <1>1, <1>12 DEF History
<1>14. fr[Len(fr)].k = "tx" => cx = c[n] /\ fr[Len(fr)].db = Cur(cx)
  <2>1. Len(fr) \in Len(fr)..Len(fr)
    BY <1>2
  <2>2. QED BY <1>1, <1>12, <2>1 DEF History
<1>15. QED BY <1>11, <1>13, <1>14 DEF s, n

\* Every atomic() that is open is on the current database.
LEMMA TxCurrent ==
    ASSUME NEW fr, NEW cx, StackOK(fr, cx), NEW i \in 1..Len(fr), fr[i].k = "tx"
    PROVE  fr[i].db = Cur(cx)
<1>1. PICK c : History(fr, c) /\ c[Len(fr)] = cx
  BY DEF StackOK
<1>2. Len(fr) \in i..Len(fr)
  BY DEF StackOK
<1>3. QED BY <1>1, <1>2 DEF History

\* The database of the innermost block is the current one.
LEMMA MeantCurrent ==
    ASSUME NEW t \in Threads, StackOK(thr[t].frames, ctx[t])
    PROVE  Meant(t) = Cur(ctx[t]) /\ Cur(ctx[t]) \in Dbs
<1> DEFINE fr == thr[t].frames
<1> DEFINE use == {i \in DOMAIN fr : fr[i].k = "use"}
<1> DEFINE last == CHOOSE i \in use : \A j \in use : j <= i
<1>1. PICK c : History(fr, c) /\ c[Len(fr)] = ctx[t]
  BY DEF StackOK
<1>2. DOMAIN fr = 1..Len(fr) /\ Len(fr) \in 0..Len(fr) /\ Len(fr) \in Nat
  BY DEF StackOK
<1>3. c[Len(fr)] \in Dbs \cup {None}
  BY <1>1, <1>2 DEF History
<1>4. Meant(t) = IF use = {} THEN DefaultDb ELSE fr[last].db
  BY DEF Meant
<1> HIDE DEF last
<1>5. CASE NoneOf(fr, "use", Len(fr)) /\ c[Len(fr)] = None
  <2>1. use = {}
    BY <1>2, <1>5 DEF NoneOf
  <2>2. QED BY <1>1, <1>4, <1>5, <2>1, TenancyAssumption DEF Cur
<1>6. CASE \E i \in 1..Len(fr) : LastOf(fr, "use", i, Len(fr)) /\ c[Len(fr)] = fr[i].db
  <2>1. PICK i \in 1..Len(fr) : LastOf(fr, "use", i, Len(fr)) /\ c[Len(fr)] = fr[i].db
    BY <1>6
  <2>2. i \in use /\ \A j \in use : j <= i
    BY <1>2, <2>1 DEF LastOf
  <2>3. last \in use /\ \A j \in use : j <= last
    BY <2>2 DEF last
  <2>4. last = i
    BY <1>2, <2>2, <2>3
  <2>5. fr[i].db \in Dbs
    <3>1. fr \in Seq(Frame)
      BY DEF StackOK
    <3>2. fr[i] \in Frame
      BY <2>1, <3>1
    <3>3. QED BY <3>2 DEF Frame
  <2>6. QED BY <1>1, <1>4, <2>1, <2>2, <2>4, <2>5, TenancyAssumption DEF Cur
<1>7. QED BY <1>1, <1>2, <1>5, <1>6 DEF History

\* The open transaction, when there is one, is on the current database.
LEMMA OpenTxCurrent ==
    ASSUME NEW t \in Threads, StackOK(thr[t].frames, ctx[t])
    PROVE  OpenTx(t) # None => OpenTx(t) = Cur(ctx[t])
<1> DEFINE fr == thr[t].frames
<1> DEFINE tx == {i \in DOMAIN fr : fr[i].k = "tx"}
<1> DEFINE last == CHOOSE i \in tx : \A j \in tx : j <= i
<1>1. PICK c : History(fr, c) /\ c[Len(fr)] = ctx[t]
  BY DEF StackOK
<1>2. DOMAIN fr = 1..Len(fr) /\ Len(fr) \in 0..Len(fr) /\ Len(fr) \in Nat
  BY DEF StackOK
<1>3. OpenTx(t) = IF tx = {} THEN None ELSE fr[last].db
  BY DEF OpenTx
<1> HIDE DEF last
<1>4. CASE NoneOf(fr, "tx", Len(fr))
  BY <1>2, <1>3, <1>4 DEF NoneOf
<1>5. CASE \E i \in 1..Len(fr) : LastOf(fr, "tx", i, Len(fr))
  <2>1. PICK i \in 1..Len(fr) : LastOf(fr, "tx", i, Len(fr))
    BY <1>5
  <2>2. i \in tx /\ \A j \in tx : j <= i
    BY <1>2, <2>1 DEF LastOf
  <2>3. last \in tx
    BY <2>2 DEF last
  <2>4. fr[last].db = Cur(ctx[t])
    BY <1>2, <2>3, TxCurrent
  <2>5. QED BY <1>3, <2>2, <2>4
<1>6. QED BY <1>1, <1>2, <1>4, <1>5 DEF History

-----------------------------------------------------------------------------
(* The inductive invariant *)

Access == {"touch", "evict", "close", "open", "getconn", "exec"}

Control == [pc : {"idle", "work", "lookup", "applied", "fail"} \cup Access, header : Dbs \cup {NoHeader},
            frames : Seq(Frame), kind : {"query", "atomic"}, alias : Dbs, since : Nat,
            todo : SUBSET Dbs, victim : Dbs \cup {None}, forgot : SUBSET Dbs]

Wrappers == [Dbs -> [name : Dbs \cup {None}, conn : Nat]]

\* What holds of a thread with control state p, context cx and wrappers w: the
\* blocks explain the context; a wrapper is named after its alias; the current
\* database has one while a transaction is open and from the lookup of a
\* connection to its use; and the context does not change in between.
ThreadOK(p, cx, w) ==
    /\ StackOK(p.frames, cx)
    /\ \A d \in Dbs : w[d] = NoWrapper \/ w[d].name = d
    /\ ~NoneOf(p.frames, "tx", Len(p.frames)) => w[Cur(cx)] # NoWrapper
    /\ p.pc \in {"lookup"} \cup Access => p.alias = Cur(cx)
    /\ p.pc \in Access => w[Cur(cx)] # NoWrapper

RanOK(r) == r.on = r.meant /\ (r.tx # None => r.on = r.tx)

ShapeInv ==
    /\ now \in Nat
    /\ settings \in [Dbs -> Dbs \cup {None}]
    /\ pools \in [Dbs -> [st : {"none", "new", "open"}, gen : Nat]]
    /\ ctx \in [Threads -> Dbs \cup {None}]
    /\ wrapper \in [Threads -> Wrappers]
    /\ thr \in [Threads -> Control]
    /\ ran \in [Threads -> [meant : Dbs, on : Dbs \cup {None}, tx : Dbs \cup {None}]]

ThreadInv(t) == ThreadOK(thr[t], ctx[t], wrapper[t]) /\ RanOK(ran[t])

IInv ==
    /\ ShapeInv
    /\ \A d \in Dbs : settings[d] \in {None, d}
    /\ \A t \in Threads : ThreadInv(t)

LEMMA CurrentIs == ASSUME NEW t PROVE current_database(t) = Cur(ctx[t])
  BY DEF current_database, Cur

LEMMA CurInDbs == ASSUME NEW cx \in Dbs \cup {None} PROVE Cur(cx) \in Dbs
  BY TenancyAssumption DEF Cur

LEMMA Start == Init => IInv
<1> SUFFICES ASSUME Init PROVE IInv
  OBVIOUS
<1>1. ShapeInv
  BY TenancyAssumption
  DEF Init, ShapeInv, Control, Wrappers, Access, Stopped, NoWrapper, NoPool, NotRun
<1>2. \A d \in Dbs : settings[d] \in {None, d}
  BY DEF Init
<1>3. ASSUME NEW t \in Threads PROVE ThreadInv(t)
  <2>1. thr[t].frames = <<>> /\ thr[t].pc = "idle" /\ ctx[t] = None /\ ran[t] = NotRun
        /\ \A d \in Dbs : wrapper[t][d] = NoWrapper
    BY DEF Init, Stopped
  <2>2. NoneOf(<<>>, "tx", Len(<<>>))
    BY DEF NoneOf
  <2>3. ThreadOK(thr[t], ctx[t], wrapper[t])
    BY <2>1, <2>2, EmptyStack DEF ThreadOK, Access
  <2>4. RanOK(ran[t])
    BY <2>1 DEF RanOK, NotRun
  <2>5. QED BY <2>3, <2>4 DEF ThreadInv
<1>4. QED BY <1>1, <1>2, <1>3 DEF IInv

\* A thread nobody changed keeps its part of the invariant; others may note that
\* one of its databases was forgotten.
LEMMA Untouched ==
    ASSUME NEW u \in Threads, ThreadInv(u),
           ctx'[u] = ctx[u], wrapper'[u] = wrapper[u], ran'[u] = ran[u],
           thr'[u].frames = thr[u].frames, thr'[u].pc = thr[u].pc, thr'[u].alias = thr[u].alias
    PROVE  ThreadInv(u)'
  BY DEF ThreadInv, ThreadOK

\* What is left to show of a step of thread t.
LEMMA StepOf ==
    ASSUME IInv, NEW t \in Threads, ShapeInv', \A d \in Dbs : settings'[d] \in {None, d},
           \A u \in Threads \ {t} :
              /\ ctx'[u] = ctx[u] /\ wrapper'[u] = wrapper[u] /\ ran'[u] = ran[u]
              /\ thr'[u].frames = thr[u].frames /\ thr'[u].pc = thr[u].pc
              /\ thr'[u].alias = thr[u].alias,
           ThreadOK(thr'[t], ctx'[t], wrapper'[t]), RanOK(ran'[t])
    PROVE  IInv'
<1>1. ASSUME NEW u \in Threads \ {t} PROVE ThreadInv(u)'
  BY Untouched DEF IInv
<1>2. ThreadInv(t)'
  BY DEF ThreadInv
<1>3. QED BY <1>1, <1>2 DEF IInv

LEMMA NewPc ==
    ASSUME NEW p \in Control, NEW pc \in {"idle", "work", "lookup", "applied", "fail"} \cup Access
    PROVE  [p EXCEPT !.pc = pc] \in Control
  BY DEF Control

LEMMA NewFrames ==
    ASSUME NEW p \in Control, NEW fr \in Seq(Frame)
    PROVE  [p EXCEPT !.frames = fr] \in Control
  BY DEF Control

LEMMA StoppedControl == Stopped \in Control
<1>1. <<>> \in Seq(Frame) /\ DefaultDb \in Dbs /\ 0 \in Nat
  BY TenancyAssumption
<1>2. QED BY <1>1 DEF Stopped, Control

LEMMA RequestKeeps ==
    ASSUME IInv, NEW t \in Threads, NEW h \in Dbs \cup Refused \cup {NoHeader}, Request(t, h)
    PROVE  IInv'
<1> USE DEF handler, ghosts
<1>1. CASE UNCHANGED <<ctx, thr>>
  <2>1. ShapeInv'
    BY <1>1 DEF Request, IInv, ShapeInv
  <2>2. QED BY <1>1, <2>1, StepOf DEF Request, IInv, ThreadInv
<1>2. CASE h = NoHeader /\ ctx' = [ctx EXCEPT ![t] = None]
           /\ thr' = [thr EXCEPT ![t] = [Stopped EXCEPT !.pc = "work"]]
  <2>1. ShapeInv'
    <3>1. [Stopped EXCEPT !.pc = "work"] \in Control
      BY StoppedControl, NewPc
    <3>2. QED BY <1>2, <3>1 DEF Request, IInv, ShapeInv
  <2>2. thr'[t].frames = <<>> /\ thr'[t].pc = "work" /\ ctx'[t] = None
    BY <1>2 DEF IInv, ShapeInv, Stopped
  <2>3. NoneOf(<<>>, "tx", Len(<<>>))
    BY DEF NoneOf
  <2>4. ThreadOK(thr'[t], ctx'[t], wrapper'[t])
    BY <2>2, <2>3, EmptyStack DEF ThreadOK, Access, Request, IInv, ThreadInv
  <2>5. QED BY <1>2, <2>1, <2>4, StepOf DEF Request, IInv, ShapeInv, ThreadInv
<1>3. CASE h \in Dbs /\ ctx' = [ctx EXCEPT ![t] = h]
           /\ thr' = [thr EXCEPT ![t] =
                [Stopped EXCEPT !.pc = "work", !.header = h,
                                !.frames = <<[k |-> "use", db |-> h, token |-> None]>>]]
  <2> DEFINE x == [k |-> "use", db |-> h, token |-> None]
  <2>1. x \in Frame /\ <<x>> = Append(<<>>, x) /\ <<x>> \in Seq(Frame) /\ Len(<<x>>) = 1
    BY <1>3 DEF Frame
  <2>2. ShapeInv'
    BY <1>3, <2>1, TenancyAssumption DEF Request, IInv, ShapeInv, Control, Stopped
  <2>3. thr'[t].frames = <<x>> /\ thr'[t].pc = "work" /\ ctx'[t] = h
    BY <1>3 DEF IInv, ShapeInv, Stopped
  <2>4. StackOK(<<x>>, h) /\ NoneOf(<<x>>, "tx", Len(<<x>>))
    <3>1. NoneOf(<<>>, "tx", Len(<<>>))
      BY DEF NoneOf
    <3>2. StackOK(<<x>>, h)
      BY <1>3, <2>1, <3>1, EmptyStack, PushUse
    <3>3. QED BY <2>1, <3>2 DEF NoneOf
  <2>5. ThreadOK(thr'[t], ctx'[t], wrapper'[t])
    BY <2>3, <2>4 DEF ThreadOK, Access, Request, IInv, ThreadInv
  <2>6. QED BY <1>3, <2>2, <2>5, StepOf DEF Request, IInv, ShapeInv, ThreadInv
<1>4. QED BY <1>1, <1>2, <1>3 DEF Request

\* The blocks of a thread say whether an atomic() is open on its connection.
LEMMA SwitchSafe ==
    ASSUME IInv, NEW t \in Threads, NEW d \in Dbs, SwitchAllowed(t, d)
    PROVE  d = Cur(ctx[t]) \/ NoneOf(thr[t].frames, "tx", Len(thr[t].frames))
<1> SUFFICES ASSUME ~NoneOf(thr[t].frames, "tx", Len(thr[t].frames))
             PROVE  d = Cur(ctx[t])
  OBVIOUS
<1>1. ThreadOK(thr[t], ctx[t], wrapper[t])
  BY DEF IInv, ThreadInv
<1>2. PICK i \in 1..Len(thr[t].frames) : thr[t].frames[i].k = "tx"
  BY DEF NoneOf
<1>3. thr[t].frames[i].db = Cur(ctx[t])
  BY <1>1, <1>2, TxCurrent DEF ThreadOK
<1>4. i \in DOMAIN thr[t].frames
  BY <1>1 DEF ThreadOK, StackOK
<1>5. InAtomicBlock(t, Cur(ctx[t]))
  BY <1>1, <1>2, <1>3, <1>4 DEF InAtomicBlock, ThreadOK
<1>6. QED BY <1>5, CurrentIs DEF SwitchAllowed

LEMMA UseKeeps ==
    ASSUME IInv, NEW t \in Threads, NEW d \in Dbs, use_database(t, d)
    PROVE  IInv'
<1> USE DEF handler, ghosts
<1>1. ThreadOK(thr[t], ctx[t], wrapper[t]) /\ RanOK(ran[t]) /\ thr[t].frames \in Seq(Frame)
  BY DEF IInv, ThreadInv, ThreadOK, StackOK
<1>2. CASE SwitchAllowed(t, d)
  <2> DEFINE x == [k |-> "use", db |-> d, token |-> ctx[t]]
  <2>1. ctx' = [ctx EXCEPT ![t] = d]
        /\ thr' = [thr EXCEPT ![t].frames = Append(thr[t].frames, x)]
    BY <1>2 DEF use_database, Enter
  <2>2. x \in Frame /\ Append(thr[t].frames, x) \in Seq(Frame)
        /\ Len(Append(thr[t].frames, x)) = Len(thr[t].frames) + 1
    BY <1>1 DEF IInv, ShapeInv, Frame
  <2>3. ShapeInv'
    <3>1. [thr[t] EXCEPT !.frames = Append(thr[t].frames, x)] \in Control
      BY <2>2, NewFrames DEF IInv, ShapeInv
    <3>2. QED BY <2>1, <3>1 DEF use_database, IInv, ShapeInv
  <2>4. thr'[t].frames = Append(thr[t].frames, x) /\ thr'[t].pc = "work" /\ ctx'[t] = d
    BY <2>1 DEF use_database, IInv, ShapeInv, Control
  <2>5. d = Cur(ctx[t]) \/ NoneOf(thr[t].frames, "tx", Len(thr[t].frames))
    BY <1>2, SwitchSafe
  <2>6. StackOK(Append(thr[t].frames, x), d)
    BY <1>1, <2>5, PushUse DEF ThreadOK
  <2>7. ASSUME ~NoneOf(Append(thr[t].frames, x), "tx", Len(Append(thr[t].frames, x)))
        PROVE  wrapper[t][Cur(d)] # NoWrapper
    <3>1. PICK i \in 1..(Len(thr[t].frames) + 1) : Append(thr[t].frames, x)[i].k = "tx"
      BY <2>2, <2>7 DEF NoneOf
    <3>2. i \in 1..Len(thr[t].frames) /\ thr[t].frames[i].k = "tx"
      BY <1>1, <2>2, <3>1
    <3>3. ~NoneOf(thr[t].frames, "tx", Len(thr[t].frames))
      BY <3>2 DEF NoneOf
    <3>4. Cur(d) = Cur(ctx[t])
      BY <2>5, <3>3, TenancyAssumption DEF Cur
    <3>5. QED BY <1>1, <3>3, <3>4 DEF ThreadOK
  <2>8. ThreadOK(thr'[t], ctx'[t], wrapper'[t])
    BY <1>1, <2>4, <2>6, <2>7 DEF ThreadOK, Access, use_database
  <2>9. QED BY <1>1, <2>1, <2>3, <2>8, StepOf DEF use_database, IInv, ShapeInv
<1>3. CASE ~SwitchAllowed(t, d)
  <2>1. thr' = [thr EXCEPT ![t].pc = "fail"] /\ ctx' = ctx
    BY <1>3 DEF use_database
  <2>2. ShapeInv'
    <3>1. [thr[t] EXCEPT !.pc = "fail"] \in Control
      BY NewPc DEF IInv, ShapeInv
    <3>2. QED BY <2>1, <3>1 DEF use_database, IInv, ShapeInv
  <2>3. thr'[t].frames = thr[t].frames /\ thr'[t].pc = "fail"
    BY <2>1 DEF IInv, ShapeInv, Control
  <2>4. ThreadOK(thr'[t], ctx'[t], wrapper'[t])
    BY <1>1, <2>1, <2>3 DEF ThreadOK, Access, use_database
  <2>5. QED BY <1>1, <2>1, <2>2, <2>4, StepOf DEF use_database, IInv, ShapeInv
<1>4. QED BY <1>2, <1>3

\* A shorter stack has an open atomic() only if the longer one had.
LEMMA FewerTx ==
    ASSUME NEW fr \in Seq(Frame), Len(fr) > 0
    PROVE  LET s == SubSeq(fr, 1, Len(fr) - 1) IN
             /\ s \in Seq(Frame)
             /\ NoneOf(fr, "tx", Len(fr)) => NoneOf(s, "tx", Len(s))
<1> DEFINE s == SubSeq(fr, 1, Len(fr) - 1)
<1>1. s \in Seq(Frame) /\ Len(s) = Len(fr) - 1 /\ \A i \in 1..(Len(fr) - 1) : s[i] = fr[i]
  <2>1. Len(fr) - 1 \in Nat /\ Len(fr) = (Len(fr) - 1) + 1 /\ fr \in Seq(Frame)
    OBVIOUS
  <2>2. QED BY <2>1
<1> HIDE DEF s
<1>2. \A i \in 1..Len(s) : i \in 1..Len(fr) /\ s[i] = fr[i]
  BY <1>1
<1>3. NoneOf(fr, "tx", Len(fr)) => NoneOf(s, "tx", Len(s))
  BY <1>2 DEF NoneOf
<1>4. QED BY <1>1, <1>3 DEF s

LEMMA LeaveKeeps ==
    ASSUME IInv, NEW t \in Threads, Leave(t)
    PROVE  IInv'
<1> USE DEF handler, ghosts
<1> DEFINE fr == thr[t].frames
<1> DEFINE s == SubSeq(fr, 1, Len(fr) - 1)
<1>1. ThreadOK(thr[t], ctx[t], wrapper[t]) /\ RanOK(ran[t]) /\ fr \in Seq(Frame)
  BY DEF IInv, ThreadInv, ThreadOK, StackOK
<1>2. Len(fr) > 0 /\ fr[Len(fr)].k = "use" /\ fr[Len(fr)] \in Frame
  BY <1>1 DEF Leave, OwnFrames, Top
<1>3. ctx' = [ctx EXCEPT ![t] = fr[Len(fr)].token] /\ thr' = [thr EXCEPT ![t].frames = s]
  BY DEF Leave, Top
<1>4. s \in Seq(Frame) /\ (NoneOf(fr, "tx", Len(fr)) => NoneOf(s, "tx", Len(s)))
  BY <1>1, <1>2, FewerTx
<1>5. StackOK(s, fr[Len(fr)].token)
  BY <1>1, <1>2, Pop DEF ThreadOK
<1>6. ShapeInv'
  <2>1. fr[Len(fr)].token \in Dbs \cup {None}
    BY <1>2 DEF Frame
  <2>2. [thr[t] EXCEPT !.frames = s] \in Control
    BY <1>4, NewFrames DEF IInv, ShapeInv
  <2>3. QED BY <1>3, <2>1, <2>2 DEF Leave, IInv, ShapeInv
<1> HIDE DEF s
<1>7. thr'[t].frames = s /\ thr'[t].pc \in {"work", "fail"} /\ ctx'[t] = fr[Len(fr)].token
  BY <1>3 DEF Leave, IInv, ShapeInv, Control
<1>8. ASSUME ~NoneOf(s, "tx", Len(s))
      PROVE  wrapper[t][Cur(fr[Len(fr)].token)] # NoWrapper
  <2>1. PICK i \in 1..Len(s) : s[i].k = "tx"
    BY <1>8 DEF NoneOf
  <2>2. s[i].db = Cur(fr[Len(fr)].token)
    BY <1>5, <2>1, TxCurrent
  <2>3. i \in 1..Len(fr) /\ s[i] = fr[i]
    BY <1>1, <1>2, <2>1 DEF s
  <2>4. fr[i].db = Cur(ctx[t])
    BY <1>1, <2>1, <2>3, TxCurrent DEF ThreadOK
  <2>5. QED BY <1>1, <1>4, <1>8, <2>2, <2>3, <2>4 DEF ThreadOK
<1>9. ThreadOK(thr'[t], ctx'[t], wrapper'[t])
  BY <1>1, <1>5, <1>7, <1>8 DEF ThreadOK, Access, Leave
<1>10. QED BY <1>1, <1>3, <1>6, <1>9, StepOf DEF Leave, IInv, ShapeInv

LEMMA EndAtomicKeeps ==
    ASSUME IInv, NEW t \in Threads, EndAtomic(t)
    PROVE  IInv'
<1> USE DEF handler, ghosts
<1> DEFINE fr == thr[t].frames
<1> DEFINE s == SubSeq(fr, 1, Len(fr) - 1)
<1>1. ThreadOK(thr[t], ctx[t], wrapper[t]) /\ fr \in Seq(Frame) /\ ctx[t] \in Dbs \cup {None}
  BY DEF IInv, ShapeInv, ThreadInv, ThreadOK, StackOK
<1>2. Len(fr) > 0 /\ fr[Len(fr)].k = "tx" /\ fr[Len(fr)] \in Frame
  BY <1>1 DEF EndAtomic, OwnFrames, Top
<1>3. thr' = [thr EXCEPT ![t].frames = s] /\ ctx' = ctx /\ wrapper' = wrapper
      /\ now' = now /\ pools' = pools
  BY DEF EndAtomic
<1>4. s \in Seq(Frame) /\ (NoneOf(fr, "tx", Len(fr)) => NoneOf(s, "tx", Len(s)))
  BY <1>1, <1>2, FewerTx
<1>5. StackOK(s, ctx[t]) /\ fr[Len(fr)].db = Cur(ctx[t])
  BY <1>1, <1>2, Pop DEF ThreadOK
<1>6. Meant(t) = Cur(ctx[t]) /\ Cur(ctx[t]) \in Dbs /\ current_database(t) = Cur(ctx[t])
  BY <1>1, MeantCurrent, CurrentIs DEF ThreadOK
<1>7. ran' = [ran EXCEPT ![t] = [meant |-> Cur(ctx[t]), on |-> Cur(ctx[t]), tx |-> Cur(ctx[t])]]
  BY <1>5, <1>6 DEF EndAtomic, Top
<1>8. settings' = [settings EXCEPT ![Cur(ctx[t])] =
                     IF settings[Cur(ctx[t])] = None THEN Cur(ctx[t]) ELSE settings[Cur(ctx[t])]]
  BY <1>6 DEF EndAtomic, AddedEntry
<1> HIDE DEF s
<1>9. ShapeInv'
  <2>1. [thr[t] EXCEPT !.frames = s] \in Control
    BY <1>4, NewFrames DEF IInv, ShapeInv
  <2>2. settings' \in [Dbs -> Dbs \cup {None}]
    BY <1>6, <1>8 DEF IInv, ShapeInv
  <2>3. ran' \in [Threads -> [meant : Dbs, on : Dbs \cup {None}, tx : Dbs \cup {None}]]
    BY <1>6, <1>7 DEF IInv, ShapeInv
  <2>4. thr' \in [Threads -> Control]
    BY <1>3, <2>1 DEF IInv, ShapeInv
  <2>5. QED BY <1>3, <2>2, <2>3, <2>4 DEF IInv, ShapeInv
<1>10. \A d \in Dbs : settings'[d] \in {None, d}
  BY <1>6, <1>8 DEF IInv, ShapeInv
<1>11. thr'[t].frames = s /\ thr'[t].pc \in {"work", "fail"}
  BY <1>3 DEF EndAtomic, IInv, ShapeInv, Control
<1>12. ThreadOK(thr'[t], ctx'[t], wrapper'[t])
  BY <1>1, <1>3, <1>4, <1>5, <1>11 DEF ThreadOK, Access
<1>13. RanOK(ran'[t])
  BY <1>7 DEF RanOK, IInv, ShapeInv
<1>14. QED BY <1>3, <1>7, <1>9, <1>10, <1>12, <1>13, StepOf DEF IInv, ShapeInv

LEMMA FinishKeeps ==
    ASSUME IInv, NEW t \in Threads, Finish(t)
    PROVE  IInv'
<1> USE DEF handler, ghosts
<1>1. thr' = [thr EXCEPT ![t] = Stopped] /\ ctx' = [ctx EXCEPT ![t] = None]
      /\ ran' = [ran EXCEPT ![t] = NotRun]
      /\ wrapper' = [wrapper EXCEPT ![t] = [d \in Dbs |-> NoWrapper]]
      /\ now' = now /\ pools' = pools
  BY DEF Finish
<1>2. settings' = [d \in Dbs |-> IF d \in Initialized(t, DefaultDb) /\ settings[d] = None
                                 THEN d ELSE settings[d]]
  BY DEF Finish, AddedEntry
<1>3. \A d \in Dbs : settings'[d] \in {None, d}
  BY <1>2 DEF IInv
<1>4. ShapeInv'
  <2>1. settings' \in [Dbs -> Dbs \cup {None}]
    BY <1>2 DEF IInv, ShapeInv
  <2>2. [d \in Dbs |-> NoWrapper] \in Wrappers
        /\ NotRun \in [meant : Dbs, on : Dbs \cup {None}, tx : Dbs \cup {None}]
    BY TenancyAssumption DEF Wrappers, NoWrapper, NotRun
  <2>3. QED BY <1>1, <2>1, <2>2, StoppedControl DEF IInv, ShapeInv
<1>5. thr'[t] = Stopped /\ ctx'[t] = None /\ ran'[t] = NotRun
      /\ \A d \in Dbs : wrapper'[t][d] = NoWrapper
  BY <1>1 DEF IInv, ShapeInv
<1>6. ThreadOK(thr'[t], ctx'[t], wrapper'[t])
  <2>1. NoneOf(<<>>, "tx", Len(<<>>))
    BY DEF NoneOf
  <2>2. Stopped.frames = <<>> /\ Stopped.pc = "idle"
    BY DEF Stopped
  <2>3. QED BY <1>5, <2>1, <2>2, EmptyStack DEF ThreadOK, Access
<1>7. RanOK(ran'[t])
  BY <1>5 DEF RanOK, NotRun
<1>8. QED BY <1>1, <1>3, <1>4, <1>6, <1>7, StepOf DEF IInv, ShapeInv

LEMMA LookupKeeps ==
    ASSUME IInv, NEW t \in Threads, NEW kind \in {"query", "atomic"}, Lookup(t, kind)
    PROVE  IInv'
<1> USE DEF handler, ghosts
<1> DEFINE d == Cur(ctx[t])
<1>1. ThreadOK(thr[t], ctx[t], wrapper[t]) /\ RanOK(ran[t]) /\ d \in Dbs
      /\ current_database(t) = d
  BY CurInDbs, CurrentIs DEF IInv, ShapeInv, ThreadInv
<1> HIDE DEF d
<1>2. thr' = [thr EXCEPT ![t].pc = "lookup", ![t].kind = kind, ![t].alias = d, ![t].since = now]
      /\ settings' = [settings EXCEPT ![d] = IF settings[d] = None THEN d ELSE settings[d]]
  BY <1>1 DEF Lookup, AddedEntry
<1>3. \A x \in Dbs : settings'[x] \in {None, x}
  BY <1>1, <1>2 DEF IInv, ShapeInv
<1>4. ShapeInv'
  <2>1. settings' \in [Dbs -> Dbs \cup {None}]
    BY <1>1, <1>2 DEF IInv, ShapeInv
  <2>2. thr' \in [Threads -> Control]
    <3> DEFINE q == [thr[t] EXCEPT !.pc = "lookup", !.kind = kind, !.alias = d, !.since = now]
    <3>1. thr[t] \in Control /\ now \in Nat
      BY DEF IInv, ShapeInv
    <3>2. q \in Control
      BY <1>1, <3>1 DEF Control
    <3>3. thr' = [thr EXCEPT ![t] = q]
      BY <1>2 DEF IInv, ShapeInv
    <3> HIDE DEF q
    <3>4. QED BY <3>2, <3>3 DEF IInv, ShapeInv
  <2>3. QED BY <2>1, <2>2 DEF Lookup, IInv, ShapeInv
<1>5. thr'[t].frames = thr[t].frames /\ thr'[t].pc = "lookup" /\ thr'[t].alias = d
  BY <1>2 DEF IInv, ShapeInv, Control
<1>6. ThreadOK(thr'[t], ctx'[t], wrapper'[t])
  BY <1>1, <1>5 DEF ThreadOK, Access, Lookup, d
<1>7. QED BY <1>1, <1>2, <1>3, <1>4, <1>6, StepOf DEF Lookup, IInv, ShapeInv

LEMMA GetItemKeeps ==
    ASSUME IInv, NEW t \in Threads, GetItem(t)
    PROVE  IInv'
<1> USE DEF handler, ghosts
<1> DEFINE d == thr[t].alias
<1>1. ThreadOK(thr[t], ctx[t], wrapper[t]) /\ RanOK(ran[t]) /\ thr[t] \in Control
  BY DEF IInv, ShapeInv, ThreadInv
<1>2. d \in Dbs /\ d = Cur(ctx[t])
  BY <1>1 DEF ThreadOK, Control, GetItem
<1>3. CASE wrapper[t][d] = NoWrapper /\ settings[d] = None
  <2>1. thr' = [thr EXCEPT ![t] = Ended(thr[t], "fail")] /\ wrapper' = wrapper
    BY <1>3 DEF GetItem
  <2>2. Ended(thr[t], "fail") \in Control
    BY <1>1, TenancyAssumption DEF Ended, Control
  <2>3. ShapeInv'
    BY <2>1, <2>2 DEF GetItem, IInv, ShapeInv
  <2>4. thr'[t].frames = thr[t].frames /\ thr'[t].pc = "fail"
    BY <1>1, <2>1 DEF IInv, ShapeInv, Ended, Control
  <2>5. ThreadOK(thr'[t], ctx'[t], wrapper'[t])
    BY <1>1, <2>1, <2>4 DEF ThreadOK, Access, GetItem
  <2>6. QED BY <1>1, <2>1, <2>3, <2>5, StepOf DEF GetItem, IInv, ShapeInv
<1>4. CASE ~(wrapper[t][d] = NoWrapper /\ settings[d] = None)
  <2> DEFINE w == IF wrapper[t][d] = NoWrapper THEN [name |-> settings[d], conn |-> 0]
                  ELSE wrapper[t][d]
  <2>1. thr' = [thr EXCEPT ![t].pc = "touch"]
        /\ wrapper' = [wrapper EXCEPT ![t] = [wrapper[t] EXCEPT ![d] = w]]
    BY <1>4 DEF GetItem
  <2>2. w \in [name : Dbs \cup {None}, conn : Nat] /\ w.name = d /\ w # NoWrapper
    <3>1. CASE wrapper[t][d] = NoWrapper
      <4>1. settings[d] = d /\ d # None
        BY <1>2, <1>4, <3>1, TenancyAssumption DEF IInv
      <4>2. QED BY <1>2, <3>1, <4>1 DEF NoWrapper
    <3>2. CASE wrapper[t][d] # NoWrapper
      BY <1>1, <1>2, <3>2 DEF IInv, ShapeInv, Wrappers, ThreadOK
    <3>3. QED BY <3>1, <3>2
  <2> HIDE DEF w, d
  <2>3. [wrapper[t] EXCEPT ![d] = w] \in Wrappers
    BY <1>2, <2>2 DEF IInv, ShapeInv, Wrappers
  <2>4. [thr[t] EXCEPT !.pc = "touch"] \in Control
    BY <1>1, NewPc DEF Access
  <2>5. ShapeInv'
    BY <2>1, <2>3, <2>4 DEF GetItem, IInv, ShapeInv
  <2>6. thr'[t].frames = thr[t].frames /\ thr'[t].pc = "touch" /\ thr'[t].alias = d
    BY <1>1, <2>1 DEF IInv, ShapeInv, Control, d
  <2>7. wrapper'[t][d] = w /\ \A x \in Dbs \ {d} : wrapper'[t][x] = wrapper[t][x]
    BY <1>2, <2>1 DEF IInv, ShapeInv, Wrappers
  <2>8. ThreadOK(thr'[t], ctx'[t], wrapper'[t])
    BY <1>1, <1>2, <2>2, <2>6, <2>7 DEF ThreadOK, Access, GetItem
  <2>9. QED BY <1>1, <2>1, <2>5, <2>8, StepOf DEF GetItem, IInv, ShapeInv
<1>5. QED BY <1>3, <1>4

\* The steps between the lookup of a connection and its use.
LEMMA AccessStep ==
    ASSUME IInv, NEW t \in Threads, NEW q \in Control, thr' = [thr EXCEPT ![t] = q],
           thr[t].pc \in Access, q.pc \in Access,
           q.frames = thr[t].frames, q.alias = thr[t].alias,
           now' = now, settings' = settings, ctx' = ctx, wrapper' = wrapper, ran' = ran,
           pools' \in [Dbs -> [st : {"none", "new", "open"}, gen : Nat]]
    PROVE  IInv'
<1>1. ThreadOK(thr[t], ctx[t], wrapper[t]) /\ RanOK(ran[t])
  BY DEF IInv, ThreadInv
<1>2. ShapeInv'
  BY DEF IInv, ShapeInv
<1>3. thr'[t] = q
  BY DEF IInv, ShapeInv
<1>4. ThreadOK(thr'[t], ctx'[t], wrapper'[t])
  BY <1>1, <1>3 DEF ThreadOK
<1>5. QED BY <1>1, <1>2, <1>4, StepOf DEF IInv, ShapeInv

LEMMA PoolsShape ==
    ASSUME ShapeInv, NEW d \in Dbs, NEW p \in [st : {"none", "new", "open"}, gen : Nat]
    PROVE  [pools EXCEPT ![d] = p] \in [Dbs -> [st : {"none", "new", "open"}, gen : Nat]]
  BY DEF ShapeInv

LEMMA TouchKeeps ==
    ASSUME IInv, NEW t \in Threads, Touch(t)
    PROVE  IInv'
<1> USE DEF handler, ghosts
<1>1. thr[t] \in Control /\ thr[t].pc = "touch"
      /\ pools \in [Dbs -> [st : {"none", "new", "open"}, gen : Nat]]
  BY DEF IInv, ShapeInv, Touch
<1>2. UNCHANGED <<now, settings, pools, ctx, wrapper, ran>>
  BY DEF Touch
<1>3. CASE now - lastCheck >= CheckInterval
  <2> DEFINE todo == {p \in Dbs : pools[p].st # "none"}
  <2> DEFINE q == [thr[t] EXCEPT !.pc = "evict", !.todo = todo]
  <2>1. thr' = [thr EXCEPT ![t] = q]
    BY <1>3 DEF Touch, IInv, ShapeInv
  <2>2. todo \in SUBSET Dbs
    OBVIOUS
  <2> HIDE DEF todo
  <2>3. q \in Control /\ q.pc = "evict" /\ q.frames = thr[t].frames /\ q.alias = thr[t].alias
    BY <1>1, <2>2 DEF Control, Access
  <2> HIDE DEF q
  <2>4. QED BY <1>1, <1>2, <2>1, <2>3, AccessStep DEF Access
<1>4. CASE ~(now - lastCheck >= CheckInterval)
  <2> DEFINE next == IF Connected(t) THEN "exec" ELSE "open"
  <2> DEFINE q == [thr[t] EXCEPT !.pc = next]
  <2>1. thr' = [thr EXCEPT ![t] = q]
    BY <1>4 DEF Touch, IInv, ShapeInv
  <2>2. next \in {"exec", "open"}
    OBVIOUS
  <2> HIDE DEF next
  <2>3. q \in Control /\ q.pc = next /\ q.frames = thr[t].frames /\ q.alias = thr[t].alias
    BY <1>1, <2>2 DEF Control, Access
  <2> HIDE DEF q
  <2>4. QED BY <1>1, <1>2, <2>1, <2>2, <2>3, AccessStep DEF Access
<1>5. QED BY <1>3, <1>4

LEMMA EvictionKeeps ==
    ASSUME IInv, NEW t \in Threads, EvictLook(t) \/ EvictClose(t) \/ EvictDone(t)
    PROVE  IInv'
<1> USE DEF handler, ghosts
<1>1. thr[t] \in Control /\ pools \in [Dbs -> [st : {"none", "new", "open"}, gen : Nat]]
      /\ ShapeInv
  BY DEF IInv, ShapeInv
<1>2. CASE EvictLook(t)
  <2>1. PICK d \in thr[t].todo : EvictNext(t, d)
    BY <1>2 DEF EvictLook
  <2>2. d \in Dbs /\ thr[t].todo \ {d} \in SUBSET Dbs
    BY <1>1, <2>1 DEF Control
  <2>3. thr[t].pc = "evict" /\ UNCHANGED <<now, settings, pools, ctx, wrapper, ran>>
    BY <1>2 DEF EvictLook
  <2>4. CASE Evictable(t, d)
    <3> DEFINE q == [thr[t] EXCEPT !.pc = "close", !.victim = d]
    <3>1. thr' = [thr EXCEPT ![t] = q]
      BY <2>1, <2>4 DEF EvictNext, IInv, ShapeInv
    <3>2. q \in Control /\ q.pc = "close" /\ q.frames = thr[t].frames /\ q.alias = thr[t].alias
      BY <1>1, <2>2 DEF Control, Access
    <3> HIDE DEF q
    <3>3. QED BY <1>1, <2>3, <3>1, <3>2, AccessStep DEF Access
  <2>5. CASE ~Evictable(t, d)
    <3> DEFINE q == [thr[t] EXCEPT !.todo = thr[t].todo \ {d}]
    <3>1. thr' = [thr EXCEPT ![t] = q]
      BY <2>1, <2>5 DEF EvictNext, IInv, ShapeInv
    <3>2. q \in Control /\ q.pc = thr[t].pc /\ q.frames = thr[t].frames /\ q.alias = thr[t].alias
      BY <1>1, <2>2 DEF Control
    <3> HIDE DEF q
    <3>3. QED BY <1>1, <2>3, <3>1, <3>2, AccessStep DEF Access
  <2>6. QED BY <2>4, <2>5
<1>3. CASE EvictClose(t)
  <2> DEFINE d == thr[t].victim
  <2> DEFINE q == [thr[t] EXCEPT !.pc = "evict", !.todo = thr[t].todo \ {d}, !.victim = None]
  <2>1. thr' = [thr EXCEPT ![t] = q] /\ thr[t].pc = "close"
        /\ UNCHANGED <<now, settings, ctx, wrapper, ran>>
    BY <1>3 DEF EvictClose, IInv, ShapeInv
  <2>2. thr[t].todo \ {d} \in SUBSET Dbs
    BY <1>1 DEF Control
  <2>3. q \in Control /\ q.pc = "evict" /\ q.frames = thr[t].frames /\ q.alias = thr[t].alias
    BY <1>1, <2>2 DEF Control, Access
  <2>4. pools' \in [Dbs -> [st : {"none", "new", "open"}, gen : Nat]]
    BY <1>1, <1>3 DEF EvictClose
  <2> HIDE DEF q
  <2>5. QED BY <2>1, <2>3, <2>4, AccessStep DEF Access
<1>4. CASE EvictDone(t)
  <2> DEFINE next == IF Connected(t) THEN "exec" ELSE "open"
  <2> DEFINE q == [thr[t] EXCEPT !.pc = next]
  <2>1. thr' = [thr EXCEPT ![t] = q] /\ thr[t].pc = "evict"
        /\ UNCHANGED <<now, settings, pools, ctx, wrapper, ran>>
    BY <1>4 DEF EvictDone, IInv, ShapeInv
  <2>2. next \in {"exec", "open"}
    OBVIOUS
  <2> HIDE DEF next
  <2>3. q \in Control /\ q.pc = next /\ q.frames = thr[t].frames /\ q.alias = thr[t].alias
    BY <1>1, <2>2 DEF Control, Access
  <2> HIDE DEF q
  <2>4. QED BY <1>1, <2>1, <2>2, <2>3, AccessStep DEF Access
<1>5. QED BY <1>2, <1>3, <1>4

LEMMA OpenPoolKeeps ==
    ASSUME IInv, NEW t \in Threads, OpenPool(t)
    PROVE  IInv'
<1> USE DEF handler, ghosts
<1> DEFINE d == thr[t].alias
<1> DEFINE p == [st |-> "open",
                 gen |-> IF pools[d].st = "none" THEN pools[d].gen + 1 ELSE pools[d].gen]
<1> DEFINE q == [thr[t] EXCEPT !.pc = "getconn"]
<1>1. thr[t] \in Control /\ ShapeInv /\ d \in Dbs
      /\ pools[d] \in [st : {"none", "new", "open"}, gen : Nat]
  BY DEF IInv, ShapeInv, Control
<1>2. pools' = [pools EXCEPT ![d] = p] /\ thr' = [thr EXCEPT ![t] = q] /\ thr[t].pc = "open"
      /\ UNCHANGED <<now, settings, ctx, wrapper, ran>>
  BY DEF OpenPool, IInv, ShapeInv
<1>3. p \in [st : {"none", "new", "open"}, gen : Nat]
  BY <1>1
<1> HIDE DEF p
<1>4. pools' \in [Dbs -> [st : {"none", "new", "open"}, gen : Nat]]
  BY <1>1, <1>2, <1>3, PoolsShape
<1>5. q \in Control /\ q.pc = "getconn" /\ q.frames = thr[t].frames /\ q.alias = thr[t].alias
  BY <1>1 DEF Control, Access
<1> HIDE DEF q
<1>6. QED BY <1>2, <1>4, <1>5, AccessStep DEF Access

LEMMA EndedControl ==
    ASSUME NEW p \in Control, NEW pc \in {"work", "fail"}
    PROVE  /\ Ended(p, pc) \in Control
           /\ Ended(p, pc).frames = p.frames /\ Ended(p, pc).pc = pc
  BY TenancyAssumption DEF Ended, Control

LEMMA GetConnKeeps ==
    ASSUME IInv, NEW t \in Threads, GetConn(t)
    PROVE  IInv'
<1> USE DEF handler, ghosts
<1> DEFINE d == thr[t].alias
<1>1. thr[t] \in Control /\ ShapeInv /\ d \in Dbs /\ thr[t].pc = "getconn"
      /\ pools[d] \in [st : {"none", "new", "open"}, gen : Nat]
      /\ UNCHANGED <<now, settings, ctx, ran>>
  BY DEF IInv, ShapeInv, Control, GetConn
<1>2. ThreadOK(thr[t], ctx[t], wrapper[t]) /\ RanOK(ran[t]) /\ d = Cur(ctx[t])
      /\ wrapper[t][d] # NoWrapper /\ wrapper[t][d].name = d
  BY <1>1 DEF IInv, ThreadInv, ThreadOK, Access
<1>3. CASE wrapper' = [wrapper EXCEPT ![t][d].conn = pools[d].gen]
           /\ thr' = [thr EXCEPT ![t].pc = "exec"] /\ pools' = pools
  <2> DEFINE w == [wrapper[t][d] EXCEPT !.conn = pools[d].gen]
  <2>1. wrapper' = [wrapper EXCEPT ![t] = [wrapper[t] EXCEPT ![d] = w]]
    BY <1>3
  <2>2. w \in [name : Dbs \cup {None}, conn : Nat] /\ w.name = d
    BY <1>1, <1>2 DEF ShapeInv, Wrappers
  <2>3. w # NoWrapper
    BY <1>1, <2>2, TenancyAssumption DEF NoWrapper
  <2> HIDE DEF w, d
  <2>4. [wrapper[t] EXCEPT ![d] = w] \in Wrappers
    BY <1>1, <2>2 DEF ShapeInv, Wrappers
  <2>5. [thr[t] EXCEPT !.pc = "exec"] \in Control
    BY <1>1, NewPc DEF Access
  <2>6. ShapeInv'
    BY <1>1, <1>3, <2>1, <2>4, <2>5 DEF ShapeInv
  <2>7. thr'[t].frames = thr[t].frames /\ thr'[t].pc = "exec" /\ thr'[t].alias = d
    BY <1>1, <1>3 DEF ShapeInv, Control, d
  <2>8. wrapper'[t][d] = w /\ \A x \in Dbs \ {d} : wrapper'[t][x] = wrapper[t][x]
    BY <1>1, <2>1 DEF ShapeInv, Wrappers
  <2>9. ThreadOK(thr'[t], ctx'[t], wrapper'[t])
    BY <1>1, <1>2, <2>2, <2>3, <2>7, <2>8 DEF ThreadOK, Access
  <2>10. QED BY <1>1, <1>2, <1>3, <2>1, <2>6, <2>9, StepOf DEF IInv, ShapeInv
<1>4. CASE thr' = [thr EXCEPT ![t] = Ended(thr[t], "fail")] /\ wrapper' = wrapper
           /\ pools' = [pools EXCEPT ![d] =
                IF pools[d].st = "none" THEN [st |-> "new", gen |-> pools[d].gen + 1] ELSE pools[d]]
  <2> DEFINE p == IF pools[d].st = "none" THEN [st |-> "new", gen |-> pools[d].gen + 1] ELSE pools[d]
  <2>1. p \in [st : {"none", "new", "open"}, gen : Nat]
    BY <1>1
  <2> HIDE DEF p
  <2>2. ShapeInv'
    <3>1. pools' \in [Dbs -> [st : {"none", "new", "open"}, gen : Nat]]
      BY <1>1, <1>4, <2>1, PoolsShape DEF p
    <3>2. QED BY <1>1, <1>4, <3>1, EndedControl DEF ShapeInv
  <2>3. thr'[t] = Ended(thr[t], "fail")
    BY <1>1, <1>4 DEF ShapeInv
  <2>4. ThreadOK(thr'[t], ctx'[t], wrapper'[t])
    BY <1>1, <1>2, <1>4, <2>3, EndedControl DEF ThreadOK, Access
  <2>5. QED BY <1>1, <1>2, <1>4, <2>2, <2>4, StepOf DEF IInv, ShapeInv
<1>5. QED BY <1>3, <1>4 DEF GetConn

LEMMA ExecKeeps ==
    ASSUME IInv, NEW t \in Threads, Exec(t)
    PROVE  IInv'
<1> USE DEF handler, ghosts
<1> DEFINE d == thr[t].alias
<1> DEFINE fr == thr[t].frames
<1> DEFINE x == [k |-> "tx", db |-> d, token |-> None]
<1> DEFINE s == IF thr[t].kind = "query" THEN fr ELSE Append(fr, x)
<1> DEFINE q == [Ended(thr[t], "work") EXCEPT !.frames = s]
<1>1. thr[t] \in Control /\ ShapeInv /\ thr[t].pc = "exec" /\ d \in Dbs
      /\ UNCHANGED <<now, settings, pools, ctx, wrapper>>
  BY DEF IInv, ShapeInv, Exec, Control
<1>2. ThreadOK(thr[t], ctx[t], wrapper[t]) /\ d = Cur(ctx[t])
      /\ wrapper[t][d] # NoWrapper /\ wrapper[t][d].name = d /\ fr \in Seq(Frame)
  BY <1>1 DEF IInv, ThreadInv, ThreadOK, Access, StackOK
<1>3. Meant(t) = d /\ (OpenTx(t) # None => OpenTx(t) = d)
  BY <1>2, MeantCurrent, OpenTxCurrent DEF ThreadOK
<1>4. ran' = [ran EXCEPT ![t] = [meant |-> d, on |-> d, tx |-> OpenTx(t)]]
      /\ OpenTx(t) \in Dbs \cup {None}
  BY <1>1, <1>2, <1>3 DEF Exec
<1>5. thr' = [thr EXCEPT ![t] = q]
  BY DEF Exec
<1>6. s \in Seq(Frame) /\ StackOK(s, ctx[t])
  <2>1. CASE thr[t].kind = "query"
    BY <1>2, <2>1 DEF ThreadOK
  <2>2. CASE thr[t].kind # "query"
    <3>1. s = Append(fr, [k |-> "tx", db |-> Cur(ctx[t]), token |-> None])
      BY <1>2, <2>2
    <3>2. StackOK(s, ctx[t])
      BY <1>2, <3>1, PushTx DEF ThreadOK
    <3>3. QED BY <3>2 DEF StackOK
  <2>3. QED BY <2>1, <2>2
<1> HIDE DEF s, d
<1>7. q \in Control /\ q.frames = s /\ q.pc = "work"
  BY <1>1, <1>6, EndedControl DEF Control
<1> HIDE DEF q
<1>8. ShapeInv'
  <2>1. ran' \in [Threads -> [meant : Dbs, on : Dbs \cup {None}, tx : Dbs \cup {None}]]
    BY <1>1, <1>4 DEF ShapeInv
  <2>2. QED BY <1>1, <1>5, <1>7, <2>1 DEF ShapeInv
<1>9. thr'[t] = q
  BY <1>1, <1>5 DEF ShapeInv
<1>10. ThreadOK(thr'[t], ctx'[t], wrapper'[t])
  BY <1>1, <1>2, <1>6, <1>7, <1>9 DEF ThreadOK, Access
<1>11. RanOK(ran'[t])
  BY <1>1, <1>3, <1>4 DEF RanOK, ShapeInv
<1>12. QED BY <1>1, <1>4, <1>5, <1>8, <1>10, <1>11, StepOf DEF IInv, ShapeInv

LEMMA RaiseKeeps ==
    ASSUME IInv, NEW t \in Threads, Raise(t)
    PROVE  IInv'
<1> USE DEF handler, ghosts
<1>1. thr[t] \in Control /\ ShapeInv /\ ThreadOK(thr[t], ctx[t], wrapper[t]) /\ RanOK(ran[t])
  BY DEF IInv, ShapeInv, ThreadInv
<1>2. thr' = [thr EXCEPT ![t].pc = "fail"] /\ UNCHANGED <<now, settings, pools, ctx, wrapper, ran>>
  BY DEF Raise
<1>3. [thr[t] EXCEPT !.pc = "fail"] \in Control
  BY <1>1, NewPc
<1>4. ShapeInv'
  BY <1>1, <1>2, <1>3 DEF ShapeInv
<1>5. thr'[t].frames = thr[t].frames /\ thr'[t].pc = "fail"
  BY <1>1, <1>2 DEF ShapeInv, Control
<1>6. ThreadOK(thr'[t], ctx'[t], wrapper'[t])
  BY <1>1, <1>2, <1>5 DEF ThreadOK, Access
<1>7. QED BY <1>1, <1>2, <1>4, <1>6, StepOf DEF IInv, ShapeInv

\* What the callers of forget_database do to the threads.
LEMMA ForgottenThreads ==
    ASSUME thr \in [Threads -> Control], NEW t \in Threads, NEW d \in Dbs,
           NEW pc \in {"work", "applied", "fail"}, thr' = Forgotten(t, d, pc)
    PROVE  /\ thr' \in [Threads -> Control]
           /\ thr'[t].pc = pc /\ thr'[t].forgot = thr[t].forgot
           /\ \A u \in Threads : /\ thr'[u].frames = thr[u].frames /\ thr'[u].header = thr[u].header
                                  /\ thr'[u].alias = thr[u].alias /\ thr'[u].since = thr[u].since
                                  /\ thr'[u].todo = thr[u].todo
           /\ \A u \in Threads \ {t} :
                 /\ thr'[u].pc = thr[u].pc
                 /\ thr[u].pc = "idle" => thr'[u] = thr[u]
                 /\ thr[u].pc # "idle" => thr'[u].forgot = thr[u].forgot \cup {d}
<1>1. thr' = [u \in Threads |-> thr'[u]]
  BY DEF Forgotten
<1>2. thr'[t] = [thr[t] EXCEPT !.pc = pc]
  BY DEF Forgotten
<1>3. thr[t] \in Control
  OBVIOUS
<1>4. /\ thr'[t] \in Control /\ thr'[t].pc = pc /\ thr'[t].forgot = thr[t].forgot
      /\ thr'[t].frames = thr[t].frames /\ thr'[t].header = thr[t].header
      /\ thr'[t].alias = thr[t].alias /\ thr'[t].since = thr[t].since
      /\ thr'[t].todo = thr[t].todo
  BY <1>2, <1>3 DEF Control
<1>5. ASSUME NEW u \in Threads \ {t}
      PROVE  /\ thr'[u] \in Control /\ thr'[u].pc = thr[u].pc
             /\ thr'[u].frames = thr[u].frames /\ thr'[u].header = thr[u].header
             /\ thr'[u].alias = thr[u].alias /\ thr'[u].since = thr[u].since
             /\ thr'[u].todo = thr[u].todo
             /\ thr[u].pc = "idle" => thr'[u] = thr[u]
             /\ thr[u].pc # "idle" => thr'[u].forgot = thr[u].forgot \cup {d}
  <2>1. thr[u] \in Control
    OBVIOUS
  <2>2. CASE thr[u].pc # "idle"
    <3>1. thr'[u] = [thr[u] EXCEPT !.forgot = thr[u].forgot \cup {d}]
      BY <2>2 DEF Forgotten
    <3>2. thr[u].forgot \cup {d} \in SUBSET Dbs
      BY <2>1 DEF Control
    <3>3. QED BY <2>1, <2>2, <3>1, <3>2 DEF Control
  <2>3. CASE thr[u].pc = "idle"
    <3>1. thr'[u] = thr[u]
      BY <2>3 DEF Forgotten
    <3>2. QED BY <2>1, <2>3, <3>1
  <2>4. QED BY <2>2, <2>3
<1>6. thr' \in [Threads -> Control]
  BY <1>1, <1>4, <1>5
<1>7. QED BY <1>4, <1>5, <1>6

\* The tenant services forget the database their request is on.
LEMMA ServicesForget ==
    ASSUME IInv, NEW t \in Threads, ServiceForgets(t) \/ _reset_lock_timeout(t)
    PROVE  \E d \in Dbs, pc \in {"work", "applied", "fail"} :
             /\ d = Cur(ctx[t]) /\ forget_database(t, d)
             /\ thr' = Forgotten(t, d, pc)
             /\ thr[t].pc \in {"work", "fail"}
             /\ UNCHANGED <<now, lastCheck, lock, ctx, ran, usedAt, orphans, lost>>
<1>1. current_database(t) = Cur(ctx[t]) /\ Cur(ctx[t]) \in Dbs
  BY CurrentIs, CurInDbs DEF IInv, ShapeInv
<1>2. CASE ServiceForgets(t)
  BY <1>1, <1>2 DEF ServiceForgets
<1>3. CASE _reset_lock_timeout(t)
  <2>1. thr[t].pc = "work" \/ thr[t].pc = "fail"
    BY <1>3 DEF _reset_lock_timeout
  <2>2. CASE thr[t].pc = "work"
    BY <1>1, <1>3, <2>2 DEF _reset_lock_timeout
  <2>3. CASE thr[t].pc = "fail"
    BY <1>1, <1>3, <2>3 DEF _reset_lock_timeout
  <2>4. QED BY <2>1, <2>2, <2>3
<1>4. QED BY <1>2, <1>3

\* The middleware's own block stays the first of a unit of work it selected a
\* database for.
FirstOK(p) == p.header # NoHeader => Len(p.frames) > 0 /\ p.frames[1].k = "use"

FirstInv == \A t \in Threads : FirstOK(thr[t])

\* The services call forget_database where no atomic() of the thread is open:
\* outside of every block, or in a single use_database().
LEMMA NoTransaction ==
    ASSUME IInv, FirstInv, NEW t \in Threads, ServiceForgets(t) \/ _reset_lock_timeout(t)
    PROVE  NoneOf(thr[t].frames, "tx", Len(thr[t].frames))
<1> DEFINE fr == thr[t].frames
<1>1. fr \in Seq(Frame) /\ FirstOK(thr[t])
  BY DEF IInv, ThreadInv, ThreadOK, StackOK, FirstInv
<1>2. \A i \in 1..Len(fr) : fr[i].k = "use"
  <2>1. CASE ServiceForgets(t)
    <3>1. Len(fr) = 0 \/ (thr[t].header # NoHeader /\ Len(fr) = 1)
      BY <1>1, <2>1 DEF ServiceForgets, OwnFrames
    <3>2. QED BY <1>1, <3>1 DEF FirstOK
  <2>2. CASE _reset_lock_timeout(t)
    <3>1. fr[Len(fr)].k = "use"
      BY <2>2 DEF _reset_lock_timeout, Top
    <3>2. Len(fr) = 1 \/ (thr[t].header # NoHeader /\ Len(fr) = 2)
      BY <1>1, <2>2 DEF _reset_lock_timeout, OwnFrames
    <3>3. CASE Len(fr) = 1
      BY <3>1, <3>3
    <3>4. CASE thr[t].header # NoHeader /\ Len(fr) = 2
      <4>1. \A i \in 1..Len(fr) : i = Len(fr) \/ i = 1
        BY <3>4
      <4>2. QED BY <1>1, <3>1, <3>4, <4>1 DEF FirstOK
    <3>5. QED BY <3>2, <3>3, <3>4
  <2>3. QED BY <2>1, <2>2
<1>3. QED BY <1>2 DEF NoneOf

\* A database forgotten outside of every transaction takes no connection away
\* from one; the wrappers of the other threads stay.
LEMMA ForgetKeeps ==
    ASSUME IInv, FirstInv, NEW t \in Threads, ServiceForgets(t) \/ _reset_lock_timeout(t)
    PROVE  IInv'
<1> USE DEF handler, ghosts
<1>0. PICK d \in Dbs, pc \in {"work", "applied", "fail"} :
        /\ forget_database(t, d) /\ thr' = Forgotten(t, d, pc)
        /\ UNCHANGED <<now, ctx, ran>>
  BY ServicesForget
<1>1. ShapeInv /\ ThreadOK(thr[t], ctx[t], wrapper[t]) /\ RanOK(ran[t])
      /\ UNCHANGED <<now, ctx, ran>>
  BY <1>0 DEF IInv, ThreadInv
<1>2. wrapper' = [wrapper EXCEPT ![t] = [wrapper[t] EXCEPT ![d] = NoWrapper]]
      /\ settings' = [settings EXCEPT ![d] = None]
      /\ pools' = [pools EXCEPT ![d].st = "none"]
  BY <1>0 DEF forget_database
<1>3. thr \in [Threads -> Control]
  BY <1>1 DEF ShapeInv
<1>4. /\ thr' \in [Threads -> Control] /\ thr'[t].pc = pc
      /\ \A u \in Threads : thr'[u].frames = thr[u].frames /\ thr'[u].alias = thr[u].alias
      /\ \A u \in Threads \ {t} : thr'[u].pc = thr[u].pc
  BY <1>0, <1>1, <1>3, ForgottenThreads
<1>6. wrapper' \in [Threads -> Wrappers]
  <2>1. NoWrapper \in [name : Dbs \cup {None}, conn : Nat]
    BY DEF NoWrapper
  <2>2. [wrapper[t] EXCEPT ![d] = NoWrapper] \in Wrappers
    BY <1>1, <2>1 DEF ShapeInv, Wrappers
  <2>3. QED BY <1>1, <1>2, <2>2 DEF ShapeInv
<1>7. pools' \in [Dbs -> [st : {"none", "new", "open"}, gen : Nat]]
  BY <1>1, <1>2 DEF ShapeInv
<1>8. ShapeInv'
  BY <1>1, <1>2, <1>4, <1>6, <1>7 DEF ShapeInv
<1>9. \A y \in Dbs : settings'[y] \in {None, y}
  BY <1>1, <1>2 DEF IInv, ShapeInv
<1>10. wrapper'[t][d] = NoWrapper /\ (\A y \in Dbs \ {d} : wrapper'[t][y] = wrapper[t][y])
       /\ \A u \in Threads \ {t} : wrapper'[u] = wrapper[u]
  BY <1>1, <1>2 DEF ShapeInv, Wrappers
<1>11. NoneOf(thr'[t].frames, "tx", Len(thr'[t].frames))
  BY <1>4, NoTransaction
<1>12. thr'[t].pc \notin {"lookup"} \cup Access
  BY <1>4 DEF Access
<1>13. ThreadOK(thr'[t], ctx'[t], wrapper'[t])
  BY <1>1, <1>4, <1>10, <1>11, <1>12 DEF ThreadOK
<1>14. QED BY <1>1, <1>4, <1>8, <1>9, <1>10, <1>13, StepOf

\* A pool that opens without an access through the handler.
LEMMA ReadKeeps ==
    ASSUME IInv, NEW t \in Threads, ReadApplied(t)
    PROVE  IInv'
<1> USE DEF handler, ghosts
<1>1. ShapeInv /\ ThreadOK(thr[t], ctx[t], wrapper[t]) /\ RanOK(ran[t]) /\ thr[t] \in Control
      /\ ctx[t] \in Dbs \cup {None} /\ UNCHANGED <<now, settings, ctx, wrapper>>
  BY DEF IInv, ShapeInv, ThreadInv, ReadApplied
<1>2. PICK d \in Dbs : d = current_database(t) /\ d = Cur(ctx[t])
  BY <1>1, CurrentIs, CurInDbs
<1> DEFINE g == IF pools[d].st = "none" THEN pools[d].gen + 1 ELSE pools[d].gen
<1>3. pools' \in [Dbs -> [st : {"none", "new", "open"}, gen : Nat]]
  <2>1. pools' = [pools EXCEPT ![d] = [st |-> "open", gen |-> g]]
    BY <1>1, <1>2 DEF ReadApplied, ShapeInv
  <2>2. [st |-> "open", gen |-> g] \in [st : {"none", "new", "open"}, gen : Nat]
    BY <1>1, <1>2 DEF ShapeInv
  <2> HIDE DEF g
  <2>3. QED BY <1>1, <2>1, <2>2, PoolsShape
<1>4. PICK pc \in {"work", "fail"} : thr' = [thr EXCEPT ![t] = [thr[t] EXCEPT !.pc = pc]]
  BY DEF ReadApplied
<1>5. Meant(t) = d /\ (OpenTx(t) # None => OpenTx(t) = d) /\ OpenTx(t) \in Dbs \cup {None}
  BY <1>1, <1>2, MeantCurrent, OpenTxCurrent DEF ThreadOK
<1>6. ran' = ran \/ ran' = [ran EXCEPT ![t] = [meant |-> d, on |-> d, tx |-> OpenTx(t)]]
  BY <1>2, <1>5 DEF ReadApplied
<1>7. ran' \in [Threads -> [meant : Dbs, on : Dbs \cup {None}, tx : Dbs \cup {None}]]
      /\ RanOK(ran'[t]) /\ \A u \in Threads \ {t} : ran'[u] = ran[u]
  BY <1>1, <1>5, <1>6 DEF ShapeInv, RanOK
<1>8. [thr[t] EXCEPT !.pc = pc] \in Control
  BY <1>1, NewPc
<1>9. ShapeInv'
  BY <1>1, <1>3, <1>4, <1>7, <1>8 DEF ShapeInv
<1>10. thr'[t].frames = thr[t].frames /\ thr'[t].pc \in {"work", "fail"}
       /\ \A u \in Threads \ {t} : thr'[u] = thr[u]
  BY <1>1, <1>4 DEF ShapeInv, Control
<1>11. ThreadOK(thr'[t], ctx'[t], wrapper'[t])
  BY <1>1, <1>10 DEF ThreadOK, Access
<1>12. QED BY <1>1, <1>7, <1>9, <1>10, <1>11, StepOf DEF IInv

LEMMA FirstStep ==
    ASSUME FirstInv, NEW t \in Threads, FirstOK(thr'[t]),
           \A u \in Threads \ {t} : thr'[u] = thr[u]
    PROVE  FirstInv'
  BY DEF FirstInv

\* A thread's blocks are left alone, one is entered, or one it entered is left.
LEMMA FirstKept ==
    ASSUME IInv, FirstInv, NEW t \in Threads, NEW q, thr' = [thr EXCEPT ![t] = q],
           q.header = thr[t].header,
           \/ q.frames = thr[t].frames
           \/ \E x \in Frame : q.frames = Append(thr[t].frames, x)
           \/ OwnFrames(t) > 0 /\ q.frames = SubSeq(thr[t].frames, 1, Len(thr[t].frames) - 1)
    PROVE  FirstInv'
<1> DEFINE fr == thr[t].frames
<1>1. fr \in Seq(Frame) /\ FirstOK(thr[t]) /\ thr'[t] = q /\ \A u \in Threads \ {t} : thr'[u] = thr[u]
  BY DEF IInv, ShapeInv, ThreadInv, ThreadOK, StackOK, FirstInv
<1>2. ASSUME q.header # NoHeader PROVE Len(q.frames) > 0 /\ q.frames[1].k = "use"
  <2>1. Len(fr) > 0 /\ fr[1].k = "use" /\ Len(fr) \in Nat
    BY <1>1, <1>2 DEF FirstOK
  <2>2. CASE q.frames = fr
    BY <2>1, <2>2
  <2>3. ASSUME NEW x \in Frame, q.frames = Append(fr, x)
        PROVE  Len(q.frames) > 0 /\ q.frames[1].k = "use"
    BY <1>1, <2>1, <2>3
  <2>4. CASE OwnFrames(t) > 0 /\ q.frames = SubSeq(fr, 1, Len(fr) - 1)
    <3>1. Len(fr) - 1 > 0
      BY <1>2, <2>4 DEF OwnFrames
    <3>2. QED BY <1>1, <2>1, <2>4, <3>1
  <2>5. QED BY <2>2, <2>3, <2>4
<1>3. QED BY <1>1, <1>2, FirstStep DEF FirstOK

LEMMA FirstBlocks ==
    ASSUME IInv, FirstInv, NEW t \in Threads,
           \/ \E h \in Dbs \cup Refused \cup {NoHeader} : Request(t, h)
           \/ \E d \in Dbs : use_database(t, d)
           \/ Leave(t) \/ EndAtomic(t) \/ Finish(t) \/ Exec(t)
    PROVE  FirstInv'
<1>1. thr \in [Threads -> Control] /\ thr[t] \in Control /\ ctx[t] \in Dbs \cup {None}
  BY DEF IInv, ShapeInv
<1>2. ASSUME NEW h \in Dbs \cup Refused \cup {NoHeader}, Request(t, h) PROVE FirstInv'
  <2>1. CASE thr' = thr
    BY <2>1 DEF FirstInv
  <2>2. CASE thr' = [thr EXCEPT ![t] = [Stopped EXCEPT !.pc = "work"]]
    <3>1. thr'[t].header = NoHeader
      BY <1>1, <2>2 DEF Stopped
    <3>2. QED BY <1>1, <2>2, <3>1, FirstStep DEF FirstOK
  <2>3. CASE h \in Dbs /\ thr' = [thr EXCEPT ![t] =
                [Stopped EXCEPT !.pc = "work", !.header = h,
                                !.frames = <<[k |-> "use", db |-> h, token |-> None]>>]]
    <3>1. thr'[t].frames = <<[k |-> "use", db |-> h, token |-> None]>>
      BY <1>1, <2>3 DEF Stopped
    <3>2. FirstOK(thr'[t])
      BY <3>1 DEF FirstOK
    <3>3. QED BY <1>1, <2>3, <3>2, FirstStep
  <2>4. QED BY <1>2, <2>1, <2>2, <2>3 DEF Request
<1>3. ASSUME NEW d \in Dbs, use_database(t, d) PROVE FirstInv'
  <2> DEFINE x == [k |-> "use", db |-> d, token |-> ctx[t]]
  <2>1. x \in Frame
    BY <1>1 DEF Frame
  <2>2. CASE thr' = [thr EXCEPT ![t] = [thr[t] EXCEPT !.frames = Append(thr[t].frames, x)]]
    <3> DEFINE q == [thr[t] EXCEPT !.frames = Append(thr[t].frames, x)]
    <3>1. q.header = thr[t].header /\ q.frames = Append(thr[t].frames, x)
      BY <1>1 DEF Control
    <3> HIDE DEF q
    <3>2. QED BY <2>1, <2>2, <3>1, FirstKept DEF q
  <2>3. CASE thr' = [thr EXCEPT ![t] = [thr[t] EXCEPT !.pc = "fail"]]
    <3> DEFINE q == [thr[t] EXCEPT !.pc = "fail"]
    <3>1. q.header = thr[t].header /\ q.frames = thr[t].frames
      BY <1>1 DEF Control
    <3> HIDE DEF q
    <3>2. QED BY <2>3, <3>1, FirstKept DEF q
  <2>4. QED BY <1>3, <2>2, <2>3 DEF use_database, Enter
<1>4. CASE Leave(t) \/ EndAtomic(t)
  <2> DEFINE s == SubSeq(thr[t].frames, 1, Len(thr[t].frames) - 1)
  <2> DEFINE q == [thr[t] EXCEPT !.frames = s]
  <2>1. thr' = [thr EXCEPT ![t] = q] /\ OwnFrames(t) > 0
    BY <1>4 DEF Leave, EndAtomic
  <2> HIDE DEF s
  <2>2. q.header = thr[t].header /\ q.frames = s
    BY <1>1 DEF Control
  <2> HIDE DEF q
  <2>3. QED BY <2>1, <2>2, FirstKept DEF s
<1>5. CASE Finish(t)
  <2>1. thr' = [thr EXCEPT ![t] = Stopped]
    BY <1>5 DEF Finish
  <2>2. thr'[t].header = NoHeader
    BY <1>1, <2>1 DEF Stopped
  <2>3. QED BY <1>1, <2>1, <2>2, FirstStep DEF FirstOK
<1>6. CASE Exec(t)
  <2> DEFINE x == [k |-> "tx", db |-> thr[t].alias, token |-> None]
  <2> DEFINE s == IF thr[t].kind = "query" THEN thr[t].frames ELSE Append(thr[t].frames, x)
  <2> DEFINE q == [Ended(thr[t], "work") EXCEPT !.frames = s]
  <2>1. thr' = [thr EXCEPT ![t] = q]
    BY <1>6 DEF Exec
  <2>2. x \in Frame
    BY <1>1 DEF Frame, Control
  <2>3. s = thr[t].frames \/ s = Append(thr[t].frames, x)
    OBVIOUS
  <2> HIDE DEF s
  <2>4. q.header = thr[t].header /\ q.frames = s
    BY <1>1 DEF Control, Ended
  <2> HIDE DEF q, x
  <2>5. QED BY <2>1, <2>2, <2>3, <2>4, FirstKept
<1>7. QED BY <1>2, <1>3, <1>4, <1>5, <1>6

LEMMA FirstElsewhere ==
    ASSUME IInv, FirstInv, NEW t \in Threads,
           \/ \E kind \in {"query", "atomic"} : Lookup(t, kind)
           \/ GetItem(t) \/ Touch(t) \/ EvictLook(t) \/ EvictClose(t) \/ EvictDone(t)
           \/ OpenPool(t) \/ GetConn(t) \/ Raise(t) \/ ReadApplied(t)
    PROVE  FirstInv'
<1>1. thr \in [Threads -> Control] /\ thr[t] \in Control
  BY DEF IInv, ShapeInv
<1> DEFINE Same(q) == q.header = thr[t].header /\ q.frames = thr[t].frames
<1>2. SUFFICES \E q : thr' = [thr EXCEPT ![t] = q] /\ Same(q)
  BY FirstKept
<1>3. \A pc : Same([thr[t] EXCEPT !.pc = pc]) /\ Same(Ended(thr[t], pc))
  BY <1>1 DEF Control, Ended
<1>4. ASSUME NEW kind \in {"query", "atomic"}, Lookup(t, kind)
      PROVE  \E q : thr' = [thr EXCEPT ![t] = q] /\ Same(q)
  <2> DEFINE q == [thr[t] EXCEPT !.pc = "lookup", !.kind = kind, !.alias = current_database(t),
                                 !.since = now]
  <2>1. thr' = [thr EXCEPT ![t] = q]
    BY <1>4 DEF Lookup
  <2>2. Same(q)
    BY <1>1 DEF Control
  <2> HIDE DEF q
  <2>3. QED BY <2>1, <2>2
<1>5. CASE GetItem(t) \/ GetConn(t) \/ Raise(t) \/ OpenPool(t) \/ ReadApplied(t) \/ EvictDone(t)
  <2>1. PICK pc : thr' = [thr EXCEPT ![t] = [thr[t] EXCEPT !.pc = pc]]
                  \/ thr' = [thr EXCEPT ![t] = Ended(thr[t], pc)]
    BY <1>5 DEF GetItem, GetConn, Raise, OpenPool, ReadApplied, EvictDone
  <2> DEFINE q1 == [thr[t] EXCEPT !.pc = pc]
  <2> DEFINE q2 == Ended(thr[t], pc)
  <2>2. thr' = [thr EXCEPT ![t] = q1] \/ thr' = [thr EXCEPT ![t] = q2]
    BY <2>1
  <2>3. Same(q1) /\ Same(q2)
    BY <1>3
  <2> HIDE DEF q1, q2
  <2>4. QED BY <2>2, <2>3
<1>6. CASE Touch(t)
  <2> DEFINE td == {p \in Dbs : pools[p].st # "none"}
  <2> DEFINE q == [thr[t] EXCEPT !.pc = "evict", !.todo = td]
  <2> DEFINE pc == IF Connected(t) THEN "exec" ELSE "open"
  <2> DEFINE q1 == [thr[t] EXCEPT !.pc = pc]
  <2>1. thr' = [thr EXCEPT ![t] = q] \/ thr' = [thr EXCEPT ![t] = q1]
    BY <1>6 DEF Touch
  <2> HIDE DEF td, pc
  <2>2. Same(q) /\ Same(q1)
    BY <1>1 DEF Control
  <2> HIDE DEF q, q1
  <2>3. QED BY <2>1, <2>2
<1>7. CASE EvictLook(t)
  <2>1. PICK d \in thr[t].todo : EvictNext(t, d)
    BY <1>7 DEF EvictLook
  <2> DEFINE q1 == [thr[t] EXCEPT !.pc = "close", !.victim = d]
  <2> DEFINE q2 == [thr[t] EXCEPT !.todo = thr[t].todo \ {d}]
  <2>2. thr' = [thr EXCEPT ![t] = q1] \/ thr' = [thr EXCEPT ![t] = q2]
    BY <2>1 DEF EvictNext
  <2>3. Same(q1) /\ Same(q2)
    BY <1>1 DEF Control
  <2> HIDE DEF q1, q2
  <2>4. QED BY <2>2, <2>3
<1>8. CASE EvictClose(t)
  <2> DEFINE q == [thr[t] EXCEPT !.pc = "evict", !.todo = thr[t].todo \ {thr[t].victim},
                                 !.victim = None]
  <2>1. thr' = [thr EXCEPT ![t] = q]
    BY <1>8 DEF EvictClose
  <2>2. Same(q)
    BY <1>1 DEF Control
  <2> HIDE DEF q
  <2>3. QED BY <2>1, <2>2
<1>9. QED BY <1>4, <1>5, <1>6, <1>7, <1>8

LEMMA FirstForget ==
    ASSUME IInv, FirstInv, NEW t \in Threads, ServiceForgets(t) \/ _reset_lock_timeout(t)
    PROVE  FirstInv'
<1>1. PICK d \in Dbs, pc \in {"work", "applied", "fail"} : thr' = Forgotten(t, d, pc)
  BY ServicesForget
<1>2. thr \in [Threads -> Control]
  BY DEF IInv, ShapeInv
<1>3. \A u \in Threads : thr'[u].frames = thr[u].frames /\ thr'[u].header = thr[u].header
  BY <1>1, <1>2, ForgottenThreads
<1>4. QED BY <1>3 DEF FirstInv, FirstOK

LEMMA FirstStart == Init => FirstInv
  BY DEF Init, FirstInv, FirstOK, Stopped

LEMMA FirstInductive == IInv /\ FirstInv /\ [Next]_vars => FirstInv'
<1> SUFFICES ASSUME IInv, FirstInv, [Next]_vars PROVE FirstInv'
  OBVIOUS
<1>1. CASE Tick \/ UNCHANGED vars
  BY <1>1 DEF Tick, vars, FirstInv
<1>2. ASSUME NEW t \in Threads,
             \/ \E h \in Dbs \cup Refused \cup {NoHeader} : Request(t, h)
             \/ \E d \in Dbs : use_database(t, d)
             \/ \E kind \in {"query", "atomic"} : Lookup(t, kind)
             \/ Leave(t) \/ Finish(t) \/ GetItem(t) \/ Touch(t)
             \/ EvictLook(t) \/ EvictClose(t) \/ EvictDone(t)
             \/ OpenPool(t) \/ GetConn(t) \/ Exec(t) \/ EndAtomic(t) \/ Raise(t)
             \/ ServiceForgets(t) \/ _reset_lock_timeout(t) \/ ReadApplied(t)
      PROVE  FirstInv'
  BY <1>2, FirstBlocks, FirstElsewhere, FirstForget
<1>3. QED BY <1>1, <1>2 DEF Next

LEMMA Inductive == IInv /\ FirstInv /\ [Next]_vars => IInv'
<1> SUFFICES ASSUME IInv, FirstInv, [Next]_vars PROVE IInv'
  OBVIOUS
<1>1. ASSUME UNCHANGED <<settings, pools, ctx, wrapper, thr, ran>>, now' \in Nat
      PROVE  IInv'
  <2>1. ShapeInv'
    BY <1>1 DEF IInv, ShapeInv
  <2>2. \A t \in Threads : ThreadInv(t)'
    BY <1>1 DEF IInv, ThreadInv
  <2>3. QED BY <1>1, <2>1, <2>2 DEF IInv
<1>2. CASE Tick
  BY <1>1, <1>2 DEF Tick, handler, ghosts, IInv, ShapeInv
<1>3. CASE UNCHANGED vars
  BY <1>1, <1>3 DEF vars, handler, ghosts, IInv, ShapeInv
<1>4. ASSUME NEW t \in Threads,
             \/ \E h \in Dbs \cup Refused \cup {NoHeader} : Request(t, h)
             \/ \E d \in Dbs : use_database(t, d)
             \/ \E kind \in {"query", "atomic"} : Lookup(t, kind)
             \/ Leave(t) \/ Finish(t) \/ GetItem(t) \/ Touch(t)
             \/ EvictLook(t) \/ EvictClose(t) \/ EvictDone(t)
             \/ OpenPool(t) \/ GetConn(t) \/ Exec(t) \/ EndAtomic(t) \/ Raise(t)
             \/ ServiceForgets(t) \/ _reset_lock_timeout(t) \/ ReadApplied(t)
      PROVE  IInv'
  BY <1>4, RequestKeeps, UseKeeps, ForgetKeeps, LookupKeeps, LeaveKeeps, FinishKeeps,
     GetItemKeeps, TouchKeeps, EvictionKeeps, OpenPoolKeeps, GetConnKeeps, ExecKeeps,
     EndAtomicKeeps, RaiseKeeps, ReadKeeps
<1>5. QED BY <1>2, <1>3, <1>4 DEF Next

LEMMA Invariance == Spec => []IInv
  BY Start, FirstStart, Inductive, FirstInductive, PTL DEF Spec

\* Every statement and every end of a transaction runs on the database of the
\* innermost use_database() around it, for any number of threads, databases and
\* nested blocks, evictions and forgotten databases: use_database, __getitem__
\* and _add_database together.
THEOREM StatementsAtHome == Spec => []OnItsOwnDatabase
<1>1. IInv => OnItsOwnDatabase
  BY DEF IInv, ThreadInv, RanOK, OnItsOwnDatabase
<1>2. QED BY <1>1, Invariance, PTL

\* A statement inside atomic() is covered by the open transaction, however the
\* blocks nest and whoever forgets the database: use_database() refuses to switch
\* inside one, and a thread forgets its own database only where none is open.
THEOREM TransactionsCover == Spec => []AtomicCovers
<1>1. IInv => AtomicCovers
  <2> SUFFICES ASSUME IInv, NEW t \in Threads
               PROVE  /\ ran[t].tx # None => ran[t].on = ran[t].tx
                      /\ \A i \in DOMAIN thr[t].frames :
                           thr[t].frames[i].k = "tx" => wrapper[t][thr[t].frames[i].db] # NoWrapper
    BY DEF AtomicCovers
  <2> DEFINE fr == thr[t].frames
  <2>1. StackOK(fr, ctx[t]) /\ fr \in Seq(Frame) /\ RanOK(ran[t])
        /\ (~NoneOf(fr, "tx", Len(fr)) => wrapper[t][Cur(ctx[t])] # NoWrapper)
    BY DEF IInv, ThreadInv, ThreadOK, StackOK
  <2>2. ASSUME NEW i \in DOMAIN fr, fr[i].k = "tx"
        PROVE  wrapper[t][fr[i].db] # NoWrapper
    <3>1. i \in 1..Len(fr)
      BY <2>1
    <3>2. ~NoneOf(fr, "tx", Len(fr))
      BY <2>2, <3>1 DEF NoneOf
    <3>3. fr[i].db = Cur(ctx[t])
      BY <2>1, <2>2, <3>1, TxCurrent
    <3>4. QED BY <2>1, <3>2, <3>3
  <2>3. QED BY <2>1, <2>2 DEF RanOK
<1>2. QED BY <1>1, Invariance, PTL

-----------------------------------------------------------------------------
(* Connections go back to their pools *)

\* What holds of the wrappers w of a thread with control state p, where the
\* settings know the aliases in known: the alias of a wrapper is known, unless
\* the database was forgotten during this unit of work; an idle thread has none.
HeldOK(p, w, known) ==
    /\ \A d \in Dbs : w[d] # NoWrapper /\ d \notin known => d \in p.forgot
    /\ p.pc = "idle" => \A d \in Dbs : w[d] = NoWrapper

Known == {d \in Dbs : settings[d] # None}

HeldInv ==
    /\ \A t \in Threads : HeldOK(thr[t], wrapper[t], Known)
    /\ \A x \in lost : x.forgotten

LEMMA HeldStart == Init => HeldInv
<1> SUFFICES ASSUME Init PROVE HeldInv
  OBVIOUS
<1>1. lost = {} /\ \A t \in Threads : \A d \in Dbs : wrapper[t][d] = NoWrapper
  BY DEF Init
<1>2. QED BY <1>1 DEF HeldInv, HeldOK

\* A step of thread t that forgets no database: the other threads keep theirs.
LEMMA HeldStep ==
    ASSUME HeldInv, NEW t \in Threads,
           \A u \in Threads \ {t} : /\ wrapper'[u] = wrapper[u]
                                   /\ thr'[u] = thr[u],
           \A d \in Dbs : settings[d] # None => settings'[d] # None,
           HeldOK(thr'[t], wrapper'[t], Known'),
           \A x \in lost' : x.forgotten
    PROVE  HeldInv'
<1>1. Known \subseteq Known'
  BY DEF Known
<1>2. ASSUME NEW u \in Threads \ {t} PROVE HeldOK(thr'[u], wrapper'[u], Known')
  BY <1>1, <1>2 DEF HeldInv, HeldOK
<1>3. QED BY <1>2 DEF HeldInv

\* Most steps leave the wrappers and the forgotten databases of a thread alone.
LEMMA HeldSame ==
    ASSUME HeldInv, NEW t \in Threads, NEW q,
           thr \in [Threads -> Control], thr' = [thr EXCEPT ![t] = q],
           q.pc # "idle", thr[t].pc = "idle" \/ q.forgot = thr[t].forgot,
           wrapper' = wrapper, lost' = lost,
           \A d \in Dbs : settings[d] # None => settings'[d] # None
    PROVE  HeldInv'
<1>1. thr'[t] = q /\ \A u \in Threads \ {t} : thr'[u] = thr[u]
  OBVIOUS
<1>2. HeldOK(thr[t], wrapper[t], Known) /\ Known \subseteq Known'
  BY DEF HeldInv, Known
<1>3. HeldOK(q, wrapper[t], Known')
  BY <1>2 DEF HeldOK
<1>4. QED BY <1>1, <1>3, HeldStep DEF HeldInv

LEMMA HeldRequest ==
    ASSUME IInv, HeldInv, NEW t \in Threads, NEW h \in Dbs \cup Refused \cup {NoHeader},
           Request(t, h)
    PROVE  HeldInv'
<1> USE DEF handler, ghosts
<1>1. CASE UNCHANGED <<ctx, thr>>
  BY <1>1 DEF Request, HeldInv, HeldOK, Known
<1>2. CASE thr' = [thr EXCEPT ![t] = [Stopped EXCEPT !.pc = "work"]]
  <2> DEFINE q == [Stopped EXCEPT !.pc = "work"]
  <2>1. q.pc = "work"
    BY DEF Stopped
  <2> HIDE DEF q
  <2>2. QED BY <1>2, <2>1, HeldSame DEF Request, IInv, ShapeInv, q
<1>3. CASE thr' = [thr EXCEPT ![t] =
             [Stopped EXCEPT !.pc = "work", !.header = h,
                             !.frames = <<[k |-> "use", db |-> h, token |-> None]>>]]
  <2> DEFINE q == [Stopped EXCEPT !.pc = "work", !.header = h,
                             !.frames = <<[k |-> "use", db |-> h, token |-> None]>>]
  <2>1. q.pc = "work"
    BY DEF Stopped
  <2>2. thr' = [thr EXCEPT ![t] = q]
    BY <1>3
  <2> HIDE DEF q
  <2>3. QED BY <2>1, <2>2, HeldSame DEF Request, IInv, ShapeInv
<1>4. QED BY <1>1, <1>2, <1>3 DEF Request

LEMMA HeldUse ==
    ASSUME IInv, HeldInv, NEW t \in Threads, NEW d \in Dbs, use_database(t, d)
    PROVE  HeldInv'
<1> USE DEF handler, ghosts
<1>1. thr[t] \in Control /\ thr \in [Threads -> Control] /\ thr[t].pc = "work"
      /\ UNCHANGED <<settings, wrapper, lost>>
  BY DEF use_database, IInv, ShapeInv
<1>2. CASE SwitchAllowed(t, d)
  <2> DEFINE q == [thr[t] EXCEPT !.frames = Append(@, [k |-> "use", db |-> d, token |-> ctx[t]])]
  <2>1. thr' = [thr EXCEPT ![t] = q]
    BY <1>1, <1>2 DEF use_database, Enter
  <2>2. q.pc = "work" /\ q.forgot = thr[t].forgot
    BY <1>1 DEF Control
  <2> HIDE DEF q
  <2>3. QED BY <1>1, <2>1, <2>2, HeldSame
<1>3. CASE ~SwitchAllowed(t, d)
  <2> DEFINE q == [thr[t] EXCEPT !.pc = "fail"]
  <2>1. thr' = [thr EXCEPT ![t] = q]
    BY <1>1, <1>3 DEF use_database
  <2>2. q.pc = "fail" /\ q.forgot = thr[t].forgot
    BY <1>1 DEF Control
  <2> HIDE DEF q
  <2>3. QED BY <1>1, <2>1, <2>2, HeldSame
<1>4. QED BY <1>2, <1>3

LEMMA HeldQuiet ==
    ASSUME IInv, HeldInv, NEW t \in Threads, Leave(t) \/ Raise(t) \/ EndAtomic(t)
    PROVE  HeldInv'
<1> USE DEF handler, ghosts
<1>1. thr[t] \in Control /\ thr \in [Threads -> Control] /\ thr[t].pc \in {"work", "fail"}
      /\ UNCHANGED <<wrapper, lost>>
  BY DEF Leave, Raise, EndAtomic, IInv, ShapeInv
<1>2. \A d \in Dbs : settings[d] # None => settings'[d] # None
  BY DEF Leave, Raise, EndAtomic, IInv, ShapeInv
<1>3. PICK q : /\ thr' = [thr EXCEPT ![t] = q]
               /\ q.pc \in {"work", "fail"} /\ q.forgot = thr[t].forgot
  <2>1. CASE Raise(t)
    <3> DEFINE q == [thr[t] EXCEPT !.pc = "fail"]
    <3>1. thr' = [thr EXCEPT ![t] = q]
      BY <1>1, <2>1 DEF Raise
    <3>2. q.pc = "fail" /\ q.forgot = thr[t].forgot
      BY <1>1 DEF Control
    <3> HIDE DEF q
    <3>3. QED BY <3>1, <3>2
  <2>2. CASE Leave(t) \/ EndAtomic(t)
    <3> DEFINE s == SubSeq(thr[t].frames, 1, Len(thr[t].frames) - 1)
    <3> DEFINE q == [thr[t] EXCEPT !.frames = s]
    <3>1. thr' = [thr EXCEPT ![t] = q]
      BY <1>1, <2>2 DEF Leave, EndAtomic
    <3>2. q.pc = thr[t].pc /\ q.forgot = thr[t].forgot
      BY <1>1 DEF Control
    <3> HIDE DEF q
    <3>3. QED BY <1>1, <3>1, <3>2
  <2>3. QED BY <2>1, <2>2
<1>4. QED BY <1>1, <1>2, <1>3, HeldSame

\* The steps of an access that change no wrapper.
LEMMA HeldAccess ==
    ASSUME IInv, HeldInv, NEW t \in Threads,
           \/ \E kind \in {"query", "atomic"} : Lookup(t, kind)
           \/ Touch(t) \/ EvictLook(t) \/ EvictClose(t) \/ EvictDone(t)
           \/ OpenPool(t) \/ Exec(t)
    PROVE  HeldInv'
<1> USE DEF handler, ghosts
<1>1. thr[t] \in Control /\ thr \in [Threads -> Control] /\ thr[t].pc # "idle"
  BY DEF Lookup, Touch, EvictLook, EvictClose, EvictDone, OpenPool, Exec, IInv, ShapeInv
<1>2. wrapper' = wrapper /\ lost' = lost
  BY DEF Lookup, Touch, EvictLook, EvictClose, EvictDone, OpenPool, Exec
<1>3. \A d \in Dbs : settings[d] # None => settings'[d] # None
  BY DEF Lookup, Touch, EvictLook, EvictClose, EvictDone, OpenPool, Exec, IInv, ShapeInv
<1>4. SUFFICES \E q : thr' = [thr EXCEPT ![t] = q] /\ q.pc # "idle" /\ q.forgot = thr[t].forgot
  BY <1>1, <1>2, <1>3, HeldSame
<1>5. CASE \E kind \in {"query", "atomic"} : Lookup(t, kind)
  <2>1. PICK kind \in {"query", "atomic"} : Lookup(t, kind)
    BY <1>5
  <2> DEFINE q == [thr[t] EXCEPT !.pc = "lookup", !.kind = kind, !.alias = current_database(t),
                                 !.since = now]
  <2>2. thr' = [thr EXCEPT ![t] = q]
    BY <1>1, <2>1 DEF Lookup
  <2>3. q.pc = "lookup" /\ q.forgot = thr[t].forgot
    BY <1>1 DEF Control
  <2> HIDE DEF q
  <2>4. QED BY <2>2, <2>3
<1>6. CASE Touch(t) \/ EvictDone(t) \/ OpenPool(t)
  <2> DEFINE q(pc, todo) == [thr[t] EXCEPT !.pc = pc, !.todo = todo]
  <2>1. \E pc \in Access : \E todo : thr' = [thr EXCEPT ![t] = q(pc, todo)]
    <3>1. CASE Touch(t) /\ now - lastCheck >= CheckInterval
      BY <1>1, <3>1 DEF Touch, Access
    <3>2. CASE Touch(t) /\ ~(now - lastCheck >= CheckInterval)
      <4>1. thr' = [thr EXCEPT ![t] = q(IF Connected(t) THEN "exec" ELSE "open", thr[t].todo)]
        BY <1>1, <3>2 DEF Touch, Control
      <4>2. QED BY <4>1 DEF Access
    <3>3. CASE EvictDone(t)
      <4>1. thr' = [thr EXCEPT ![t] = q(IF Connected(t) THEN "exec" ELSE "open", thr[t].todo)]
        BY <1>1, <3>3 DEF EvictDone, Control
      <4>2. QED BY <4>1 DEF Access
    <3>4. CASE OpenPool(t)
      <4>1. thr' = [thr EXCEPT ![t] = q("getconn", thr[t].todo)]
        BY <1>1, <3>4 DEF OpenPool, Control
      <4>2. QED BY <4>1 DEF Access
    <3>5. QED BY <1>6, <3>1, <3>2, <3>3, <3>4
  <2>2. ASSUME NEW pc \in Access, NEW todo
        PROVE  q(pc, todo).pc # "idle" /\ q(pc, todo).forgot = thr[t].forgot
    BY <1>1 DEF Control, Access
  <2> HIDE DEF q
  <2>3. QED BY <2>1, <2>2
<1>7. CASE EvictLook(t) \/ EvictClose(t)
  <2> DEFINE q(pc, todo, victim) == [thr[t] EXCEPT !.pc = pc, !.todo = todo, !.victim = victim]
  <2>1. \E pc \in Access : \E todo, victim : thr' = [thr EXCEPT ![t] = q(pc, todo, victim)]
    <3>1. CASE EvictClose(t)
      BY <1>1, <3>1 DEF EvictClose, Access
    <3>2. CASE EvictLook(t)
      <4>1. PICK d \in thr[t].todo : EvictNext(t, d)
        BY <3>2 DEF EvictLook
      <4>2. CASE Evictable(t, d)
        <5>1. thr' = [thr EXCEPT ![t] = q("close", thr[t].todo, d)]
          BY <1>1, <4>1, <4>2 DEF EvictNext, Control
        <5>2. QED BY <5>1 DEF Access
      <4>3. CASE ~Evictable(t, d)
        <5>1. thr' = [thr EXCEPT ![t] = q("evict", thr[t].todo \ {d}, thr[t].victim)]
          <6>1. thr' = [thr EXCEPT ![t] = [thr[t] EXCEPT !.todo = thr[t].todo \ {d}]]
            BY <1>1, <4>1, <4>3 DEF EvictNext
          <6>2. q("evict", thr[t].todo \ {d}, thr[t].victim)
                  = [thr[t] EXCEPT !.todo = thr[t].todo \ {d}]
            BY <1>1, <3>2 DEF EvictLook, Control
          <6>3. QED BY <6>1, <6>2
        <5>2. QED BY <5>1 DEF Access
      <4>4. QED BY <4>2, <4>3
    <3>3. QED BY <1>7, <3>1, <3>2
  <2>2. ASSUME NEW pc \in Access, NEW todo, NEW victim
        PROVE  /\ q(pc, todo, victim).pc # "idle"
               /\ q(pc, todo, victim).forgot = thr[t].forgot
    BY <1>1 DEF Control, Access
  <2> HIDE DEF q
  <2>3. PICK pc \in Access : \E todo, victim : thr' = [thr EXCEPT ![t] = q(pc, todo, victim)]
    BY <2>1
  <2>4. PICK todo, victim : thr' = [thr EXCEPT ![t] = q(pc, todo, victim)]
    BY <2>3
  <2>5. QED BY <2>2, <2>4
<1>8. CASE Exec(t)
  <2> DEFINE fr == IF thr[t].kind = "query" THEN thr[t].frames
                   ELSE Append(thr[t].frames, [k |-> "tx", db |-> thr[t].alias, token |-> None])
  <2> DEFINE q == [Ended(thr[t], "work") EXCEPT !.frames = fr]
  <2>1. thr' = [thr EXCEPT ![t] = q]
    BY <1>8 DEF Exec
  <2> HIDE DEF fr
  <2>2. q.pc = "work" /\ q.forgot = thr[t].forgot
    BY <1>1 DEF Control, Ended
  <2> HIDE DEF q
  <2>3. QED BY <2>1, <2>2
<1>9. QED BY <1>5, <1>6, <1>7, <1>8

\* The steps that create a wrapper or connect it.
LEMMA HeldGetItem ==
    ASSUME IInv, HeldInv, NEW t \in Threads, GetItem(t)
    PROVE  HeldInv'
<1> USE DEF handler, ghosts
<1> DEFINE d == thr[t].alias
<1>1. thr[t] \in Control /\ thr \in [Threads -> Control] /\ thr[t].pc = "lookup" /\ d \in Dbs
      /\ UNCHANGED <<settings, lost>> /\ wrapper \in [Threads -> Wrappers]
  BY DEF GetItem, IInv, ShapeInv, Control
<1>2. CASE wrapper[t][d] = NoWrapper /\ settings[d] = None
  <2> DEFINE q == Ended(thr[t], "fail")
  <2>1. thr' = [thr EXCEPT ![t] = q] /\ wrapper' = wrapper
    BY <1>2 DEF GetItem
  <2>2. q.pc = "fail" /\ q.forgot = thr[t].forgot
    BY <1>1 DEF Control, Ended
  <2> HIDE DEF q
  <2>3. QED BY <1>1, <2>1, <2>2, HeldSame
<1>3. CASE ~(wrapper[t][d] = NoWrapper /\ settings[d] = None)
  <2> DEFINE q == [thr[t] EXCEPT !.pc = "touch"]
  <2> DEFINE w == IF wrapper[t][d] = NoWrapper THEN [name |-> settings[d], conn |-> 0]
                  ELSE wrapper[t][d]
  <2>1. thr' = [thr EXCEPT ![t] = q]
        /\ wrapper' = [wrapper EXCEPT ![t] = [wrapper[t] EXCEPT ![d] = w]]
    BY <1>1, <1>3 DEF GetItem
  <2>2. q.pc = "touch" /\ q.forgot = thr[t].forgot
    BY <1>1 DEF Control
  <2>3. wrapper[t][d] # NoWrapper \/ d \in Known
    BY <1>1, <1>3 DEF Known
  <2> HIDE DEF q, w, d
  <2>4. thr'[t] = q /\ (\A u \in Threads \ {t} : thr'[u] = thr[u] /\ wrapper'[u] = wrapper[u])
        /\ \A x \in Dbs \ {d} : wrapper'[t][x] = wrapper[t][x]
    BY <1>1, <2>1 DEF Wrappers
  <2>5. HeldOK(thr[t], wrapper[t], Known) /\ Known' = Known /\ lost' = lost
    BY <1>1 DEF HeldInv, Known
  <2>6. HeldOK(thr'[t], wrapper'[t], Known')
    BY <2>2, <2>3, <2>4, <2>5 DEF HeldOK
  <2>7. QED BY <1>1, <2>4, <2>5, <2>6, HeldStep DEF HeldInv
<1>4. QED BY <1>2, <1>3

LEMMA HeldGetConn ==
    ASSUME IInv, HeldInv, NEW t \in Threads, GetConn(t)
    PROVE  HeldInv'
<1> USE DEF handler, ghosts
<1> DEFINE d == thr[t].alias
<1>1. thr[t] \in Control /\ thr \in [Threads -> Control] /\ thr[t].pc = "getconn" /\ d \in Dbs
      /\ UNCHANGED <<settings, lost>> /\ wrapper \in [Threads -> Wrappers]
  BY DEF GetConn, IInv, ShapeInv, Control
<1>2. CASE thr' = [thr EXCEPT ![t] = Ended(thr[t], "fail")] /\ wrapper' = wrapper
  <2> DEFINE q == Ended(thr[t], "fail")
  <2>1. thr' = [thr EXCEPT ![t] = q] /\ wrapper' = wrapper
    BY <1>2
  <2>2. q.pc = "fail" /\ q.forgot = thr[t].forgot
    BY <1>1 DEF Control, Ended
  <2> HIDE DEF q
  <2>3. QED BY <1>1, <2>1, <2>2, HeldSame
<1>3. CASE wrapper' = [wrapper EXCEPT ![t][d].conn = pools[d].gen]
           /\ thr' = [thr EXCEPT ![t].pc = "exec"]
  <2> DEFINE q == [thr[t] EXCEPT !.pc = "exec"]
  <2> DEFINE w == [wrapper[t][d] EXCEPT !.conn = pools[d].gen]
  <2>1. thr' = [thr EXCEPT ![t] = q]
        /\ wrapper' = [wrapper EXCEPT ![t] = [wrapper[t] EXCEPT ![d] = w]]
    BY <1>1, <1>3
  <2>2. q.pc = "exec" /\ q.forgot = thr[t].forgot
    BY <1>1 DEF Control
  <2>3. wrapper[t][d] # NoWrapper
    BY <1>1 DEF IInv, ThreadInv, ThreadOK, Access
  <2> HIDE DEF q, w, d
  <2>4. thr'[t] = q /\ (\A u \in Threads \ {t} : thr'[u] = thr[u] /\ wrapper'[u] = wrapper[u])
        /\ \A x \in Dbs \ {d} : wrapper'[t][x] = wrapper[t][x]
    BY <1>1, <2>1 DEF Wrappers
  <2>5. HeldOK(thr[t], wrapper[t], Known) /\ Known' = Known /\ lost' = lost
    BY <1>1 DEF HeldInv, Known
  <2>6. HeldOK(thr'[t], wrapper'[t], Known')
    BY <2>2, <2>3, <2>4, <2>5 DEF HeldOK
  <2>7. QED BY <1>1, <2>4, <2>5, <2>6, HeldStep DEF HeldInv
<1>4. QED BY <1>2, <1>3 DEF GetConn

\* The end of a request gives back what it holds of the databases the settings
\* know; what is left was forgotten meanwhile.
LEMMA HeldFinish ==
    ASSUME IInv, HeldInv, NEW t \in Threads, Finish(t)
    PROVE  HeldInv'
<1> USE DEF handler, ghosts
<1> DEFINE left == {d \in Dbs \ Initialized(t, DefaultDb) : wrapper[t][d].conn > 0}
<1>1. thr' = [thr EXCEPT ![t] = Stopped] /\ wrapper' = [wrapper EXCEPT ![t] = [d \in Dbs |-> NoWrapper]]
      /\ thr \in [Threads -> Control] /\ wrapper \in [Threads -> Wrappers]
  BY DEF Finish, IInv, ShapeInv
<1>2. settings' = [d \in Dbs |-> IF d \in Initialized(t, DefaultDb) /\ settings[d] = None
                                 THEN d ELSE settings[d]]
      /\ lost' = lost \cup {[db |-> d, gen |-> wrapper[t][d].conn,
                              forgotten |-> d \in thr[t].forgot] : d \in left}
  BY DEF Finish, AddedEntry
<1>3. HeldOK(thr[t], wrapper[t], Known)
  BY DEF HeldInv
<1>4. ASSUME NEW d \in left PROVE d \in thr[t].forgot
  <2>1. wrapper[t][d] # NoWrapper
    BY <1>1 DEF NoWrapper
  <2>2. d \notin Known
    BY <2>1, TenancyAssumption DEF Initialized, Known
  <2>3. QED BY <1>3, <2>1, <2>2 DEF HeldOK
<1>5. ASSUME NEW x \in lost' PROVE x.forgotten
  <2>1. CASE x \in lost
    BY <2>1 DEF HeldInv
  <2>2. CASE x \notin lost
    <3>1. PICK d \in left : x = [db |-> d, gen |-> wrapper[t][d].conn,
                                 forgotten |-> d \in thr[t].forgot]
      BY <1>2, <2>2
    <3> DEFINE gone == d \in thr[t].forgot
    <3>2. gone /\ x = [db |-> d, gen |-> wrapper[t][d].conn, forgotten |-> gone]
      BY <1>4, <3>1
    <3> HIDE DEF gone
    <3>3. x.forgotten = gone
      BY <3>2
    <3>4. QED BY <3>2, <3>3
  <2>3. QED BY <2>1, <2>2
<1>6. \A d \in Dbs : settings[d] # None => settings'[d] # None
  BY <1>2
<1>7. HeldOK(thr'[t], wrapper'[t], Known')
  <2>1. \A d \in Dbs : wrapper'[t][d] = NoWrapper
    BY <1>1
  <2>2. QED BY <2>1 DEF HeldOK
<1>8. QED BY <1>1, <1>5, <1>6, <1>7, HeldStep

\* A database is forgotten under every unit of work that may hold it.
LEMMA HeldForget ==
    ASSUME IInv, HeldInv, NEW t \in Threads, ServiceForgets(t) \/ _reset_lock_timeout(t)
    PROVE  HeldInv'
<1>0. PICK d \in Dbs, pc \in {"work", "applied", "fail"} :
        /\ forget_database(t, d) /\ thr' = Forgotten(t, d, pc) /\ UNCHANGED lost
        /\ thr[t].pc \in {"work", "fail"}
  BY ServicesForget
<1>1. wrapper' = [wrapper EXCEPT ![t] = [wrapper[t] EXCEPT ![d] = NoWrapper]]
      /\ settings' = [settings EXCEPT ![d] = None] /\ lost' = lost
  BY <1>0 DEF forget_database
<1>2. thr \in [Threads -> Control] /\ wrapper \in [Threads -> Wrappers]
      /\ settings \in [Dbs -> Dbs \cup {None}]
  BY DEF IInv, ShapeInv
<1>3. Known' = Known \ {d}
  BY <1>1, <1>2 DEF Known
<1>4. /\ thr'[t].pc = pc /\ thr'[t].forgot = thr[t].forgot
      /\ \A u \in Threads \ {t} :
            /\ thr'[u].pc = thr[u].pc
            /\ thr[u].pc = "idle" => thr'[u] = thr[u]
            /\ thr[u].pc # "idle" => thr'[u].forgot = thr[u].forgot \cup {d}
  BY <1>0, <1>2, ForgottenThreads
<1>5. ASSUME NEW u \in Threads PROVE HeldOK(thr'[u], wrapper'[u], Known')
  <2>1. HeldOK(thr[u], wrapper[u], Known)
    BY DEF HeldInv
  <2>2. CASE u = t
    <3>1. wrapper'[u][d] = NoWrapper /\ \A x \in Dbs \ {d} : wrapper'[u][x] = wrapper[u][x]
      BY <1>1, <1>2, <2>2 DEF Wrappers
    <3>2. thr'[u].pc # "idle" /\ thr'[u].forgot = thr[u].forgot
      BY <1>4, <2>2
    <3>3. QED BY <1>3, <2>1, <3>1, <3>2 DEF HeldOK
  <2>3. CASE u # t
    <3>1. wrapper'[u] = wrapper[u]
      BY <1>1, <1>2, <2>3
    <3>2. CASE thr[u].pc # "idle"
      BY <1>3, <1>4, <2>1, <2>3, <3>1, <3>2 DEF HeldOK
    <3>3. CASE thr[u].pc = "idle"
      BY <1>4, <2>1, <2>3, <3>1, <3>3 DEF HeldOK
    <3>4. QED BY <3>2, <3>3
  <2>4. QED BY <2>2, <2>3
<1>6. QED BY <1>1, <1>5 DEF HeldInv

\* The wrapper migrate() still holds is not one of connections any more.
LEMMA HeldRead ==
    ASSUME IInv, HeldInv, NEW t \in Threads, ReadApplied(t)
    PROVE  HeldInv'
<1>1. thr \in [Threads -> Control] /\ thr[t] \in Control /\ UNCHANGED <<wrapper, settings>>
  BY DEF IInv, ShapeInv, ReadApplied
<1>2. PICK pc \in {"work", "fail"} : thr' = [thr EXCEPT ![t] = [thr[t] EXCEPT !.pc = pc]]
  BY DEF ReadApplied
<1>3. thr'[t].pc = pc /\ thr'[t].forgot = thr[t].forgot
      /\ \A u \in Threads \ {t} : thr'[u] = thr[u]
  BY <1>1, <1>2 DEF Control
<1>4. \A x \in lost' : x.forgotten
  <2>1. PICK d, g : lost' = lost \/ lost' = lost \cup {[db |-> d, gen |-> g, forgotten |-> TRUE]}
    BY DEF ReadApplied
  <2>2. QED BY <2>1 DEF HeldInv
<1>5. HeldOK(thr'[t], wrapper'[t], Known')
  BY <1>1, <1>3 DEF HeldInv, HeldOK, Known
<1>6. QED BY <1>1, <1>3, <1>4, <1>5, HeldStep

LEMMA HeldInductive == IInv /\ HeldInv /\ [Next]_vars => HeldInv'
<1> SUFFICES ASSUME IInv, HeldInv, [Next]_vars PROVE HeldInv'
  OBVIOUS
<1>1. CASE Tick \/ UNCHANGED vars
  BY <1>1 DEF Tick, vars, handler, ghosts, HeldInv, HeldOK, Known
<1>2. ASSUME NEW t \in Threads,
             \/ \E h \in Dbs \cup Refused \cup {NoHeader} : Request(t, h)
             \/ \E d \in Dbs : use_database(t, d)
             \/ \E kind \in {"query", "atomic"} : Lookup(t, kind)
             \/ Leave(t) \/ Finish(t) \/ GetItem(t) \/ Touch(t)
             \/ EvictLook(t) \/ EvictClose(t) \/ EvictDone(t)
             \/ OpenPool(t) \/ GetConn(t) \/ Exec(t) \/ EndAtomic(t) \/ Raise(t)
             \/ ServiceForgets(t) \/ _reset_lock_timeout(t) \/ ReadApplied(t)
      PROVE  HeldInv'
  BY <1>2, HeldRequest, HeldUse, HeldForget, HeldQuiet, HeldAccess, HeldGetItem, HeldGetConn,
     HeldFinish, HeldRead
<1>3. QED BY <1>1, <1>2 DEF Next

LEMMA HeldInvariance == Spec => []HeldInv
  BY Invariance, HeldStart, HeldInductive, PTL DEF Spec

\* The end of a request gives every connection back to its pool, however many
\* databases it used and whatever the threads look up, evict and forget; only a
\* database forgotten during a request keeps one, of a request that was using it
\* or of the migration that forgot it: the iteration of TenantConnectionHandler
\* over its initialized aliases.
THEOREM ConnectionsGoBack == Spec => []ConnectionsReturned
<1>1. HeldInv => ConnectionsReturned
  BY DEF HeldInv, ConnectionsReturned
<1>2. QED BY <1>1, HeldInvariance, PTL

-----------------------------------------------------------------------------
(* Pools nobody uses are closed *)

Busy == {"lookup"} \cup Access

\* Every pool has a generation, and a time of last use that is the time of the
\* last access through the handler, or none and then the pool is an orphan.
DataInv ==
    /\ now \in Nat /\ lastCheck \in Nat /\ lastCheck <= now
    /\ usedAt \in [Dbs -> Nat] /\ lastUsed \in [Dbs -> Nat \cup {None}]
    /\ \A d \in Dbs :
         /\ usedAt[d] <= now
         /\ lastUsed[d] \in {None, usedAt[d]}
         /\ pools[d].st # "none" => pools[d].gen > 0
         /\ pools[d].st = "open" /\ lastUsed[d] = None => <<d, pools[d].gen>> \in orphans

\* A thread with control state p between its lookup and its use of a connection
\* started at most StepBound ago, and has recorded the use of its alias since
\* then, a record only forget_database removes.
AccessOK(p, n, used, last) ==
    /\ p.pc \in Busy => p.since <= n /\ n <= p.since + StepBound
    /\ p.pc \in Access \ {"touch"} =>
         /\ p.since <= used[p.alias]
         /\ last[p.alias] = None => p.alias \in p.forgot

\* What a look leaves open.
Covered(d) ==
    \/ lastCheck - usedAt[d] < EvictAfter
    \/ Borrowed(d)
    \/ <<d, pools[d].gen>> \in orphans

\* A look holds the lock, and every open pool it has passed is covered.
LookOK(t) ==
    thr[t].pc \in {"evict", "close"} =>
      /\ lock = t
      /\ \A d \in Dbs \ thr[t].todo : pools[d].st = "open" => Covered(d)

PoolInv ==
    /\ DataInv
    /\ \A t \in Threads : AccessOK(thr[t], now, usedAt, lastUsed)
    /\ \A t \in Threads : LookOK(t)

LEMMA PoolStart == Init => PoolInv
<1> SUFFICES ASSUME Init PROVE PoolInv
  OBVIOUS
<1>1. DataInv
  BY DEF Init, DataInv, NoPool
<1>2. \A t \in Threads : thr[t].pc = "idle"
  BY DEF Init, Stopped
<1>3. QED BY <1>1, <1>2 DEF PoolInv, AccessOK, LookOK, Busy, Access

\* What keeps a pool covered: the same pool, no earlier use, and what was
\* borrowed is still borrowed, lost, or given back now.
LEMMA CoverKept ==
    ASSUME NEW d \in Dbs, DataInv, DataInv', Covered(d), now' = now, lastCheck' = lastCheck,
           usedAt[d] <= usedAt'[d], pools'[d].gen = pools[d].gen, orphans \subseteq orphans',
           usedAt'[d] = now \/ (Borrowed(d) => Borrowed(d)')
    PROVE  Covered(d)'
<1>1. lastCheck \in Nat /\ lastCheck <= now /\ now \in Nat /\ EvictAfter \in Nat /\ EvictAfter > 0
      /\ usedAt[d] \in Nat /\ usedAt'[d] \in Nat
  BY TenancyAssumption DEF DataInv
<1>2. CASE usedAt'[d] = now \/ lastCheck - usedAt[d] < EvictAfter
  <2>1. lastCheck' - usedAt'[d] < EvictAfter
    BY <1>1, <1>2
  <2>2. QED BY <2>1 DEF Covered
<1>3. CASE <<d, pools[d].gen>> \in orphans
  BY <1>3 DEF Covered
<1>4. CASE Borrowed(d)'
  BY <1>4 DEF Covered
<1>5. QED BY <1>2, <1>3, <1>4 DEF Covered

LEMMA BorrowedStays ==
    ASSUME NEW d \in Dbs, Borrowed(d), pools'[d].gen = pools[d].gen, lost \subseteq lost',
           \A u \in Threads : wrapper'[u][d].conn = wrapper[u][d].conn
    PROVE  Borrowed(d)'
  BY DEF Borrowed

\* A look goes on while other threads change pools: an open pool was open and
\* stays covered, or is covered as it opens.
LEMMA LookGoesOn ==
    ASSUME NEW u \in Threads, LookOK(u), thr'[u].pc = thr[u].pc, thr'[u].todo = thr[u].todo,
           lock' = lock,
           \A d \in Dbs : pools'[d].st = "open" =>
              Covered(d)' \/ (pools[d].st = "open" /\ (Covered(d) => Covered(d)'))
    PROVE  LookOK(u)'
  BY DEF LookOK

\* What is left to show of a step of thread t that forgets no database.
LEMMA PoolStep ==
    ASSUME IInv, PoolInv, NEW t \in Threads, DataInv', now' = now,
           \A u \in Threads \ {t} : thr'[u] = thr[u] /\ LookOK(u)',
           \A d \in Dbs : usedAt[d] <= usedAt'[d] /\ (lastUsed'[d] = None => lastUsed[d] = None),
           AccessOK(thr'[t], now, usedAt', lastUsed'), LookOK(t)'
    PROVE  PoolInv'
<1>1. ASSUME NEW u \in Threads \ {t} PROVE AccessOK(thr'[u], now', usedAt', lastUsed')
  <2>1. thr[u].alias \in Dbs /\ thr[u].since \in Nat
    BY DEF IInv, ShapeInv, Control
  <2>2. usedAt[thr[u].alias] \in Nat /\ usedAt'[thr[u].alias] \in Nat
    BY <2>1 DEF PoolInv, DataInv
  <2>3. AccessOK(thr[u], now, usedAt, lastUsed) /\ thr'[u] = thr[u]
    BY DEF PoolInv
  <2>4. QED BY <2>1, <2>2, <2>3 DEF AccessOK
<1>2. QED BY <1>1 DEF PoolInv

\* The steps that touch neither pools nor times of use, nor begin a look.
LEMMA PoolSame ==
    ASSUME IInv, PoolInv, NEW t \in Threads, NEW q, thr' = [thr EXCEPT ![t] = q],
           UNCHANGED <<now, lastUsed, lastCheck, lock, pools, usedAt, orphans, lost>>,
           \A u \in Threads : \A d \in Dbs : wrapper'[u][d].conn = wrapper[u][d].conn,
           q.pc \notin {"evict", "close"}, AccessOK(q, now, usedAt, lastUsed)
    PROVE  PoolInv'
<1>1. thr'[t] = q /\ \A u \in Threads \ {t} : thr'[u] = thr[u]
  BY DEF IInv, ShapeInv
<1>2. DataInv /\ DataInv' /\ \A d \in Dbs : usedAt[d] \in Nat
  BY DEF PoolInv, DataInv
<1>3. \A d \in Dbs : usedAt[d] <= usedAt'[d]
  BY <1>2
<1>4. ASSUME NEW u \in Threads \ {t} PROVE LookOK(u)'
  <2>1. \A d \in Dbs : Covered(d) => Covered(d)'
    BY <1>2, <1>3, CoverKept, BorrowedStays
  <2>2. QED BY <1>1, <2>1, LookGoesOn DEF PoolInv
<1>5. LookOK(t)'
  BY <1>1 DEF LookOK
<1>6. QED BY <1>1, <1>2, <1>3, <1>4, <1>5, PoolStep

\* Outside of an access nothing is asked of the times.
LEMMA NoAccess ==
    ASSUME NEW p, p.pc \in {"idle", "work", "applied", "fail"}, NEW n, NEW used, NEW last
    PROVE  AccessOK(p, n, used, last)
  BY DEF AccessOK, Busy, Access

LEMMA PoolIdle ==
    ASSUME IInv, PoolInv, NEW t \in Threads, NEW q, thr' = [thr EXCEPT ![t] = q],
           UNCHANGED <<now, lastUsed, lastCheck, lock, pools, usedAt, orphans, lost, wrapper>>,
           q.pc \in {"idle", "work", "applied", "fail"}
    PROVE  PoolInv'
<1>1. \A u \in Threads : \A d \in Dbs : wrapper'[u][d].conn = wrapper[u][d].conn
  OBVIOUS
<1>2. AccessOK(q, now, usedAt, lastUsed)
  BY NoAccess
<1>3. QED BY <1>1, <1>2, PoolSame

\* The steps outside of an access, and the use of a connection.
LEMMA PoolQuiet ==
    ASSUME IInv, PoolInv, NEW t \in Threads,
           \/ \E h \in Dbs \cup Refused \cup {NoHeader} : Request(t, h)
           \/ \E d \in Dbs : use_database(t, d)
           \/ Leave(t) \/ Raise(t) \/ Exec(t)
    PROVE  PoolInv'
<1> USE DEF handler, ghosts
<1>1. UNCHANGED <<now, lastUsed, lastCheck, lock, pools, usedAt, orphans, lost, wrapper>>
  BY DEF Request, use_database, Leave, Raise, Exec
<1>2. thr[t] \in Control /\ thr \in [Threads -> Control]
  BY DEF IInv, ShapeInv
<1>3. SUFFICES \E q : thr' = [thr EXCEPT ![t] = q] /\ q.pc \in {"idle", "work", "fail"}
  BY <1>1, PoolIdle
<1>4. CASE \E h \in Dbs \cup Refused \cup {NoHeader} : Request(t, h)
  <2>1. PICK h \in Dbs \cup Refused \cup {NoHeader} : Request(t, h)
    BY <1>4
  <2>2. CASE thr' = thr
    <3>1. thr' = [thr EXCEPT ![t] = thr[t]] /\ thr[t].pc = "idle"
      BY <1>2, <2>1, <2>2 DEF Request
    <3>2. QED BY <3>1
  <2>3. CASE thr' = [thr EXCEPT ![t] = [Stopped EXCEPT !.pc = "work"]]
    <3> DEFINE q == [Stopped EXCEPT !.pc = "work"]
    <3>1. q.pc = "work"
      BY DEF Stopped
    <3>2. thr' = [thr EXCEPT ![t] = q]
      BY <2>3
    <3> HIDE DEF q
    <3>3. QED BY <3>1, <3>2
  <2>4. CASE thr' = [thr EXCEPT ![t] =
               [Stopped EXCEPT !.pc = "work", !.header = h,
                               !.frames = <<[k |-> "use", db |-> h, token |-> None]>>]]
    <3> DEFINE q == [Stopped EXCEPT !.pc = "work", !.header = h,
                               !.frames = <<[k |-> "use", db |-> h, token |-> None]>>]
    <3>1. q.pc = "work"
      BY DEF Stopped
    <3>2. thr' = [thr EXCEPT ![t] = q]
      BY <2>4
    <3> HIDE DEF q
    <3>3. QED BY <3>1, <3>2
  <2>5. QED BY <2>1, <2>2, <2>3, <2>4 DEF Request
<1>5. CASE (\E d \in Dbs : use_database(t, d)) \/ Leave(t)
  <2>1. thr[t].pc \in {"work", "fail"}
        /\ \E pc \in {"work", "fail"} : \E fr :
              thr' = [thr EXCEPT ![t] = [thr[t] EXCEPT !.pc = pc, !.frames = fr]]
    <3>1. CASE Leave(t)
      <4> DEFINE s == SubSeq(thr[t].frames, 1, Len(thr[t].frames) - 1)
      <4>1. thr' = [thr EXCEPT ![t] = [thr[t] EXCEPT !.frames = s]] /\ thr[t].pc \in {"work", "fail"}
        BY <3>1 DEF Leave
      <4> HIDE DEF s
      <4>2. [thr[t] EXCEPT !.frames = s] = [thr[t] EXCEPT !.pc = thr[t].pc, !.frames = s]
        BY <1>2 DEF Control
      <4>3. QED BY <4>1, <4>2
    <3>2. ASSUME NEW d \in Dbs, use_database(t, d), SwitchAllowed(t, d)
          PROVE  \E fr : thr' = [thr EXCEPT ![t] = [thr[t] EXCEPT !.pc = "work", !.frames = fr]]
      <4> DEFINE s == Append(thr[t].frames, [k |-> "use", db |-> d, token |-> ctx[t]])
      <4>1. thr' = [thr EXCEPT ![t] = [thr[t] EXCEPT !.frames = s]] /\ thr[t].pc = "work"
        BY <3>2 DEF use_database, Enter
      <4> HIDE DEF s
      <4>2. [thr[t] EXCEPT !.frames = s] = [thr[t] EXCEPT !.pc = "work", !.frames = s]
        BY <1>2, <4>1 DEF Control
      <4>3. QED BY <4>1, <4>2
    <3>3. ASSUME NEW d \in Dbs, use_database(t, d), ~SwitchAllowed(t, d)
          PROVE  thr' = [thr EXCEPT ![t] =
                           [thr[t] EXCEPT !.pc = "fail", !.frames = thr[t].frames]]
      <4>1. thr' = [thr EXCEPT ![t] = [thr[t] EXCEPT !.pc = "fail"]]
        BY <3>3 DEF use_database
      <4>2. [thr[t] EXCEPT !.pc = "fail"] = [thr[t] EXCEPT !.pc = "fail", !.frames = thr[t].frames]
        BY <1>2 DEF Control
      <4>3. QED BY <4>1, <4>2
    <3>4. ASSUME NEW d \in Dbs, use_database(t, d) PROVE thr[t].pc = "work"
      BY <3>4 DEF use_database
    <3>5. QED BY <1>5, <3>1, <3>2, <3>3, <3>4
  <2>2. PICK pc \in {"work", "fail"} : \E fr :
           thr' = [thr EXCEPT ![t] = [thr[t] EXCEPT !.pc = pc, !.frames = fr]]
    BY <2>1
  <2>3. PICK fr : thr' = [thr EXCEPT ![t] = [thr[t] EXCEPT !.pc = pc, !.frames = fr]]
    BY <2>2
  <2> DEFINE q == [thr[t] EXCEPT !.pc = pc, !.frames = fr]
  <2>4. thr' = [thr EXCEPT ![t] = q] /\ q.pc = pc
    BY <1>2, <2>3 DEF Control
  <2> HIDE DEF q
  <2>5. QED BY <2>4
<1>6. CASE Raise(t)
  <2> DEFINE q == [thr[t] EXCEPT !.pc = "fail"]
  <2>1. thr' = [thr EXCEPT ![t] = q] /\ q.pc = "fail"
    BY <1>2, <1>6 DEF Raise, Control
  <2> HIDE DEF q
  <2>2. QED BY <2>1
<1>7. CASE Exec(t)
  <2> DEFINE fr == IF thr[t].kind = "query" THEN thr[t].frames
                   ELSE Append(thr[t].frames, [k |-> "tx", db |-> thr[t].alias, token |-> None])
  <2> DEFINE q == [Ended(thr[t], "work") EXCEPT !.frames = fr]
  <2>1. thr' = [thr EXCEPT ![t] = q]
    BY <1>7 DEF Exec
  <2> HIDE DEF fr
  <2>2. q.pc = "work"
    BY <1>2 DEF Control, Ended
  <2> HIDE DEF q
  <2>3. QED BY <2>1, <2>2
<1>8. QED BY <1>4, <1>5, <1>6, <1>7

LEMMA PoolLookup ==
    ASSUME IInv, PoolInv, NEW t \in Threads, NEW kind \in {"query", "atomic"}, Lookup(t, kind)
    PROVE  PoolInv'
<1> USE DEF handler, ghosts
<1> DEFINE q == [thr[t] EXCEPT !.pc = "lookup", !.kind = kind, !.alias = current_database(t),
                               !.since = now]
<1>1. thr[t] \in Control /\ thr \in [Threads -> Control] /\ now \in Nat /\ StepBound \in Nat
  BY TenancyAssumption DEF IInv, ShapeInv
<1>2. thr' = [thr EXCEPT ![t] = q]
      /\ UNCHANGED <<now, lastUsed, lastCheck, lock, pools, usedAt, orphans, lost, wrapper>>
  BY <1>1 DEF Lookup
<1>3. q.pc = "lookup" /\ q.since = now
  BY <1>1 DEF Control
<1> HIDE DEF q
<1>4. AccessOK(q, now, usedAt, lastUsed)
  BY <1>1, <1>3 DEF AccessOK, Busy, Access
<1>5. QED BY <1>2, <1>3, <1>4, PoolSame

LEMMA PoolGetItem ==
    ASSUME IInv, PoolInv, NEW t \in Threads, GetItem(t)
    PROVE  PoolInv'
<1> USE DEF handler, ghosts
<1> DEFINE d == thr[t].alias
<1>1. thr[t] \in Control /\ thr[t].pc = "lookup" /\ d \in Dbs
      /\ UNCHANGED <<now, lastUsed, lastCheck, lock, pools, usedAt, orphans, lost>>
      /\ wrapper \in [Threads -> Wrappers]
  BY DEF GetItem, IInv, ShapeInv, Control
<1>2. CASE wrapper[t][d] = NoWrapper /\ settings[d] = None
  <2> DEFINE q == Ended(thr[t], "fail")
  <2>1. thr' = [thr EXCEPT ![t] = q] /\ wrapper' = wrapper
    BY <1>2 DEF GetItem
  <2>2. q.pc = "fail"
    BY <1>1 DEF Control, Ended
  <2> HIDE DEF q
  <2>3. QED BY <1>1, <2>1, <2>2, PoolIdle
<1>3. CASE ~(wrapper[t][d] = NoWrapper /\ settings[d] = None)
  <2> DEFINE q == [thr[t] EXCEPT !.pc = "touch"]
  <2> DEFINE w == IF wrapper[t][d] = NoWrapper THEN [name |-> settings[d], conn |-> 0]
                  ELSE wrapper[t][d]
  <2>1. thr' = [thr EXCEPT ![t] = q]
        /\ wrapper' = [wrapper EXCEPT ![t] = [wrapper[t] EXCEPT ![d] = w]]
    BY <1>1, <1>3 DEF GetItem
  <2>2. q.pc = "touch" /\ q.since = thr[t].since
    BY <1>1 DEF Control
  <2>3. w.conn = wrapper[t][d].conn
    BY DEF NoWrapper
  <2>4. AccessOK(thr[t], now, usedAt, lastUsed)
    BY DEF PoolInv
  <2> HIDE DEF q, w, d
  <2>5. \A u \in Threads : \A x \in Dbs : wrapper'[u][x].conn = wrapper[u][x].conn
    BY <1>1, <2>1, <2>3 DEF Wrappers
  <2>6. AccessOK(q, now, usedAt, lastUsed)
    BY <1>1, <2>2, <2>4 DEF AccessOK, Busy, Access
  <2>7. QED BY <1>1, <2>1, <2>2, <2>5, <2>6, PoolSame
<1>4. QED BY <1>2, <1>3

\* The steps that record a use without looking for idle pools: the times of
\* some aliases become now.
LEMMA UseRecorded ==
    ASSUME IInv, PoolInv, NEW t \in Threads, NEW q, thr' = [thr EXCEPT ![t] = q], NEW D \in SUBSET Dbs,
           lastUsed' = [d \in Dbs |-> IF d \in D THEN now ELSE lastUsed[d]],
           usedAt' = [d \in Dbs |-> IF d \in D THEN now ELSE usedAt[d]],
           UNCHANGED <<now, lastCheck, lock, pools, orphans>>, lost \subseteq lost',
           q.pc \notin {"evict", "close"}, AccessOK(q, now, usedAt', lastUsed'),
           \A d \in Dbs \ D : Borrowed(d) => Borrowed(d)'
    PROVE  PoolInv'
<1>1. thr'[t] = q /\ \A u \in Threads \ {t} : thr'[u] = thr[u]
  BY DEF IInv, ShapeInv
<1>2. DataInv /\ now \in Nat /\ None \notin Nat /\ now' = now /\ lastCheck' = lastCheck
  BY TenancyAssumption DEF PoolInv, DataInv
<1>3. DataInv'
  <2>1. usedAt' \in [Dbs -> Nat] /\ lastUsed' \in [Dbs -> Nat \cup {None}]
    BY <1>2 DEF DataInv
  <2>2. ASSUME NEW d \in Dbs
        PROVE  /\ usedAt'[d] <= now
               /\ lastUsed'[d] \in {None, usedAt'[d]}
               /\ pools[d].st # "none" => pools[d].gen > 0
               /\ pools[d].st = "open" /\ lastUsed'[d] = None => <<d, pools[d].gen>> \in orphans
    <3>1. CASE d \in D
      <4>1. usedAt'[d] = now /\ lastUsed'[d] = now
        BY <3>1
      <4>2. QED BY <1>2, <4>1 DEF DataInv
    <3>2. CASE d \notin D
      <4>1. usedAt'[d] = usedAt[d] /\ lastUsed'[d] = lastUsed[d]
        BY <3>2
      <4>2. QED BY <1>2, <4>1 DEF DataInv
    <3>3. QED BY <3>1, <3>2
  <2>3. QED BY <1>2, <2>1, <2>2 DEF DataInv
<1>4. ASSUME NEW d \in Dbs
      PROVE  usedAt[d] <= usedAt'[d] /\ (lastUsed'[d] = None => lastUsed[d] = None)
  <2>1. usedAt[d] \in Nat /\ usedAt[d] <= now
    BY <1>2 DEF DataInv
  <2>2. CASE d \in D
    BY <1>2, <2>1, <2>2
  <2>3. CASE d \notin D
    BY <2>1, <2>3
  <2>4. QED BY <2>2, <2>3
<1>5. ASSUME NEW d \in Dbs, pools[d].st = "open", Covered(d) PROVE Covered(d)'
  <2>1. CASE d \in D
    <3>1. usedAt'[d] = now
      BY <2>1
    <3>2. QED BY <1>2, <1>3, <1>4, <1>5, <3>1, CoverKept
  <2>2. CASE d \notin D
    <3>1. Borrowed(d) => Borrowed(d)'
      BY <2>2
    <3>2. QED BY <1>2, <1>3, <1>4, <1>5, <3>1, CoverKept
  <2>3. QED BY <2>1, <2>2
<1>6. ASSUME NEW u \in Threads \ {t} PROVE LookOK(u)'
  <2>1. LookOK(u) /\ thr'[u] = thr[u]
    BY <1>1 DEF PoolInv
  <2>2. \A d \in Dbs : pools'[d].st = "open" =>
              Covered(d)' \/ (pools[d].st = "open" /\ (Covered(d) => Covered(d)'))
    BY <1>5
  <2>3. QED BY <2>1, <2>2, LookGoesOn
<1>7. LookOK(t)'
  BY <1>1 DEF LookOK
<1>8. QED BY <1>1, <1>2, <1>3, <1>4, <1>6, <1>7, PoolStep

\* The end of a request: what it gives back was used now, what it loses stays
\* borrowed for ever.
LEMMA PoolFinish ==
    ASSUME IInv, PoolInv, NEW t \in Threads, Finish(t)
    PROVE  PoolInv'
<1> USE DEF handler, ghosts
<1> DEFINE D == Initialized(t, DefaultDb)
<1> DEFINE left == {d \in Dbs \ D : wrapper[t][d].conn > 0}
<1>1. /\ lastUsed' = [d \in Dbs |-> IF d \in D THEN now ELSE lastUsed[d]]
      /\ usedAt' = [d \in Dbs |-> IF d \in D THEN now ELSE usedAt[d]]
      /\ UNCHANGED <<now, lastCheck, lock, pools, orphans>>
      /\ thr' = [thr EXCEPT ![t] = Stopped]
      /\ wrapper' = [wrapper EXCEPT ![t] = [d \in Dbs |-> NoWrapper]]
  BY DEF Finish
<1>2. lost' = lost \cup {[db |-> d, gen |-> wrapper[t][d].conn,
                          forgotten |-> d \in thr[t].forgot] : d \in left}
  BY DEF Finish
<1>3. D \in SUBSET Dbs /\ Stopped.pc = "idle" /\ lost \subseteq lost'
      /\ wrapper \in [Threads -> Wrappers]
  BY <1>2, TenancyAssumption DEF Initialized, Stopped, IInv, ShapeInv
<1>4. ASSUME NEW d \in Dbs \ D, Borrowed(d) PROVE Borrowed(d)'
  <2>1. CASE \E x \in lost : x.db = d /\ x.gen = pools[d].gen
    BY <1>1, <1>3, <2>1 DEF Borrowed
  <2>2. CASE \E u \in Threads : wrapper[u][d].conn = pools[d].gen
    <3>1. PICK u \in Threads : wrapper[u][d].conn = pools[d].gen
      BY <2>2
    <3>2. CASE u # t
      <4>1. wrapper'[u] = wrapper[u]
        BY <1>1, <3>2
      <4>2. QED BY <1>1, <3>1, <4>1 DEF Borrowed
    <3>3. CASE u = t /\ d \in left
      <4> DEFINE x == [db |-> d, gen |-> wrapper[t][d].conn, forgotten |-> d \in thr[t].forgot]
      <4>1. x \in lost' /\ x.db = d /\ x.gen = pools[d].gen
        BY <1>2, <3>1, <3>3
      <4>2. QED BY <1>1, <4>1 DEF Borrowed
    <3>4. CASE u = t /\ d \notin left
      <4>1. wrapper[t][d].conn = 0 /\ wrapper'[t][d].conn = 0
        BY <1>1, <1>3, <3>4 DEF Wrappers, NoWrapper
      <4>2. QED BY <1>1, <3>1, <3>4, <4>1 DEF Borrowed
    <3>5. QED BY <3>2, <3>3, <3>4
  <2>3. QED BY <1>4, <2>1, <2>2 DEF Borrowed
<1>5. AccessOK(Stopped, now, usedAt', lastUsed')
  BY <1>3, NoAccess
<1>6. QED BY <1>1, <1>3, <1>4, <1>5, UseRecorded

LEMMA PoolEndAtomic ==
    ASSUME IInv, PoolInv, NEW t \in Threads, EndAtomic(t)
    PROVE  PoolInv'
<1> USE DEF handler, ghosts
<1> DEFINE d == current_database(t)
<1> DEFINE s == SubSeq(thr[t].frames, 1, Len(thr[t].frames) - 1)
<1> DEFINE q == [thr[t] EXCEPT !.frames = s]
<1>1. thr[t] \in Control /\ thr[t].pc \in {"work", "fail"} /\ d \in Dbs
      /\ DataInv /\ wrapper' = wrapper /\ pools' = pools /\ lost' = lost
  BY CurrentIs, CurInDbs DEF EndAtomic, IInv, ShapeInv, PoolInv
<1>2. /\ lastUsed' = [x \in Dbs |-> IF x \in {d} THEN now ELSE lastUsed[x]]
      /\ usedAt' = [x \in Dbs |-> IF x \in {d} THEN now ELSE usedAt[x]]
      /\ UNCHANGED <<now, lastCheck, lock, pools, orphans>>
      /\ thr' = [thr EXCEPT ![t] = q]
  BY <1>1 DEF EndAtomic, DataInv
<1>3. q.pc \in {"work", "fail"}
  BY <1>1 DEF Control
<1> HIDE DEF q, d
<1>4. \A x \in Dbs : Borrowed(x) => Borrowed(x)'
  BY <1>1, BorrowedStays
<1>5. {d} \in SUBSET Dbs /\ lost \subseteq lost' /\ AccessOK(q, now, usedAt', lastUsed')
  BY <1>1, <1>3, NoAccess
<1>6. QED BY <1>1, <1>2, <1>3, <1>4, <1>5, UseRecorded

LEMMA PoolTouch ==
    ASSUME IInv, PoolInv, NEW t \in Threads, Touch(t)
    PROVE  PoolInv'
<1> USE DEF handler, ghosts
<1> DEFINE d == thr[t].alias
<1>1. thr[t] \in Control /\ thr[t].pc = "touch" /\ d \in Dbs /\ now \in Nat /\ None \notin Nat
      /\ DataInv /\ wrapper' = wrapper /\ pools' = pools /\ lost' = lost /\ now' = now
      /\ orphans' = orphans
  BY TenancyAssumption DEF Touch, IInv, ShapeInv, Control, PoolInv
<1>2. /\ lastUsed' = [x \in Dbs |-> IF x \in {d} THEN now ELSE lastUsed[x]]
      /\ usedAt' = [x \in Dbs |-> IF x \in {d} THEN now ELSE usedAt[x]]
  BY <1>1 DEF Touch, DataInv
<1>3. ASSUME NEW q \in Control, q.pc \in Access, q.alias = d, q.since = thr[t].since
      PROVE  AccessOK(q, now, usedAt', lastUsed')
  <2>1. AccessOK(thr[t], now, usedAt, lastUsed)
    BY DEF PoolInv
  <2>2. usedAt'[d] = now /\ lastUsed'[d] = now /\ thr[t].since <= now
    BY <1>1, <1>2, <2>1 DEF AccessOK, Busy, Access
  <2>3. QED BY <1>1, <1>3, <2>1, <2>2 DEF AccessOK, Busy, Access
<1>4. \A x \in Dbs : Borrowed(x) => Borrowed(x)'
  BY <1>1, BorrowedStays
<1>5. {d} \in SUBSET Dbs /\ lost \subseteq lost'
  BY <1>1
<1>6. CASE ~(now - lastCheck >= CheckInterval)
  <2> DEFINE next == IF Connected(t) THEN "exec" ELSE "open"
  <2> DEFINE q == [thr[t] EXCEPT !.pc = next]
  <2>1. thr' = [thr EXCEPT ![t] = q] /\ lock' = lock /\ lastCheck' = lastCheck
    BY <1>6 DEF Touch, IInv, ShapeInv
  <2>2. next \in {"exec", "open"}
    OBVIOUS
  <2> HIDE DEF next
  <2>3. q \in Control /\ q.pc \in {"exec", "open"} /\ q.alias = d /\ q.since = thr[t].since
    BY <1>1, <2>2 DEF Control, Access
  <2> HIDE DEF q, d
  <2>4. AccessOK(q, now, usedAt', lastUsed')
    BY <1>3, <2>3 DEF Access
  <2>5. QED BY <1>1, <1>2, <1>4, <1>5, <2>1, <2>3, <2>4, UseRecorded
<1>7. CASE now - lastCheck >= CheckInterval
  <2> DEFINE todo == {p \in Dbs : pools[p].st # "none"}
  <2> DEFINE q == [thr[t] EXCEPT !.pc = "evict", !.todo = todo]
  <2>1. thr' = [thr EXCEPT ![t] = q] /\ lock = None /\ lock' = t /\ lastCheck' = now
    BY <1>7 DEF Touch, IInv, ShapeInv
  <2>2. todo \in SUBSET Dbs
    OBVIOUS
  <2> HIDE DEF todo
  <2>3. q \in Control /\ q.pc = "evict" /\ q.alias = d /\ q.since = thr[t].since /\ q.todo = todo
    BY <1>1, <2>2 DEF Control, Access
  <2> HIDE DEF q, d
  <2>4. AccessOK(q, now, usedAt', lastUsed')
    BY <1>3, <2>3 DEF Access
  <2>5. thr'[t] = q /\ \A u \in Threads \ {t} : thr'[u] = thr[u]
    BY <2>1 DEF IInv, ShapeInv
  <2>6. DataInv'
    <3>1. usedAt' \in [Dbs -> Nat] /\ lastUsed' \in [Dbs -> Nat \cup {None}]
      BY <1>1, <1>2 DEF DataInv
    <3>2. ASSUME NEW x \in Dbs
          PROVE  /\ usedAt'[x] <= now
                 /\ lastUsed'[x] \in {None, usedAt'[x]}
                 /\ pools[x].st # "none" => pools[x].gen > 0
                 /\ pools[x].st = "open" /\ lastUsed'[x] = None => <<x, pools[x].gen>> \in orphans
      <4>1. CASE x = d
        BY <1>1, <1>2, <4>1 DEF DataInv
      <4>2. CASE x # d
        BY <1>1, <1>2, <4>2 DEF DataInv
      <4>3. QED BY <4>1, <4>2
    <3>3. QED BY <1>1, <2>1, <3>1, <3>2 DEF DataInv
  <2>7. ASSUME NEW x \in Dbs
        PROVE  usedAt[x] <= usedAt'[x] /\ (lastUsed'[x] = None => lastUsed[x] = None)
    <3>1. usedAt[x] \in Nat /\ usedAt[x] <= now
      BY <1>1 DEF DataInv
    <3>2. CASE x = d
      BY <1>1, <1>2, <3>1, <3>2
    <3>3. CASE x # d
      BY <1>1, <1>2, <3>1, <3>3
    <3>4. QED BY <3>2, <3>3
  <2>8. ASSUME NEW u \in Threads \ {t} PROVE LookOK(u)'
    <3>1. thr[u].pc \notin {"evict", "close"}
      BY <2>1, TenancyAssumption DEF PoolInv, LookOK
    <3>2. QED BY <2>5, <3>1 DEF LookOK
  <2>9. LookOK(t)'
    <3>1. \A x \in Dbs \ todo : pools'[x].st # "open"
      BY <1>1 DEF todo
    <3>2. QED BY <2>1, <2>3, <2>5, <3>1 DEF LookOK
  <2>10. QED BY <1>1, <2>4, <2>5, <2>6, <2>7, <2>8, <2>9, PoolStep
<1>8. QED BY <1>6, <1>7

\* A look at one alias: an idle pool is closed next, any other is covered.
LEMMA PoolLook ==
    ASSUME IInv, PoolInv, NEW t \in Threads, EvictLook(t)
    PROVE  PoolInv'
<1> USE DEF handler, ghosts
<1>1. thr[t] \in Control /\ thr[t].pc = "evict" /\ DataInv /\ LookOK(t)
      /\ UNCHANGED <<now, lastUsed, lastCheck, lock, pools, wrapper, usedAt, orphans, lost>>
  BY DEF EvictLook, IInv, ShapeInv, PoolInv
<1>2. PICK d \in thr[t].todo : EvictNext(t, d)
  BY DEF EvictLook
<1>3. d \in Dbs
  BY <1>1, <1>2 DEF Control
<1>4. DataInv' /\ \A x \in Dbs : usedAt[x] \in Nat /\ (Covered(x) <=> Covered(x)')
  BY <1>1 DEF DataInv, Covered, Borrowed
<1>5. ASSUME NEW q \in Control, thr' = [thr EXCEPT ![t] = q], q.pc \in {"evict", "close"},
             q.alias = thr[t].alias, q.since = thr[t].since, q.forgot = thr[t].forgot,
             \A x \in Dbs \ q.todo : pools[x].st = "open" => Covered(x)
      PROVE  PoolInv'
  <2>1. thr'[t] = q /\ \A u \in Threads \ {t} : thr'[u] = thr[u]
    BY <1>5 DEF IInv, ShapeInv
  <2>2. AccessOK(q, now, usedAt', lastUsed')
    <3>1. AccessOK(thr[t], now, usedAt, lastUsed)
      BY DEF PoolInv
    <3>2. QED BY <1>1, <1>5, <3>1 DEF AccessOK, Busy, Access
  <2>3. LookOK(t)'
    BY <1>1, <1>4, <1>5, <2>1 DEF LookOK
  <2>4. ASSUME NEW u \in Threads \ {t} PROVE LookOK(u)'
    BY <1>1, <1>4, <2>1, LookGoesOn DEF PoolInv
  <2>5. \A x \in Dbs : usedAt[x] <= usedAt'[x] /\ (lastUsed'[x] = None => lastUsed[x] = None)
    BY <1>1, <1>4
  <2>6. QED BY <1>1, <1>4, <2>1, <2>2, <2>3, <2>4, <2>5, PoolStep
<1>6. CASE Evictable(t, d)
  <2> DEFINE q == [thr[t] EXCEPT !.pc = "close", !.victim = d]
  <2>1. thr' = [thr EXCEPT ![t] = q]
    BY <1>2, <1>6 DEF EvictNext, IInv, ShapeInv
  <2>2. q \in Control /\ q.pc = "close" /\ q.alias = thr[t].alias /\ q.since = thr[t].since
        /\ q.forgot = thr[t].forgot /\ q.todo = thr[t].todo
    BY <1>1, <1>3 DEF Control, Access
  <2> HIDE DEF q
  <2>3. QED BY <1>1, <1>5, <2>1, <2>2 DEF LookOK
<1>7. CASE ~Evictable(t, d)
  <2> DEFINE q == [thr[t] EXCEPT !.todo = thr[t].todo \ {d}]
  <2>1. thr' = [thr EXCEPT ![t] = q]
    BY <1>2, <1>7 DEF EvictNext, IInv, ShapeInv
  <2>2. q \in Control /\ q.pc = "evict" /\ q.alias = thr[t].alias /\ q.since = thr[t].since
        /\ q.forgot = thr[t].forgot /\ q.todo = thr[t].todo \ {d}
    <3>1. thr[t].todo \ {d} \in SUBSET Dbs
      BY <1>1 DEF Control
    <3>2. QED BY <1>1, <3>1 DEF Control
  <2> HIDE DEF q
  <2>3. pools[d].st = "open" => Covered(d)
    <3>1. lastUsed[d] \in {None, usedAt[d]} /\ usedAt[d] \in Nat /\ lastCheck \in Nat
          /\ EvictAfter \in Nat
      BY <1>1, <1>3, TenancyAssumption DEF DataInv
    <3>2. CASE lastUsed[d] = None
      BY <1>1, <1>3, <3>2 DEF DataInv, Covered
    <3>3. CASE lastUsed[d] # None
      <4>1. lastUsed[d] = usedAt[d] /\ (~(lastCheck - usedAt[d] >= EvictAfter) \/ Borrowed(d))
        BY <1>7, <3>1, <3>3 DEF Evictable
      <4>2. QED BY <3>1, <4>1 DEF Covered
    <3>4. QED BY <3>2, <3>3
  <2>4. \A x \in Dbs \ q.todo : pools[x].st = "open" => Covered(x)
    BY <1>1, <2>2, <2>3 DEF LookOK
  <2>5. QED BY <1>5, <2>1, <2>2, <2>4
<1>8. QED BY <1>6, <1>7

LEMMA PoolClose ==
    ASSUME IInv, PoolInv, NEW t \in Threads, EvictClose(t)
    PROVE  PoolInv'
<1> USE DEF handler, ghosts
<1> DEFINE d == thr[t].victim
<1> DEFINE q == [thr[t] EXCEPT !.pc = "evict", !.todo = thr[t].todo \ {d}, !.victim = None]
<1>1. thr[t] \in Control /\ thr[t].pc = "close" /\ DataInv /\ LookOK(t)
      /\ UNCHANGED <<now, lastUsed, lastCheck, lock, wrapper, usedAt, orphans, lost>>
      /\ pools \in [Dbs -> [st : {"none", "new", "open"}, gen : Nat]]
  BY DEF EvictClose, IInv, ShapeInv, PoolInv
<1>2. thr' = [thr EXCEPT ![t] = q] /\ pools' = [pools EXCEPT ![d].st = "none"]
  BY DEF EvictClose, IInv, ShapeInv
<1>3. q.pc = "evict" /\ q.alias = thr[t].alias /\ q.since = thr[t].since
      /\ q.forgot = thr[t].forgot /\ q.todo = thr[t].todo \ {d}
  BY <1>1 DEF Control, Access
<1> HIDE DEF q, d
<1>4. ASSUME NEW x \in Dbs
      PROVE  /\ pools'[x].gen = pools[x].gen
             /\ pools'[x].st = "none" \/ pools'[x].st = pools[x].st
             /\ x = d => pools'[x].st = "none"
  BY <1>1, <1>2
<1>5. DataInv'
  BY <1>1, <1>4 DEF DataInv
<1>6. \A x \in Dbs : usedAt[x] <= usedAt'[x] /\ (lastUsed'[x] = None => lastUsed[x] = None)
  BY <1>1 DEF DataInv
<1>7. ASSUME NEW x \in Dbs, Covered(x) PROVE Covered(x)'
  BY <1>1, <1>4, <1>7 DEF Covered, Borrowed
<1>8. thr'[t] = q /\ \A u \in Threads \ {t} : thr'[u] = thr[u]
  BY <1>2 DEF IInv, ShapeInv
<1>9. AccessOK(q, now, usedAt', lastUsed')
  <2>1. AccessOK(thr[t], now, usedAt, lastUsed)
    BY DEF PoolInv
  <2>2. QED BY <1>1, <1>3, <2>1 DEF AccessOK, Busy, Access
<1>10. LookOK(t)'
  <2>1. \A x \in Dbs \ q.todo : pools'[x].st = "open" => Covered(x)'
    <3> SUFFICES ASSUME NEW x \in Dbs \ q.todo, pools'[x].st = "open" PROVE Covered(x)'
      OBVIOUS
    <3>1. x # d /\ pools[x].st = "open"
      BY <1>4
    <3>2. QED BY <1>1, <1>3, <1>7, <3>1 DEF LookOK
  <2>2. QED BY <1>1, <1>8, <2>1 DEF LookOK
<1>11. ASSUME NEW u \in Threads \ {t} PROVE LookOK(u)'
  <2>1. \A x \in Dbs : pools'[x].st = "open" =>
           Covered(x)' \/ (pools[x].st = "open" /\ (Covered(x) => Covered(x)'))
    BY <1>4, <1>7
  <2>2. LookOK(u) /\ thr'[u] = thr[u] /\ lock' = lock
    BY <1>1, <1>8 DEF PoolInv
  <2>3. QED BY <2>1, <2>2, LookGoesOn
<1>12. QED BY <1>1, <1>5, <1>6, <1>8, <1>9, <1>10, <1>11, PoolStep

LEMMA PoolDone ==
    ASSUME IInv, PoolInv, NEW t \in Threads, EvictDone(t)
    PROVE  PoolInv'
<1> USE DEF handler, ghosts
<1> DEFINE next == IF Connected(t) THEN "exec" ELSE "open"
<1> DEFINE q == [thr[t] EXCEPT !.pc = next]
<1>1. thr[t] \in Control /\ thr[t].pc = "evict" /\ DataInv /\ LookOK(t)
      /\ UNCHANGED <<now, lastUsed, lastCheck, pools, wrapper, usedAt, orphans, lost>>
  BY DEF EvictDone, IInv, ShapeInv, PoolInv
<1>2. thr' = [thr EXCEPT ![t] = q]
  BY DEF EvictDone, IInv, ShapeInv
<1>3. next \in {"exec", "open"}
  OBVIOUS
<1> HIDE DEF next
<1>4. q.pc \in {"exec", "open"} /\ q.alias = thr[t].alias /\ q.since = thr[t].since
      /\ q.forgot = thr[t].forgot
  BY <1>1, <1>3 DEF Control
<1> HIDE DEF q
<1>5. thr'[t] = q /\ \A u \in Threads \ {t} : thr'[u] = thr[u]
  BY <1>2 DEF IInv, ShapeInv
<1>6. AccessOK(q, now, usedAt', lastUsed')
  <2>1. AccessOK(thr[t], now, usedAt, lastUsed)
    BY DEF PoolInv
  <2>2. QED BY <1>1, <1>4, <2>1 DEF AccessOK, Busy, Access
<1>7. LookOK(t)'
  BY <1>4, <1>5 DEF LookOK
<1>8. ASSUME NEW u \in Threads \ {t} PROVE LookOK(u)'
  BY <1>1, <1>5 DEF PoolInv, LookOK
<1>9. DataInv' /\ \A x \in Dbs : usedAt[x] <= usedAt'[x] /\ (lastUsed'[x] = None => lastUsed[x] = None)
  BY <1>1 DEF DataInv
<1>10. QED BY <1>1, <1>5, <1>6, <1>7, <1>8, <1>9, PoolStep

\* A pool that opens was asked for at most StepBound ago; when the record of
\* that use is gone, its database was forgotten and the pool is an orphan.
LEMMA PoolOpen ==
    ASSUME IInv, PoolInv, NEW t \in Threads, OpenPool(t)
    PROVE  PoolInv'
<1> USE DEF handler, ghosts
<1>0. PICK d \in Dbs : d = thr[t].alias
  BY DEF IInv, ShapeInv, Control
<1> DEFINE g == IF pools[d].st = "none" THEN pools[d].gen + 1 ELSE pools[d].gen
<1> DEFINE q == [thr[t] EXCEPT !.pc = "getconn"]
<1>1. thr[t] \in Control /\ thr[t].pc = "open" /\ DataInv /\ d \in Dbs
      /\ UNCHANGED <<now, lastUsed, lastCheck, lock, wrapper, usedAt, lost>>
      /\ pools \in [Dbs -> [st : {"none", "new", "open"}, gen : Nat]]
  BY DEF OpenPool, IInv, ShapeInv, PoolInv, Control
<1>2. thr' = [thr EXCEPT ![t] = q]
      /\ pools' = [pools EXCEPT ![d] = [st |-> "open", gen |-> g]]
  BY <1>0 DEF OpenPool, IInv, ShapeInv
<1>3. q.pc = "getconn" /\ q.alias = d /\ q.since = thr[t].since /\ q.forgot = thr[t].forgot
  BY <1>0, <1>1 DEF Control
<1>4. pools[d] \in [st : {"none", "new", "open"}, gen : Nat]
      /\ (pools[d].st # "none" => pools[d].gen > 0)
  BY <1>1 DEF DataInv
<1>5. g \in Nat /\ g > 0 /\ (pools[d].st = "open" => g = pools[d].gen)
  BY <1>4
<1>6. orphans \subseteq orphans'
      /\ (d \in thr[t].forgot /\ pools[d].st # "open" => <<d, g>> \in orphans')
  <2>1. pools'[d].gen = g
    BY <1>1, <1>2
  <2>2. QED BY <1>0, <2>1 DEF OpenPool
<1> HIDE DEF q, g
<1>7. AccessOK(thr[t], now, usedAt, lastUsed)
  BY DEF PoolInv
<1>8. AccessOK(q, now, usedAt', lastUsed')
  BY <1>0, <1>1, <1>3, <1>7 DEF AccessOK, Busy, Access
<1>9. thr'[t] = q /\ \A u \in Threads \ {t} : thr'[u] = thr[u]
  BY <1>2 DEF IInv, ShapeInv
<1>10. pools'[d].st = "open" /\ pools'[d].gen = g
       /\ \A x \in Dbs \ {d} : pools'[x] = pools[x]
  BY <1>1, <1>2
<1>11. DataInv'
  <2>1. lastUsed[d] = None => <<d, g>> \in orphans'
    <3>1. lastUsed[d] = None => d \in thr[t].forgot
      BY <1>0, <1>1, <1>7 DEF AccessOK, Access
    <3>2. lastUsed[d] = None /\ pools[d].st = "open" => <<d, g>> \in orphans
      BY <1>1, <1>5 DEF DataInv
    <3>3. QED BY <1>6, <3>1, <3>2
  <2>2. ASSUME NEW x \in Dbs
        PROVE  /\ pools'[x].st # "none" => pools'[x].gen > 0
               /\ pools'[x].st = "open" /\ lastUsed[x] = None => <<x, pools'[x].gen>> \in orphans'
    <3>1. CASE x = d
      BY <1>5, <1>10, <2>1, <3>1
    <3>2. CASE x # d
      BY <1>1, <1>6, <1>10, <3>2 DEF DataInv
    <3>3. QED BY <3>1, <3>2
  <2>3. QED BY <1>1, <2>2 DEF DataInv
<1>12. \A x \in Dbs : usedAt[x] <= usedAt'[x] /\ (lastUsed'[x] = None => lastUsed[x] = None)
  BY <1>1 DEF DataInv
<1>13. Covered(d)'
  <2>1. usedAt[d] \in Nat /\ lastCheck \in Nat /\ now \in Nat /\ lastCheck <= now
        /\ StepBound \in Nat /\ EvictAfter \in Nat /\ StepBound < EvictAfter /\ thr[t].since \in Nat
    BY <1>1, TenancyAssumption DEF DataInv, Control
  <2>2. now <= thr[t].since + StepBound /\ thr[t].since <= usedAt[d]
    BY <1>0, <1>1, <1>7 DEF AccessOK, Busy, Access
  <2>3. lastCheck' - usedAt'[d] < EvictAfter
    BY <1>1, <2>1, <2>2
  <2>4. QED BY <2>3 DEF Covered
<1>14. ASSUME NEW x \in Dbs \ {d}, Covered(x) PROVE Covered(x)'
  <2>1. pools'[x].gen = pools[x].gen /\ usedAt[x] <= usedAt'[x]
    BY <1>10, <1>12
  <2>2. Borrowed(x) => Borrowed(x)'
    BY <1>1, <2>1, BorrowedStays
  <2>3. QED BY <1>1, <1>6, <1>11, <1>14, <2>1, <2>2, CoverKept
<1>15. ASSUME NEW u \in Threads \ {t} PROVE LookOK(u)'
  <2>1. \A x \in Dbs : pools'[x].st = "open" =>
           Covered(x)' \/ (pools[x].st = "open" /\ (Covered(x) => Covered(x)'))
    BY <1>10, <1>13, <1>14
  <2>2. LookOK(u) /\ thr'[u] = thr[u] /\ lock' = lock
    BY <1>1, <1>9 DEF PoolInv
  <2>3. QED BY <2>1, <2>2, LookGoesOn
<1>16. LookOK(t)'
  BY <1>3, <1>9 DEF LookOK
<1>17. QED BY <1>1, <1>8, <1>9, <1>11, <1>12, <1>15, <1>16, PoolStep

LEMMA PoolGetConn ==
    ASSUME IInv, PoolInv, NEW t \in Threads, GetConn(t)
    PROVE  PoolInv'
<1> USE DEF handler, ghosts
<1> DEFINE d == thr[t].alias
<1>1. thr[t] \in Control /\ thr[t].pc = "getconn" /\ DataInv /\ d \in Dbs
      /\ UNCHANGED <<now, lastUsed, lastCheck, lock, usedAt, orphans, lost>>
      /\ pools \in [Dbs -> [st : {"none", "new", "open"}, gen : Nat]]
      /\ wrapper \in [Threads -> Wrappers]
  BY DEF GetConn, IInv, ShapeInv, PoolInv, Control
<1>2. AccessOK(thr[t], now, usedAt, lastUsed)
  BY DEF PoolInv
<1>3. \A x \in Dbs : usedAt[x] <= usedAt'[x] /\ (lastUsed'[x] = None => lastUsed[x] = None)
  BY <1>1 DEF DataInv
<1>4. CASE wrapper' = [wrapper EXCEPT ![t][d].conn = pools[d].gen]
           /\ thr' = [thr EXCEPT ![t].pc = "exec"] /\ pools' = pools
  <2> DEFINE q == [thr[t] EXCEPT !.pc = "exec"]
  <2> DEFINE w == [wrapper[t][d] EXCEPT !.conn = pools[d].gen]
  <2>1. thr' = [thr EXCEPT ![t] = q]
        /\ wrapper' = [wrapper EXCEPT ![t] = [wrapper[t] EXCEPT ![d] = w]]
    BY <1>1, <1>4
  <2>2. q.pc = "exec" /\ q.alias = d /\ q.since = thr[t].since /\ q.forgot = thr[t].forgot
    BY <1>1 DEF Control
  <2>3. w.conn = pools[d].gen
    BY <1>1 DEF Wrappers
  <2> HIDE DEF q, w, d
  <2>4. wrapper'[t][d] = w /\ \A u \in Threads, x \in Dbs \ {d} : wrapper'[u][x] = wrapper[u][x]
    BY <1>1, <2>1 DEF Wrappers
  <2>5. thr'[t] = q /\ \A u \in Threads \ {t} : thr'[u] = thr[u]
    BY <2>1 DEF IInv, ShapeInv
  <2>6. ASSUME NEW x \in Dbs, Borrowed(x) PROVE Borrowed(x)'
    <3>1. CASE x = d
      BY <1>4, <2>3, <2>4, <3>1 DEF Borrowed
    <3>2. CASE x # d
      BY <1>1, <1>4, <2>4, <2>6, <3>2 DEF Borrowed
    <3>3. QED BY <3>1, <3>2
  <2>7. DataInv'
    BY <1>1, <1>4 DEF DataInv
  <2>8. ASSUME NEW x \in Dbs, Covered(x) PROVE Covered(x)'
    BY <1>1, <1>3, <1>4, <2>6, <2>7, <2>8, CoverKept
  <2>9. ASSUME NEW u \in Threads \ {t} PROVE LookOK(u)'
    <3>1. \A x \in Dbs : pools'[x].st = "open" =>
             Covered(x)' \/ (pools[x].st = "open" /\ (Covered(x) => Covered(x)'))
      BY <1>4, <2>8
    <3>2. LookOK(u) /\ thr'[u] = thr[u] /\ lock' = lock
      BY <1>1, <2>5 DEF PoolInv
    <3>3. QED BY <3>1, <3>2, LookGoesOn
  <2>10. LookOK(t)'
    BY <2>2, <2>5 DEF LookOK
  <2>11. AccessOK(q, now, usedAt', lastUsed')
    BY <1>1, <1>2, <2>2 DEF AccessOK, Busy, Access, d
  <2>12. QED BY <1>1, <1>3, <2>5, <2>7, <2>9, <2>10, <2>11, PoolStep
<1>5. CASE thr' = [thr EXCEPT ![t] = Ended(thr[t], "fail")] /\ wrapper' = wrapper
           /\ pools' = [pools EXCEPT ![d] =
                IF pools[d].st = "none" THEN [st |-> "new", gen |-> pools[d].gen + 1] ELSE pools[d]]
  <2> DEFINE q == Ended(thr[t], "fail")
  <2> DEFINE p == IF pools[d].st = "none" THEN [st |-> "new", gen |-> pools[d].gen + 1] ELSE pools[d]
  <2>1. thr' = [thr EXCEPT ![t] = q] /\ pools' = [pools EXCEPT ![d] = p]
    BY <1>5
  <2>2. q.pc = "fail"
    BY <1>1 DEF Control, Ended
  <2>3. pools[d] \in [st : {"none", "new", "open"}, gen : Nat]
        /\ (pools[d].st # "none" => pools[d].gen > 0)
    BY <1>1 DEF DataInv
  <2>4. p.gen > 0 /\ p.st # "none" /\ (p.st = "open" => p = pools[d])
    BY <2>3
  <2> HIDE DEF q, p, d
  <2>5. pools'[d] = p /\ \A x \in Dbs \ {d} : pools'[x] = pools[x]
    BY <1>1, <2>1
  <2>6. thr'[t] = q /\ \A u \in Threads \ {t} : thr'[u] = thr[u]
    BY <2>1 DEF IInv, ShapeInv
  <2>7. DataInv'
    <3>1. ASSUME NEW x \in Dbs
          PROVE  /\ pools'[x].st # "none" => pools'[x].gen > 0
                 /\ pools'[x].st = "open" /\ lastUsed[x] = None => <<x, pools'[x].gen>> \in orphans
      <4>1. CASE x = d
        BY <1>1, <2>4, <2>5, <4>1 DEF DataInv
      <4>2. CASE x # d
        BY <1>1, <2>5, <4>2 DEF DataInv
      <4>3. QED BY <4>1, <4>2
    <3>2. QED BY <1>1, <3>1 DEF DataInv
  <2>8. ASSUME NEW x \in Dbs, pools'[x].st = "open", Covered(x) PROVE Covered(x)'
    <3>1. pools'[x] = pools[x]
      BY <2>4, <2>5, <2>8
    <3>2. Borrowed(x) => Borrowed(x)'
      BY <1>1, <1>5, <3>1, BorrowedStays
    <3>3. QED BY <1>1, <1>3, <2>7, <2>8, <3>1, <3>2, CoverKept
  <2>9. ASSUME NEW u \in Threads \ {t} PROVE LookOK(u)'
    <3>1. \A x \in Dbs : pools'[x].st = "open" =>
             Covered(x)' \/ (pools[x].st = "open" /\ (Covered(x) => Covered(x)'))
      BY <2>4, <2>5, <2>8
    <3>2. LookOK(u) /\ thr'[u] = thr[u] /\ lock' = lock
      BY <1>1, <2>6 DEF PoolInv
    <3>3. QED BY <3>1, <3>2, LookGoesOn
  <2>10. LookOK(t)'
    BY <2>2, <2>6 DEF LookOK
  <2>11. AccessOK(q, now, usedAt', lastUsed')
    BY <2>2, NoAccess
  <2>12. QED BY <1>1, <1>3, <2>6, <2>7, <2>9, <2>10, <2>11, PoolStep
<1>6. QED BY <1>4, <1>5 DEF GetConn

\* A database that is forgotten loses its pool and its time of last use; no look
\* is going on, and the accesses of other threads learn that it was forgotten.
LEMMA PoolForget ==
    ASSUME IInv, PoolInv, NEW t \in Threads, ServiceForgets(t) \/ _reset_lock_timeout(t)
    PROVE  PoolInv'
<1>0. PICK d \in Dbs, pc \in {"work", "applied", "fail"} :
        /\ forget_database(t, d) /\ thr' = Forgotten(t, d, pc)
        /\ thr[t].pc \in {"work", "fail"}
        /\ UNCHANGED <<now, lastCheck, lock, usedAt, orphans, lost>>
  BY ServicesForget
<1>1. /\ thr \in [Threads -> Control] /\ DataInv /\ lock = None
      /\ UNCHANGED <<now, lastCheck, lock, usedAt, orphans, lost>>
      /\ pools \in [Dbs -> [st : {"none", "new", "open"}, gen : Nat]]
  BY <1>0 DEF forget_database, IInv, ShapeInv, PoolInv
<1>2. pools' = [pools EXCEPT ![d].st = "none"] /\ lastUsed' = [lastUsed EXCEPT ![d] = None]
  BY <1>0 DEF forget_database
<1>3. DataInv'
  <2>1. lastUsed' \in [Dbs -> Nat \cup {None}]
    BY <1>1, <1>2 DEF DataInv
  <2>2. ASSUME NEW x \in Dbs
        PROVE  /\ lastUsed'[x] \in {None, usedAt[x]}
               /\ pools'[x].st # "none" => pools'[x].gen > 0
               /\ pools'[x].st = "open" /\ lastUsed'[x] = None => <<x, pools'[x].gen>> \in orphans
    <3>1. CASE x = d
      <4>1. lastUsed'[x] = None /\ pools'[x].st = "none"
        BY <1>1, <1>2, <3>1 DEF DataInv
      <4>2. QED BY <4>1
    <3>2. CASE x # d
      <4>1. lastUsed'[x] = lastUsed[x] /\ pools'[x] = pools[x]
        BY <1>1, <1>2, <3>2 DEF DataInv
      <4>2. QED BY <1>1, <4>1 DEF DataInv
    <3>3. QED BY <3>1, <3>2
  <2>3. QED BY <1>1, <2>1, <2>2 DEF DataInv
<1>4. ASSUME NEW u \in Threads
      PROVE  AccessOK(thr'[u], now', usedAt', lastUsed') /\ LookOK(u)'
  <2>0. /\ thr'[t].pc = pc
        /\ thr'[u].alias = thr[u].alias /\ thr'[u].since = thr[u].since
        /\ thr'[u].todo = thr[u].todo
        /\ u # t => /\ thr'[u].pc = thr[u].pc
                    /\ thr[u].pc = "idle" => thr'[u] = thr[u]
                    /\ thr[u].pc # "idle" => thr'[u].forgot = thr[u].forgot \cup {d}
    BY <1>0, <1>1, ForgottenThreads
  <2>1. /\ thr'[u].pc \in Busy => thr[u].pc = thr'[u].pc
        /\ thr'[u].alias = thr[u].alias /\ thr'[u].since = thr[u].since
        /\ thr[u].alias \in Dbs
        /\ thr'[u].pc \in Access => thr[u].forgot \subseteq thr'[u].forgot /\ d \in thr'[u].forgot
    <3>1. thr[u].alias \in Dbs
      BY <1>1 DEF Control
    <3>2. CASE u = t
      <4>1. thr'[u].pc \notin Busy \cup Access
        BY <2>0, <3>2 DEF Busy, Access
      <4>2. QED BY <2>0, <3>1, <4>1
    <3>3. CASE u # t
      <4>1. thr'[u].pc = thr[u].pc
        BY <2>0, <3>3
      <4>2. thr[u].pc \in Access => thr'[u].forgot = thr[u].forgot \cup {d}
        BY <2>0, <3>3 DEF Access
      <4>3. QED BY <2>0, <3>1, <4>1, <4>2
    <3>4. QED BY <3>2, <3>3
  <2>2. AccessOK(thr[u], now, usedAt, lastUsed)
    BY DEF PoolInv
  <2>3. lastUsed'[thr[u].alias] = None => lastUsed[thr[u].alias] = None \/ thr[u].alias = d
    BY <1>1, <1>2, <2>1 DEF DataInv
  <2>4. AccessOK(thr'[u], now', usedAt', lastUsed')
    BY <1>1, <2>1, <2>2, <2>3 DEF AccessOK, Busy, Access
  <2>5. thr'[u].pc \notin {"evict", "close"}
    <3>1. thr[u].pc \notin {"evict", "close"}
      BY <1>1, TenancyAssumption DEF PoolInv, LookOK
    <3>2. QED BY <2>1, <3>1 DEF Busy, Access
  <2>6. QED BY <2>4, <2>5 DEF LookOK
<1>5. QED BY <1>3, <1>4 DEF PoolInv

\* The pool opens without a time of last use, and is an orphan if it had none.
LEMMA PoolRead ==
    ASSUME IInv, PoolInv, NEW t \in Threads, ReadApplied(t)
    PROVE  PoolInv'
<1>0. PICK d \in Dbs : d = current_database(t)
  BY CurrentIs, CurInDbs DEF IInv, ShapeInv
<1> DEFINE g == IF pools[d].st = "none" THEN pools[d].gen + 1 ELSE pools[d].gen
<1>1. thr \in [Threads -> Control] /\ thr[t] \in Control /\ DataInv /\ d \in Dbs
      /\ UNCHANGED <<now, lastUsed, lastCheck, lock, wrapper, usedAt>>
      /\ pools \in [Dbs -> [st : {"none", "new", "open"}, gen : Nat]]
  BY DEF ReadApplied, IInv, ShapeInv, PoolInv
<1>2. pools' = [pools EXCEPT ![d] = [st |-> "open", gen |-> g]] /\ lost \subseteq lost'
  BY <1>0, <1>1 DEF ReadApplied
<1>3. PICK pc \in {"work", "fail"} : thr' = [thr EXCEPT ![t] = [thr[t] EXCEPT !.pc = pc]]
  BY DEF ReadApplied
<1>4. pools[d] \in [st : {"none", "new", "open"}, gen : Nat]
      /\ (pools[d].st # "none" => pools[d].gen > 0)
  BY <1>1 DEF DataInv
<1>5. g \in Nat /\ g > 0 /\ (pools[d].st = "open" => g = pools[d].gen)
  BY <1>4
<1>6. pools'[d].st = "open" /\ pools'[d].gen = g /\ \A x \in Dbs \ {d} : pools'[x] = pools[x]
  BY <1>1, <1>2
<1>7. orphans \subseteq orphans' /\ (pools[d].st # "open" => <<d, g>> \in orphans')
  BY <1>0, <1>6 DEF ReadApplied
<1> HIDE DEF g
<1>8. thr'[t].pc = pc /\ \A u \in Threads \ {t} : thr'[u] = thr[u]
  BY <1>1, <1>3 DEF Control
<1>9. DataInv'
  <2>1. ASSUME NEW x \in Dbs
        PROVE  /\ pools'[x].st # "none" => pools'[x].gen > 0
               /\ pools'[x].st = "open" /\ lastUsed[x] = None => <<x, pools'[x].gen>> \in orphans'
    <3>1. CASE x = d
      <4>1. lastUsed[d] = None /\ pools[d].st = "open" => <<d, g>> \in orphans
        BY <1>1, <1>5 DEF DataInv
      <4>2. QED BY <1>5, <1>6, <1>7, <3>1, <4>1
    <3>2. CASE x # d
      BY <1>1, <1>6, <1>7, <3>2 DEF DataInv
    <3>3. QED BY <3>1, <3>2
  <2>2. QED BY <1>1, <2>1 DEF DataInv
<1>10. \A x \in Dbs : usedAt[x] <= usedAt'[x] /\ (lastUsed'[x] = None => lastUsed[x] = None)
  BY <1>1 DEF DataInv
<1>11. \A x \in Dbs : pools'[x].gen = pools[x].gen /\ Borrowed(x) => Borrowed(x)'
  BY <1>1, <1>2, BorrowedStays
<1>12. ASSUME NEW x \in Dbs, pools[x].st = "open", Covered(x) PROVE Covered(x)'
  <2>1. pools'[x].gen = pools[x].gen
    BY <1>5, <1>6, <1>12
  <2>2. QED BY <1>1, <1>7, <1>9, <1>10, <1>11, <1>12, <2>1, CoverKept
<1>13. pools[d].st # "open" => Covered(d)'
  BY <1>6, <1>7 DEF Covered
<1>14. ASSUME NEW u \in Threads \ {t} PROVE LookOK(u)'
  <2>1. \A x \in Dbs : pools'[x].st = "open" =>
           Covered(x)' \/ (pools[x].st = "open" /\ (Covered(x) => Covered(x)'))
    <3>1. ASSUME NEW x \in Dbs, pools'[x].st = "open", pools[x].st # "open" PROVE Covered(x)'
      <4>1. x = d
        BY <1>6, <3>1
      <4>2. QED BY <1>13, <3>1, <4>1
    <3>2. QED BY <1>12, <3>1
  <2>2. LookOK(u) /\ thr'[u] = thr[u] /\ lock' = lock
    BY <1>1, <1>8 DEF PoolInv
  <2>3. QED BY <2>1, <2>2, LookGoesOn
<1>15. LookOK(t)'
  BY <1>8 DEF LookOK
<1>16. AccessOK(thr'[t], now, usedAt', lastUsed')
  BY <1>8, NoAccess
<1>17. QED BY <1>1, <1>8, <1>9, <1>10, <1>14, <1>15, <1>16, PoolStep

LEMMA PoolTick ==
    ASSUME IInv, PoolInv, Tick
    PROVE  PoolInv'
<1> USE DEF handler, ghosts
<1>1. /\ now' = now + 1 /\ now \in Nat /\ DataInv
      /\ UNCHANGED <<lastUsed, lastCheck, lock, pools, wrapper, thr, usedAt, orphans, lost>>
  BY DEF Tick, IInv, ShapeInv, PoolInv
<1>2. DataInv'
  <2>1. ASSUME NEW d \in Dbs PROVE usedAt[d] <= now'
    <3>1. usedAt[d] \in Nat /\ usedAt[d] <= now
      BY <1>1 DEF DataInv
    <3>2. QED BY <1>1, <3>1
  <2>2. now' \in Nat /\ lastCheck <= now'
    BY <1>1 DEF DataInv
  <2>3. QED BY <1>1, <2>1, <2>2 DEF DataInv
<1>3. ASSUME NEW t \in Threads
      PROVE  AccessOK(thr'[t], now', usedAt', lastUsed') /\ LookOK(t)'
  <2>1. AccessOK(thr[t], now, usedAt, lastUsed) /\ LookOK(t)
    BY DEF PoolInv
  <2>2. thr[t].pc \in Busy => now < thr[t].since + StepBound
    BY DEF Tick, Outside, Busy, Access
  <2>3. thr[t].since \in Nat /\ StepBound \in Nat
    BY TenancyAssumption DEF IInv, ShapeInv, Control
  <2>4. AccessOK(thr'[t], now', usedAt', lastUsed')
    BY <1>1, <2>1, <2>2, <2>3 DEF AccessOK
  <2>5. LookOK(t)'
    BY <1>1, <2>1 DEF LookOK, Covered, Borrowed
  <2>6. QED BY <2>4, <2>5
<1>4. QED BY <1>2, <1>3 DEF PoolInv

LEMMA PoolInductive == IInv /\ PoolInv /\ [Next]_vars => PoolInv'
<1> SUFFICES ASSUME IInv, PoolInv, [Next]_vars PROVE PoolInv'
  OBVIOUS
<1>1. CASE UNCHANGED vars
  <2>1. UNCHANGED <<now, lastUsed, lastCheck, lock, pools, wrapper, thr, usedAt, orphans, lost>>
    BY <1>1 DEF vars, handler, ghosts
  <2>2. QED BY <2>1 DEF PoolInv, DataInv, AccessOK, LookOK, Covered, Borrowed
<1>2. ASSUME NEW t \in Threads,
             \/ \E h \in Dbs \cup Refused \cup {NoHeader} : Request(t, h)
             \/ \E d \in Dbs : use_database(t, d)
             \/ \E kind \in {"query", "atomic"} : Lookup(t, kind)
             \/ Leave(t) \/ Finish(t) \/ GetItem(t) \/ Touch(t)
             \/ EvictLook(t) \/ EvictClose(t) \/ EvictDone(t)
             \/ OpenPool(t) \/ GetConn(t) \/ Exec(t) \/ EndAtomic(t) \/ Raise(t)
             \/ ServiceForgets(t) \/ _reset_lock_timeout(t) \/ ReadApplied(t)
      PROVE  PoolInv'
  BY <1>2, PoolQuiet, PoolForget, PoolLookup, PoolFinish, PoolGetItem, PoolTouch, PoolLook,
     PoolClose, PoolDone, PoolOpen, PoolGetConn, PoolEndAtomic, PoolRead
<1>3. QED BY <1>1, <1>2, PoolTick DEF Next

LEMMA PoolInvariance == Spec => []PoolInv
  BY Invariance, PoolStart, PoolInductive, PTL DEF Spec

\* Only EvictDone ends a look.
LEMMA LookEnds ==
    ASSUME IInv, [Next]_vars, NEW t \in Threads,
           thr[t].pc = "evict", thr'[t].pc \in {"exec", "open"}
    PROVE  EvictDone(t)
<1> USE DEF handler, ghosts
<1>1. thr \in [Threads -> Control] /\ thr[t] \in Control /\ thr' # thr
  BY DEF IInv, ShapeInv
<1>2. PICK u \in Threads :
        \/ \E h \in Dbs \cup Refused \cup {NoHeader} : Request(u, h)
        \/ \E d \in Dbs : use_database(u, d)
        \/ \E kind \in {"query", "atomic"} : Lookup(u, kind)
        \/ Leave(u) \/ Finish(u) \/ GetItem(u) \/ Touch(u)
        \/ EvictLook(u) \/ EvictClose(u) \/ EvictDone(u)
        \/ OpenPool(u) \/ GetConn(u) \/ Exec(u) \/ EndAtomic(u) \/ Raise(u)
        \/ ServiceForgets(u) \/ _reset_lock_timeout(u) \/ ReadApplied(u)
  BY <1>1 DEF Next, Tick, vars
<1>3. ASSUME ServiceForgets(u) \/ _reset_lock_timeout(u) PROVE FALSE
  <2>1. PICK d \in Dbs, pc \in {"work", "applied", "fail"} :
          thr' = Forgotten(u, d, pc) /\ thr[u].pc \in {"work", "fail"}
    BY <1>3, ServicesForget
  <2>2. thr'[u].pc = pc /\ \A v \in Threads \ {u} : thr'[v].pc = thr[v].pc
    BY <1>1, <2>1, ForgottenThreads
  <2>3. QED BY <2>1, <2>2
<1>4. ASSUME \E q : thr' = [thr EXCEPT ![u] = q] PROVE u = t
  BY <1>1, <1>4
<1>5. ASSUME NEW h \in Dbs \cup Refused \cup {NoHeader}, Request(u, h) PROVE FALSE
  BY <1>1, <1>4, <1>5 DEF Request
<1>6. ASSUME NEW d \in Dbs, use_database(u, d) PROVE FALSE
  BY <1>1, <1>4, <1>6 DEF use_database, Enter
<1>7. ASSUME NEW kind \in {"query", "atomic"}, Lookup(u, kind) PROVE FALSE
  BY <1>1, <1>4, <1>7 DEF Lookup
<1>8. ASSUME Leave(u) \/ Finish(u) \/ GetItem(u) \/ Exec(u) \/ EndAtomic(u) \/ Raise(u)
             \/ ReadApplied(u)
      PROVE  FALSE
  BY <1>1, <1>4, <1>8 DEF Leave, Finish, GetItem, Exec, EndAtomic, Raise, ReadApplied
<1>9. ASSUME Touch(u) \/ EvictClose(u) \/ OpenPool(u) \/ GetConn(u) PROVE FALSE
  BY <1>1, <1>4, <1>9 DEF Touch, EvictClose, OpenPool, GetConn
<1>10. ASSUME EvictLook(u) PROVE FALSE
  <2>1. PICK d \in thr[u].todo : EvictNext(u, d)
    BY <1>10 DEF EvictLook
  <2>2. u = t
    BY <1>1, <1>4, <2>1 DEF EvictNext
  <2>3. thr' = [thr EXCEPT ![t] = [thr[t] EXCEPT !.pc = "close", !.victim = d]]
        \/ thr' = [thr EXCEPT ![t] = [thr[t] EXCEPT !.todo = thr[t].todo \ {d}]]
    BY <1>1, <2>1, <2>2 DEF EvictNext
  <2>4. thr'[t].pc \in {"close", "evict"}
    BY <1>1, <2>3 DEF Control
  <2>5. QED BY <2>4
<1>11. EvictDone(u) => u = t
  BY <1>1, <1>4 DEF EvictDone
<1>12. QED BY <1>2, <1>3, <1>5, <1>6, <1>7, <1>8, <1>9, <1>10, <1>11

\* When a look ends, every pool that is still open was used within EvictAfter,
\* lends a connection, or belongs to a database forgotten under its users: the
\* pass of evict_idle_pools misses no pool, whatever the other threads open,
\* borrow, give back and forget while it runs.
THEOREM LooksCloseIdlePools == Spec => IdlePoolsClosed
<1> DEFINE Step == \A t \in Threads : (thr[t].pc = "evict" /\ thr'[t].pc \in {"exec", "open"}) =>
                     \A d \in Dbs : pools[d].st = "open" => Covered(d)
<1>1. IInv /\ PoolInv /\ [Next]_vars => [Step]_vars
  <2> SUFFICES ASSUME IInv, PoolInv, [Next]_vars PROVE Step
    OBVIOUS
  <2> SUFFICES ASSUME NEW t \in Threads, thr[t].pc = "evict", thr'[t].pc \in {"exec", "open"},
                      NEW d \in Dbs, pools[d].st = "open"
               PROVE  Covered(d)
    OBVIOUS
  <2>1. thr[t].todo = {}
    BY LookEnds DEF EvictDone
  <2>2. QED BY <2>1 DEF PoolInv, LookOK
<1>2. IdlePoolsClosed <=> [][Step]_vars
  BY DEF IdlePoolsClosed, Covered
<1>3. QED BY <1>1, <1>2, Invariance, PoolInvariance, PTL DEF Spec

=============================================================================
