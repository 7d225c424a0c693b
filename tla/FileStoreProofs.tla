----------------------------- MODULE FileStoreProofs -----------------------------
(***************************************************************************)
(* Proofs about the filestore, for any records, contents and names.  The   *)
(* types hold for any number of requests at a time.  That every record is  *)
(* served and that the last reference takes the bytes with it is proved    *)
(* where the code makes it true: one request at a time, none failing once  *)
(* it has removed a file.                                                  *)
(***************************************************************************)
EXTENDS FileStore, FiniteSetTheorems, TLAPS

\* Functions from some of K to V.
Partial(K, V) == UNION {[D -> V] : D \in SUBSET K}

----------------------------------------------------------------------------
(* Types.                                                                  *)

Row == {NoFile} \cup [key : Keys, content : Contents]

Tx == [pc : {"idle", "probe", "save", "name", "link", "reference", "delete", "unreference",
             "remove", "unlink", "commit"},
       kind : {"none", "upload", "delete"}, record : Records \cup {Null},
       content : Contents \cup {Null}, name : Names \cup {Null}, found : BOOLEAN,
       key : Keys \cup {Null}, todo : SUBSET Keys, last : BOOLEAN, removed : BOOLEAN,
       refs : Partial(Keys, Contents \cup {Null}), records : Partial(Records, Row)]

\* A record links into its own store.
OwnStore(r, row) == row # NoFile => row.key[1] = Store[r]

\* What a request knows by the point it has reached.
TxOK(t) ==
    /\ \A r \in DOMAIN t.records : OwnStore(r, t.records[r])
    /\ t.pc \in {"probe", "save", "name", "link", "reference"}
         => t.record \in Records /\ t.content \in Contents
    /\ t.pc \in {"link", "reference"} => t.key \in Keys /\ t.key[1] = Store[t.record]
    /\ t.pc \in {"unreference", "remove", "unlink"} => t.key \in Keys

Types ==
    /\ files \subseteq Contents /\ strays \subseteq Contents
    /\ links \in Partial(Keys, Contents)
    /\ refs \in [Keys -> Contents \cup {Null}]
    /\ records \in [Records -> Row] /\ \A r \in Records : OwnStore(r, records[r])
    /\ tx \in [Procs -> Tx] /\ \A p \in Procs : TxOK(tx[p])

LEMMA PartialFunction ==
    ASSUME NEW K, NEW V, NEW f
    PROVE  f \in Partial(K, V) <=> DOMAIN f \subseteq K /\ f \in [DOMAIN f -> V]
BY DEF Partial

\* Writing rows over others keeps their types.
LEMMA OverlayPartial ==
    ASSUME NEW K, NEW V, NEW f \in Partial(K, V), NEW g \in Partial(K, V)
    PROVE  Overlay(f, g) \in Partial(K, V)
<1>1. /\ DOMAIN f \subseteq K /\ \A x \in DOMAIN f : f[x] \in V
      /\ DOMAIN g \subseteq K /\ \A x \in DOMAIN g : g[x] \in V
  BY PartialFunction
<1>2. Overlay(f, g) \in [DOMAIN f \cup DOMAIN g -> V]
  BY <1>1 DEF Overlay
<1>3. QED  BY <1>1, <1>2 DEF Partial

LEMMA OverlayTotal ==
    ASSUME NEW K, NEW V, NEW f \in Partial(K, V), NEW g \in [K -> V]
    PROVE  Overlay(f, g) \in [K -> V]
<1>1. DOMAIN f \subseteq K /\ \A x \in DOMAIN f : f[x] \in V
  BY PartialFunction
<1>2. QED  BY <1>1 DEF Overlay

LEMMA SinglePartial ==
    ASSUME NEW K, NEW V, NEW S \in SUBSET K, NEW v \in V
    PROVE  [x \in S |-> v] \in Partial(K, V)
BY DEF Partial

LEMMA NoWritesPartial ==
    ASSUME NEW K, NEW V
    PROVE  NoWrites \in Partial(K, V) /\ DOMAIN NoWrites = {}
BY DEF Partial, NoWrites

LEMMA IdleType == Idle \in Tx /\ TxOK(Idle)
<1>1. NoWrites \in Partial(Keys, Contents \cup {Null}) /\ NoWrites \in Partial(Records, Row)
      /\ DOMAIN NoWrites = {}
  BY NoWritesPartial
<1>2. QED  BY <1>1 DEF Idle, Tx, TxOK

\* The step of one request keeps the types of what the requests know.
LEMMA TxStep ==
    ASSUME Types, NEW p \in Procs, NEW q \in Tx, TxOK(q), tx' = [tx EXCEPT ![p] = q]
    PROVE  tx' \in [Procs -> Tx] /\ \A o \in Procs : TxOK(tx'[o])
BY DEF Types

LEMMA KeyOf ==
    ASSUME NEW r \in Records, NEW n \in Names
    PROVE  SymlinkPath(r, n) \in Keys /\ SymlinkPath(r, n)[1] = Store[r]
BY FileAssumption DEF SymlinkPath, Keys

LEMMA InitTypes ==
    ASSUME Init
    PROVE  Types
BY IdleType, NoWritesPartial DEF Init, Types, Row, OwnStore

LEMMA NextTypes ==
    ASSUME Types, [Next]_vars
    PROVE  Types'
<1>1. ASSUME NEW p \in Procs, NEW r \in Records, NEW n \in Names, NEW c \in Contents,
             Upload(p, r, n, c)
      PROVE  Types'
  <2> DEFINE q == [Idle EXCEPT !.pc = "probe", !.kind = "upload", !.record = r,
                               !.name = n, !.content = c]
  <2>1. q \in Tx
    BY IdleType DEF Tx
  <2>2. TxOK(q)
    BY NoWritesPartial DEF TxOK, Idle
  <2>3. tx' = [tx EXCEPT ![p] = q] /\ UNCHANGED <<files, strays, links, refs, records>>
    BY <1>1 DEF Upload, Become
  <2> HIDE DEF q
  <2>4. QED  BY <2>1, <2>2, <2>3, TxStep DEF Types
<1>2. ASSUME NEW p \in Procs, SaveProbe(p)
      PROVE  Types'
  <2> DEFINE found == tx[p].content \in files
             q == [tx[p] EXCEPT !.pc = "save", !.found = found]
  <2>1. tx[p] \in Tx /\ TxOK(tx[p]) /\ tx[p].pc = "probe"
    BY <1>2 DEF Types, SaveProbe
  <2>2. tx' = [tx EXCEPT ![p] = q] /\ UNCHANGED <<files, strays, links, refs, records>>
    BY <1>2 DEF SaveProbe, Become
  <2>3. found \in BOOLEAN
    OBVIOUS
  <2> HIDE DEF found
  <2>4. q \in Tx /\ TxOK(q)
    BY <2>1, <2>3 DEF Tx, TxOK
  <2> HIDE DEF q
  <2>5. QED  BY <2>2, <2>4, TxStep DEF Types
<1>3. ASSUME NEW p \in Procs, SaveFile(p)
      PROVE  Types'
  <2> DEFINE q == [tx[p] EXCEPT !.pc = "name"]
  <2>1. tx[p] \in Tx /\ TxOK(tx[p]) /\ tx[p].pc = "save"
    BY <1>3 DEF Types, SaveFile
  <2>2. q \in Tx /\ TxOK(q)
    BY <2>1 DEF Tx, TxOK
  <2>3. tx[p].content \in Contents
    BY <2>1 DEF TxOK
  <2>4. tx' = [tx EXCEPT ![p] = q] /\ UNCHANGED <<links, refs, records>>
    BY <1>3 DEF SaveFile, Become
  <2>5. files' \subseteq Contents /\ strays' \subseteq Contents
    BY <1>3, <2>3 DEF SaveFile, Types
  <2> HIDE DEF q
  <2>6. QED  BY <2>2, <2>4, <2>5, TxStep DEF Types
<1>4. ASSUME NEW p \in Procs, NEW n \in Names, SaveName(p, n)
      PROVE  Types'
  <2> DEFINE q == [tx[p] EXCEPT !.pc = "link", !.key = SymlinkPath(tx[p].record, n)]
  <2>1. tx[p] \in Tx /\ TxOK(tx[p]) /\ tx[p].pc = "name"
    BY <1>4 DEF Types, SaveName
  <2>2. tx[p].record \in Records
    BY <2>1 DEF TxOK
  <2>3. q \in Tx /\ TxOK(q)
    BY <2>1, <2>2, KeyOf DEF Tx, TxOK
  <2>4. tx' = [tx EXCEPT ![p] = q] /\ UNCHANGED <<files, strays, links, refs, records>>
    BY <1>4 DEF SaveName, Become
  <2> HIDE DEF q
  <2>5. QED  BY <2>3, <2>4, TxStep DEF Types
<1>5. ASSUME NEW p \in Procs, SaveLink(p)
      PROVE  Types'
  <2> DEFINE q == [tx[p] EXCEPT !.pc = "reference"]
  <2>1. tx[p] \in Tx /\ TxOK(tx[p]) /\ tx[p].pc = "link"
    BY <1>5 DEF Types, SaveLink
  <2>2. q \in Tx /\ TxOK(q)
    BY <2>1 DEF Tx, TxOK
  <2>3. [k \in {tx[p].key} |-> tx[p].content] \in Partial(Keys, Contents)
    BY <2>1, SinglePartial DEF TxOK
  <2>4. tx' = [tx EXCEPT ![p] = q] /\ UNCHANGED <<files, strays, refs, records>>
        /\ links' = Overlay(links, [k \in {tx[p].key} |-> tx[p].content])
    BY <1>5 DEF SaveLink, Become
  <2>5. links' \in Partial(Keys, Contents)
    BY <2>3, <2>4, OverlayPartial DEF Types
  <2> HIDE DEF q
  <2>6. QED  BY <2>2, <2>4, <2>5, TxStep DEF Types
<1>6. ASSUME NEW p \in Procs, SaveReference(p)
      PROVE  Types'
  <2> DEFINE t == tx[p]
             row == [key |-> t.key, content |-> t.content]
             own == [k \in {t.key} |-> t.content]
             rows == [r \in {t.record} |-> row]
             q == [t EXCEPT !.pc = "commit", !.refs = own, !.records = rows]
  <2>1. t \in Tx /\ TxOK(t) /\ t.pc = "reference"
    BY <1>6 DEF Types, SaveReference
  <2>2. t.key \in Keys /\ t.key[1] = Store[t.record] /\ t.content \in Contents /\ t.record \in Records
    BY <2>1 DEF TxOK
  <2>3. own \in Partial(Keys, Contents \cup {Null})
    BY <2>2, SinglePartial
  <2>4. row \in Row /\ OwnStore(t.record, row)
    BY <2>2 DEF Row, OwnStore
  <2>5. rows \in Partial(Records, Row)
    BY <2>2, <2>4, SinglePartial
  <2>6. DOMAIN rows = {t.record} /\ rows[t.record] = row
    OBVIOUS
  <2>7. tx' = [tx EXCEPT ![p] = q] /\ UNCHANGED <<files, strays, links, refs, records>>
    BY <1>6 DEF SaveReference, Become
  <2> HIDE DEF own, rows, row
  <2>8. q \in Tx /\ TxOK(q)
    BY <2>1, <2>3, <2>4, <2>5, <2>6 DEF Tx, TxOK
  <2> HIDE DEF q
  <2>9. QED  BY <2>7, <2>8, TxStep DEF Types
<1>7. ASSUME NEW p \in Procs, NEW S \in SUBSET Records, Delete(p, S)
      PROVE  Types'
  <2> DEFINE rows == {r \in S : records[r] # NoFile}
             keys == {records[r].key : r \in rows}
             gone == [r \in rows |-> NoFile]
             q == [Idle EXCEPT !.pc = "delete", !.kind = "delete", !.todo = keys, !.records = gone]
  <2>1. keys \in SUBSET Keys
    BY DEF Types, Row
  <2>2. gone \in Partial(Records, Row)
    BY SinglePartial DEF Row
  <2>3. \A r \in DOMAIN gone : OwnStore(r, gone[r])
    BY DEF OwnStore
  <2>4. tx' = [tx EXCEPT ![p] = q] /\ UNCHANGED <<files, strays, links, refs, records>>
    BY <1>7 DEF Delete, Become
  <2> HIDE DEF keys, gone
  <2>5. q \in Tx
    BY <2>1, <2>2, IdleType DEF Tx
  <2>6. TxOK(q)
    BY <2>3 DEF TxOK, Idle
  <2> HIDE DEF q
  <2>7. QED  BY <2>4, <2>5, <2>6, TxStep DEF Types
<1>8. ASSUME NEW p \in Procs, NEW k \in Keys, DeleteCount(p, k)
      PROVE  Types'
  <2> DEFINE seen == RefsSeen(p)
             only == Cardinality(SameChecksum(seen, k)) = 1
             q == [tx[p] EXCEPT !.pc = "unreference", !.key = k, !.todo = tx[p].todo \ {k},
                                !.content = seen[k], !.last = only]
  <2>1. tx[p] \in Tx /\ TxOK(tx[p])
    BY DEF Types
  <2>2. seen \in [Keys -> Contents \cup {Null}]
    BY <2>1, OverlayTotal DEF RefsSeen, Types, Tx
  <2>3. tx' = [tx EXCEPT ![p] = q] /\ UNCHANGED <<files, strays, links, refs, records>>
    BY <1>8 DEF DeleteCount, Become
  <2>4. only \in BOOLEAN
    OBVIOUS
  <2> HIDE DEF seen, only
  <2>5. q \in Tx /\ TxOK(q)
    BY <2>1, <2>2, <2>4 DEF Tx, TxOK
  <2> HIDE DEF q
  <2>6. QED  BY <2>3, <2>5, TxStep DEF Types
<1>9. ASSUME NEW p \in Procs, DeleteReferences(p)
      PROVE  Types'
  <2> DEFINE t == tx[p]
             gone == IF t.last THEN SameChecksum(RefsSeen(p), t.key)
                               ELSE {x \in {t.key} : RefsSeen(p)[x] # Null}
             over == Overlay([x \in gone |-> Null], t.refs)
             q == [t EXCEPT !.pc = "remove", !.refs = over]
  <2>1. t \in Tx /\ TxOK(t) /\ t.pc = "unreference"
    BY <1>9 DEF Types, DeleteReferences
  <2>2. gone \in SUBSET Keys
    BY <2>1 DEF SameChecksum, TxOK
  <2>3. tx' = [tx EXCEPT ![p] = q] /\ UNCHANGED <<files, strays, links, refs, records>>
    BY <1>9 DEF DeleteReferences, Become
  <2> HIDE DEF gone
  <2>4. [x \in gone |-> Null] \in Partial(Keys, Contents \cup {Null})
    BY <2>2, SinglePartial
  <2>5. over \in Partial(Keys, Contents \cup {Null})
    BY <2>1, <2>4, OverlayPartial DEF Tx
  <2> HIDE DEF over
  <2>6. q \in Tx /\ TxOK(q)
    BY <2>1, <2>5 DEF Tx, TxOK
  <2> HIDE DEF q
  <2>7. QED  BY <2>3, <2>6, TxStep DEF Types
<1>10. ASSUME NEW p \in Procs, DeleteFile(p)
       PROVE  Types'
  <2> DEFINE q == [tx[p] EXCEPT !.pc = "unlink", !.removed = TRUE]
  <2>1. tx[p] \in Tx /\ TxOK(tx[p]) /\ tx[p].pc = "remove"
    BY <1>10 DEF Types, DeleteFile
  <2>2. q \in Tx /\ TxOK(q)
    BY <2>1 DEF Tx, TxOK
  <2>3. tx' = [tx EXCEPT ![p] = q] /\ UNCHANGED <<strays, links, refs, records>>
        /\ files' \subseteq files
    BY <1>10 DEF DeleteFile, Become
  <2> HIDE DEF q
  <2>4. QED  BY <2>2, <2>3, TxStep DEF Types
<1>11. ASSUME NEW p \in Procs, DeleteLink(p)
       PROVE  Types'
  <2> DEFINE t == tx[p]
             left == {x \in DOMAIN links : x # t.key \/ t.content = Null}
             q == [t EXCEPT !.pc = IF t.todo = {} THEN "commit" ELSE "delete"]
  <2>1. t \in Tx /\ TxOK(t)
    BY DEF Types
  <2>2. q \in Tx /\ TxOK(q)
    BY <2>1 DEF Tx, TxOK
  <2>3. tx' = [tx EXCEPT ![p] = q] /\ UNCHANGED <<files, strays, refs, records>>
        /\ links' = [k \in left |-> links[k]]
    BY <1>11 DEF DeleteLink, Become
  <2>4. links' \in Partial(Keys, Contents)
    <3>1. DOMAIN links \subseteq Keys /\ \A k \in DOMAIN links : links[k] \in Contents
      BY PartialFunction DEF Types
    <3>2. links' \in [left -> Contents] /\ left \in SUBSET Keys
      BY <2>3, <3>1
    <3>3. QED  BY <3>2 DEF Partial
  <2> HIDE DEF q
  <2>5. QED  BY <2>2, <2>3, <2>4, TxStep DEF Types
<1>12. ASSUME NEW p \in Procs, Commit(p)
       PROVE  Types'
  <2>1. tx[p] \in Tx /\ TxOK(tx[p])
    BY DEF Types
  <2>2. /\ refs' = RefsSeen(p) /\ records' = Overlay(tx[p].records, records)
        /\ tx' = [tx EXCEPT ![p] = Idle] /\ UNCHANGED <<files, strays, links>>
    BY <1>12 DEF Commit
  <2>3. refs' \in [Keys -> Contents \cup {Null}]
    BY <2>1, <2>2, OverlayTotal DEF RefsSeen, Types, Tx
  <2>4. records' \in [Records -> Row]
    BY <2>1, <2>2, OverlayTotal DEF Types, Tx
  <2>5. ASSUME NEW r \in Records
        PROVE  OwnStore(r, records'[r])
    <3>1. records'[r] = IF r \in DOMAIN tx[p].records THEN tx[p].records[r] ELSE records[r]
      BY <2>2 DEF Overlay, Types
    <3>2. QED  BY <2>1, <3>1 DEF TxOK, Types
  <2>6. QED  BY <2>2, <2>3, <2>4, <2>5, TxStep, IdleType DEF Types
<1>13. ASSUME NEW p \in Procs, Rollback(p)
       PROVE  Types'
  BY <1>13, TxStep, IdleType DEF Rollback, Types
<1>14. ASSUME UNCHANGED vars
       PROVE  Types'
  BY <1>14 DEF vars, Types
<1>15. QED
  BY <1>1, <1>2, <1>3, <1>4, <1>5, <1>6, <1>7, <1>8, <1>9, <1>10, <1>11, <1>12, <1>13, <1>14
     DEF Next

LEMMA TypesHold == Spec => []Types
<1>1. Init => Types  BY InitTypes
<1>2. Types /\ [Next]_vars => Types'  BY NextTypes
<1>3. QED  BY <1>1, <1>2, PTL DEF Spec

\* Whatever requests run at a time, what is on disk and in the tables has its type,
\* and each record links into its own store.
THEOREM TypesAreKept == Spec => []TypeOK
<1>1. ASSUME Types
      PROVE  TypeOK
  <2>1. DOMAIN links \subseteq Keys /\ \A k \in DOMAIN links : links[k] \in Contents
    BY <1>1, PartialFunction DEF Types
  <2>2. \A r \in Records : /\ records[r].content \in Contents \cup {Null}
                           /\ records[r] # NoFile => records[r].key[1] = Store[r]
    BY <1>1 DEF Types, Row, OwnStore, NoFile
  <2>3. ASSUME NEW p \in Procs
        PROVE  /\ tx[p].todo \cup DOMAIN tx[p].refs \subseteq Keys
               /\ DOMAIN tx[p].records \subseteq Records
    <3>1. /\ tx[p].todo \subseteq Keys /\ tx[p].refs \in Partial(Keys, Contents \cup {Null})
          /\ tx[p].records \in Partial(Records, Row)
      BY <1>1 DEF Types, Tx
    <3>2. QED  BY <3>1, PartialFunction
  <2>4. QED  BY <1>1, <2>1, <2>2, <2>3 DEF Types, TypeOK
<1>2. Types => TypeOK  BY <1>1
<1>3. QED  BY <1>2, TypesHold, PTL

----------------------------------------------------------------------------
(* One request at a time.                                                  *)

\* The parameters stand for the tables of references and of records, R and D, for what
\* the request sees of the references, seen, and for the links and the files, L and F.

\* Each of these references has its link, and the bytes it leads to.
Backed(seen, L, F) ==
    \A k \in Keys : seen[k] # Null => k \in DOMAIN L /\ L[k] = seen[k] /\ seen[k] \in F

\* The bytes that no reference the request sees names any more are gone, but for those
\* it is about to remove.
Vanished(t, R, seen, F) ==
    \A c \in Contents : (\E k \in Keys : R[k] = c) /\ (\A k \in Keys : seen[k] # c)
      => c \notin F \/ (t.pc = "remove" /\ t.last /\ t.content = c)

\* The records and their files: a reference for each, and a link of its own.
OwnFiles(R, D) ==
    /\ \A r \in Records : D[r] # NoFile => R[D[r].key] = D[r].content
    /\ \A r, s \in Records : D[r] # NoFile /\ D[s] # NoFile /\ r # s => D[r].key # D[s].key

\* A save, by the point it has reached: the file is there, the link is free and then
\* its own, and nothing else has changed.
Saving(t, R, L, F) ==
    /\ ~t.removed
    /\ t.pc \in {"probe", "save", "name", "link", "reference", "commit"}
    /\ t.pc = "save" /\ t.found => t.content \in F
    /\ t.pc \in {"name", "link", "reference", "commit"} => t.content \in F
    /\ t.pc = "link" => t.key \notin DOMAIN L
    /\ t.pc \in {"reference", "commit"} => t.key \in DOMAIN L /\ L[t.key] = t.content
    /\ t.pc \in {"link", "reference", "commit"} => t.key \in Keys /\ R[t.key] = Null
    /\ t.pc # "commit" => t.refs = NoWrites /\ t.records = NoWrites
    /\ t.pc = "commit" =>
         /\ t.content \in Contents
         /\ t.refs = [k \in {t.key} |-> t.content]
         /\ t.records = [r \in {t.record} |-> [key |-> t.key, content |-> t.content]]

\* The files a deletion is about.
KeysOf(t, D) == {D[r].key : r \in DOMAIN t.records}

\* A deletion: it touches the files of its rows and no other, and knows, while it is
\* about to remove bytes, that no reference names them.
Deleting(t, seen, D) ==
    /\ t.pc \in {"delete", "unreference", "remove", "unlink", "commit"}
    /\ \A r \in DOMAIN t.records : t.records[r] = NoFile /\ D[r] # NoFile
    /\ t.todo \subseteq KeysOf(t, D) /\ DOMAIN t.refs \subseteq KeysOf(t, D)
    /\ t.pc \in {"unreference", "remove", "unlink"} => t.key \in KeysOf(t, D)
    /\ \A k \in DOMAIN t.refs : t.refs[k] = Null
    /\ t.pc = "unreference" =>
         t.content = seen[t.key] /\ (t.last <=> Cardinality(SameChecksum(seen, t.key)) = 1)
    /\ t.pc = "remove" /\ t.last => \A k \in Keys : seen[k] # t.content
    /\ t.pc \in {"remove", "unlink"} => seen[t.key] = Null
    /\ t.pc = "unlink" => t.removed

\* What holds of the request that runs and of the state around it.
AloneOK(t, seen, R, D, L, F) ==
    /\ OwnFiles(R, D)
    /\ Backed(seen, L, F)
    /\ ~t.removed => Backed(R, L, F)
    /\ Vanished(t, R, seen, F)
    /\ t.pc = "idle" => t = Idle
    /\ t.pc # "idle" => \/ t.kind = "upload" /\ Saving(t, R, L, F)
                        \/ t.kind = "delete" /\ Deleting(t, seen, D)

Alone(w) == AloneOK(tx[w], RefsSeen(w), refs, records, links, files)

\* A row as the transaction sees it.
LEMMA OverlayAt ==
    ASSUME NEW f, NEW g, NEW x \in DOMAIN f \cup DOMAIN g
    PROVE  Overlay(f, g)[x] = IF x \in DOMAIN f THEN f[x] ELSE g[x]
BY DEF Overlay

\* Without writes of its own a transaction sees the committed rows.
LEMMA OverlayNothing ==
    ASSUME NEW K, NEW V, NEW g \in [K -> V]
    PROVE  Overlay(NoWrites, g) = g
<1>1. DOMAIN NoWrites = {}
  BY DEF NoWrites
<1>2. QED  BY <1>1 DEF Overlay

LEMMA KeysFinite == IsFiniteSet(Keys)
<1>1. IsFiniteSet({"public", "private"})
  <2>1. IsFiniteSet({"public"}) /\ IsFiniteSet({"private"})
    BY FS_Singleton
  <2>2. IsFiniteSet({"public"} \cup {"private"})
    BY <2>1, FS_Union
  <2>3. {"public", "private"} = {"public"} \cup {"private"}
    OBVIOUS
  <2>4. QED  BY <2>2, <2>3
<1>2. QED  BY <1>1, FS_Product, FileAssumption DEF Keys

\* The count of the references of a checksum is one exactly when the reference that
\* is deleted is the only one.
LEMMA CountIsOne ==
    ASSUME NEW seen, NEW k \in Keys
    PROVE  Cardinality(SameChecksum(seen, k)) = 1 <=> SameChecksum(seen, k) = {k}
<1>1. IsFiniteSet(SameChecksum(seen, k))
  BY KeysFinite, FS_Subset DEF SameChecksum
<1>2. ASSUME Cardinality(SameChecksum(seen, k)) = 1
      PROVE  SameChecksum(seen, k) = {k}
  <2>1. PICK x : SameChecksum(seen, k) = {x}
    BY <1>1, <1>2, FS_Singleton
  <2>2. k \in SameChecksum(seen, k)
    BY <2>1 DEF SameChecksum
  <2>3. QED  BY <2>1, <2>2
<1>3. Cardinality({k}) = 1
  BY FS_Singleton
<1>4. QED  BY <1>2, <1>3

\* The request that runs after a step is what the step makes of it.
LEMMA AloneStep ==
    ASSUME NEW w \in Procs, Types, NEW q, tx' = [tx EXCEPT ![w] = q],
           AloneOK(q, Overlay(q.refs, refs'), refs', records', links', files')
    PROVE  Alone(w)'
<1>1. tx'[w] = q
  BY DEF Types
<1>2. QED  BY <1>1 DEF Alone, RefsSeen

\* A step that writes no row, before any row is written: the disk only gains files
\* and links.
LEMMA SaveStep ==
    ASSUME Types, NEW t, NEW seen, AloneOK(t, seen, refs, records, links, files),
           ~t.removed, NEW q, q.refs = NoWrites, q.pc # "idle",
           NEW L, NEW F, files \subseteq F, DOMAIN links \subseteq DOMAIN L,
           \A k \in DOMAIN links : L[k] = links[k],
           \/ q.kind = "upload" /\ Saving(q, refs, L, F)
           \/ q.kind = "delete" /\ Deleting(q, refs, records)
    PROVE  AloneOK(q, Overlay(q.refs, refs), refs, records, L, F)
<1>1. Overlay(q.refs, refs) = refs
  BY OverlayNothing DEF Types
<1>2. Backed(refs, L, F)
  BY DEF AloneOK, Backed
<1>3. Vanished(q, refs, refs, F)
  BY DEF Vanished
<1>4. OwnFiles(refs, records)
  BY DEF AloneOK
<1>5. (q.kind = "upload" /\ Saving(q, refs, L, F)) \/ (q.kind = "delete" /\ Deleting(q, refs, records))
  OBVIOUS
<1>6. q.pc = "idle" => q = Idle
  OBVIOUS
<1>7. AloneOK(q, refs, refs, records, L, F)
  BY <1>2, <1>3, <1>4, <1>5, <1>6 DEF AloneOK
<1>8. QED  BY <1>1, <1>7

\* The steps of a save.
LEMMA NextSaving ==
    ASSUME Types, Types', NEW w \in Procs, Alone(w),
           \/ \E r \in Records, n \in Names, c \in Contents : Upload(w, r, n, c)
           \/ SaveProbe(w) \/ SaveFile(w) \/ SaveLink(w) \/ SaveReference(w)
           \/ \E n \in Names : SaveName(w, n)
    PROVE  Alone(w)'
<1> DEFINE t == tx[w]
<1>0. t \in Tx /\ TxOK(t) /\ AloneOK(t, RefsSeen(w), refs, records, links, files)
  BY DEF Types, Alone
<1>1. ASSUME NEW r \in Records, NEW n \in Names, NEW c \in Contents, Upload(w, r, n, c)
      PROVE  Alone(w)'
  <2> DEFINE q == [Idle EXCEPT !.pc = "probe", !.kind = "upload", !.record = r,
                               !.name = n, !.content = c]
  <2>1. tx' = [tx EXCEPT ![w] = q] /\ UNCHANGED <<files, links, refs, records>>
    BY <1>1 DEF Upload, Become
  <2>2. q.pc = "probe" /\ q.kind = "upload" /\ ~q.removed
        /\ q.refs = NoWrites /\ q.records = NoWrites
    BY DEF Idle
  <2>3. ~t.removed
    <3>1. t = Idle
      BY <1>0, <1>1 DEF Upload, AloneOK
    <3>2. QED  BY <3>1 DEF Idle
  <2> HIDE DEF q
  <2>4. Saving(q, refs, links, files)
    BY <2>2 DEF Saving
  <2>5. QED  BY <1>0, <2>1, <2>2, <2>3, <2>4, SaveStep, AloneStep
<1>2. CASE SaveProbe(w)
  <2> DEFINE found == t.content \in files
             q == [t EXCEPT !.pc = "save", !.found = found]
  <2>1. tx' = [tx EXCEPT ![w] = q] /\ UNCHANGED <<files, links, refs, records>> /\ t.pc = "probe"
    BY <1>2 DEF SaveProbe, Become
  <2>2. /\ q.pc = "save" /\ q.found = found /\ q.kind = t.kind /\ q.removed = t.removed
        /\ q.refs = t.refs /\ q.records = t.records /\ q.content = t.content
    BY <1>0 DEF Tx
  <2>3. t.kind = "upload" /\ Saving(t, refs, links, files)
    BY <1>0, <2>1 DEF AloneOK, Deleting
  <2> HIDE DEF q
  <2>4. Saving(q, refs, links, files)
    BY <2>1, <2>2, <2>3 DEF Saving
  <2>5. ~t.removed /\ q.refs = NoWrites
    BY <2>1, <2>2, <2>3 DEF Saving
  <2>6. QED  BY <1>0, <2>1, <2>2, <2>3, <2>4, <2>5, SaveStep, AloneStep
<1>3. CASE SaveFile(w)
  <2> DEFINE q == [t EXCEPT !.pc = "name"]
  <2>1. /\ tx' = [tx EXCEPT ![w] = q] /\ UNCHANGED <<links, refs, records>> /\ t.pc = "save"
        /\ files' = IF t.found THEN files ELSE files \cup {t.content}
    BY <1>3 DEF SaveFile, Become
  <2>2. /\ q.pc = "name" /\ q.kind = t.kind /\ q.removed = t.removed
        /\ q.refs = t.refs /\ q.records = t.records /\ q.content = t.content
    BY <1>0 DEF Tx
  <2>3. t.kind = "upload" /\ Saving(t, refs, links, files)
    BY <1>0, <2>1 DEF AloneOK, Deleting
  <2> HIDE DEF q
  <2>4. Saving(q, refs, links, files') /\ files \subseteq files'
    BY <2>1, <2>2, <2>3 DEF Saving
  <2>5. ~t.removed /\ q.refs = NoWrites
    BY <2>1, <2>2, <2>3 DEF Saving
  <2>6. QED  BY <1>0, <2>1, <2>2, <2>3, <2>4, <2>5, SaveStep, AloneStep
<1>4. ASSUME NEW n \in Names, SaveName(w, n)
      PROVE  Alone(w)'
  <2> DEFINE k == SymlinkPath(t.record, n)
             q == [t EXCEPT !.pc = "link", !.key = k]
  <2>1. /\ tx' = [tx EXCEPT ![w] = q] /\ UNCHANGED <<files, links, refs, records>>
        /\ t.pc = "name" /\ k \notin DOMAIN links
    BY <1>4 DEF SaveName, Become
  <2>2. /\ q.pc = "link" /\ q.key = k /\ q.kind = t.kind /\ q.removed = t.removed
        /\ q.refs = t.refs /\ q.records = t.records /\ q.content = t.content
    BY <1>0 DEF Tx
  <2>3. t.kind = "upload" /\ Saving(t, refs, links, files)
    BY <1>0, <2>1 DEF AloneOK, Deleting
  <2>4. ~t.removed /\ q.refs = NoWrites
    BY <2>1, <2>2, <2>3 DEF Saving
  <2>5. k \in Keys
    BY <1>0, <2>1, KeyOf DEF TxOK
  <2> HIDE DEF q, k
  <2>6. refs[k] = Null
    BY <1>0, <2>1, <2>4, <2>5 DEF AloneOK, Backed
  <2>7. Saving(q, refs, links, files)
    BY <2>1, <2>2, <2>3, <2>5, <2>6 DEF Saving
  <2>8. QED  BY <1>0, <2>1, <2>2, <2>3, <2>4, <2>7, SaveStep, AloneStep
<1>5. CASE SaveLink(w)
  <2> DEFINE q == [t EXCEPT !.pc = "reference"]
  <2>1. /\ tx' = [tx EXCEPT ![w] = q] /\ UNCHANGED <<files, refs, records>> /\ t.pc = "link"
        /\ links' = Overlay(links, [x \in {t.key} |-> t.content])
    BY <1>5 DEF SaveLink, Become
  <2>2. /\ q.pc = "reference" /\ q.key = t.key /\ q.kind = t.kind /\ q.removed = t.removed
        /\ q.refs = t.refs /\ q.records = t.records /\ q.content = t.content
    BY <1>0 DEF Tx
  <2>3. t.kind = "upload" /\ Saving(t, refs, links, files)
    BY <1>0, <2>1 DEF AloneOK, Deleting
  <2>4. ~t.removed /\ q.refs = NoWrites /\ t.key \notin DOMAIN links
    BY <2>1, <2>2, <2>3 DEF Saving
  <2>5. /\ DOMAIN links' = DOMAIN links \cup {t.key} /\ links'[t.key] = t.content
        /\ \A k \in DOMAIN links : links'[k] = links[k]
    BY <2>1, <2>4 DEF Overlay
  <2> HIDE DEF q
  <2>6. Saving(q, refs, links', files)
    BY <2>1, <2>2, <2>3, <2>5 DEF Saving
  <2>7. QED  BY <1>0, <2>1, <2>2, <2>3, <2>4, <2>5, <2>6, SaveStep, AloneStep
<1>6. CASE SaveReference(w)
  <2> DEFINE own == [k \in {t.key} |-> t.content]
             rows == [r \in {t.record} |-> [key |-> t.key, content |-> t.content]]
             q == [t EXCEPT !.pc = "commit", !.refs = own, !.records = rows]
  <2>1. /\ tx' = [tx EXCEPT ![w] = q] /\ UNCHANGED <<files, links, refs, records>>
        /\ t.pc = "reference"
    BY <1>6 DEF SaveReference, Become
  <2>2. /\ q.pc = "commit" /\ q.key = t.key /\ q.kind = t.kind /\ q.removed = t.removed
        /\ q.refs = own /\ q.records = rows /\ q.content = t.content /\ q.record = t.record
    BY <1>0 DEF Tx
  <2>3. t.kind = "upload" /\ Saving(t, refs, links, files)
    BY <1>0, <2>1 DEF AloneOK, Deleting
  <2>4. t.content \in Contents
    BY <1>0, <2>1 DEF TxOK
  <2>5. DOMAIN own = {t.key} /\ own[t.key] = t.content
    OBVIOUS
  <2> HIDE DEF q
  <2>6. Saving(q, refs, links, files)
    BY <2>1, <2>2, <2>3, <2>4 DEF Saving
  <2> DEFINE now == Overlay(own, refs)
  <2>7. /\ t.key \in Keys /\ refs[t.key] = Null /\ ~t.removed /\ t.content \in files
        /\ t.key \in DOMAIN links /\ links[t.key] = t.content
    BY <2>1, <2>3 DEF Saving
  <2> HIDE DEF own
  <2>8. \A k \in Keys : now[k] = IF k = t.key THEN t.content ELSE refs[k]
    BY <2>5, <2>7 DEF Types, Overlay
  <2> HIDE DEF now
  <2>9. Backed(refs, links, files) /\ OwnFiles(refs, records)
    BY <1>0, <2>7 DEF AloneOK
  <2>10. Backed(now, links, files)
    BY <2>7, <2>8, <2>9 DEF Backed
  <2>11. Vanished(q, refs, now, files)
    BY <2>7, <2>8, FileAssumption DEF Vanished
  <2>12. AloneOK(q, now, refs, records, links, files)
    BY <2>2, <2>3, <2>6, <2>9, <2>10, <2>11 DEF AloneOK
  <2>13. QED  BY <2>1, <2>2, <2>12, AloneStep DEF now
<1>7. QED  BY <1>1, <1>2, <1>3, <1>4, <1>5, <1>6

\* The steps of a deletion.
LEMMA NextDeleting ==
    ASSUME Types, Types', NEW w \in Procs, Alone(w),
           \/ \E S \in SUBSET Records : Delete(w, S)
           \/ \E k \in Keys : DeleteCount(w, k)
           \/ DeleteReferences(w) \/ DeleteFile(w) \/ DeleteLink(w)
    PROVE  Alone(w)'
<1> DEFINE t == tx[w]
           seen == RefsSeen(w)
<1>0. /\ t \in Tx /\ TxOK(t) /\ AloneOK(t, seen, refs, records, links, files)
      /\ seen = Overlay(t.refs, refs) /\ refs \in [Keys -> Contents \cup {Null}]
  BY DEF Types, Alone, RefsSeen
<1>1. ASSUME NEW S \in SUBSET Records, Delete(w, S)
      PROVE  Alone(w)'
  <2> DEFINE rows == {r \in S : records[r] # NoFile}
             keys == {records[r].key : r \in rows}
             gone == [r \in rows |-> NoFile]
             q == [Idle EXCEPT !.pc = "delete", !.kind = "delete", !.todo = keys, !.records = gone]
  <2>1. tx' = [tx EXCEPT ![w] = q] /\ UNCHANGED <<files, links, refs, records>> /\ t.pc = "idle"
    BY <1>1 DEF Delete, Become
  <2>2. DOMAIN gone = rows /\ \A r \in rows : gone[r] = NoFile
    OBVIOUS
  <2> HIDE DEF gone, keys
  <2>3. /\ q.pc = "delete" /\ q.kind = "delete" /\ q.todo = keys /\ q.records = gone
        /\ q.refs = NoWrites /\ DOMAIN q.refs = {}
    BY DEF Idle, NoWrites
  <2> HIDE DEF q
  <2>4. keys = KeysOf(q, records)
    BY <2>2, <2>3 DEF keys, KeysOf
  <2>5. Deleting(q, refs, records)
    BY <2>2, <2>3, <2>4 DEF Deleting
  <2>6. ~t.removed
    <3>1. t = Idle
      BY <1>0, <2>1 DEF AloneOK
    <3>2. QED  BY <3>1 DEF Idle
  <2>7. QED  BY <1>0, <2>1, <2>3, <2>5, <2>6, SaveStep, AloneStep
<1>2. ASSUME NEW k \in Keys, DeleteCount(w, k)
      PROVE  Alone(w)'
  <2> DEFINE only == Cardinality(SameChecksum(seen, k)) = 1
             q == [t EXCEPT !.pc = "unreference", !.key = k, !.todo = t.todo \ {k},
                            !.content = seen[k], !.last = only]
  <2>1. /\ tx' = [tx EXCEPT ![w] = q] /\ UNCHANGED <<files, links, refs, records>>
        /\ t.pc = "delete" /\ k \in t.todo
    BY <1>2 DEF DeleteCount, Become
  <2>2. /\ q.pc = "unreference" /\ q.key = k /\ q.todo = t.todo \ {k} /\ q.content = seen[k]
        /\ (q.last <=> only) /\ q.kind = t.kind /\ q.removed = t.removed
        /\ q.refs = t.refs /\ q.records = t.records
    BY <1>0 DEF Tx
  <2>3. t.kind = "delete" /\ Deleting(t, seen, records)
    BY <1>0, <2>1 DEF AloneOK, Saving
  <2> HIDE DEF q, seen
  <2>4. KeysOf(q, records) = KeysOf(t, records)
    BY <2>2 DEF KeysOf
  <2>5. Deleting(q, seen, records)
    BY <2>1, <2>2, <2>3, <2>4 DEF Deleting
  <2>6. Vanished(t, refs, seen, files) /\ OwnFiles(refs, records) /\ Backed(seen, links, files)
        /\ (~t.removed => Backed(refs, links, files))
    BY <1>0 DEF AloneOK
  <2>7. Vanished(q, refs, seen, files)
    BY <2>1, <2>6 DEF Vanished
  <2>8. AloneOK(q, seen, refs, records, links, files)
    BY <2>2, <2>3, <2>5, <2>6, <2>7 DEF AloneOK
  <2>9. QED  BY <1>0, <2>1, <2>2, <2>8, AloneStep
<1>3. CASE DeleteReferences(w)
  <2> DEFINE same == SameChecksum(seen, t.key)
             gone == IF t.last THEN same ELSE {x \in {t.key} : seen[x] # Null}
             own == Overlay([x \in gone |-> Null], t.refs)
             now == Overlay(own, refs)
             q == [t EXCEPT !.pc = "remove", !.refs = own]
  <2>1. /\ tx' = [tx EXCEPT ![w] = q] /\ UNCHANGED <<files, links, refs, records>>
        /\ t.pc = "unreference"
    BY <1>3 DEF DeleteReferences, Become
  <2>2. /\ q.pc = "remove" /\ q.key = t.key /\ q.todo = t.todo /\ q.content = t.content
        /\ q.last = t.last /\ q.kind = t.kind /\ q.removed = t.removed
        /\ q.refs = own /\ q.records = t.records
    BY <1>0 DEF Tx
  <2>3. t.kind = "delete" /\ Deleting(t, seen, records) /\ t.key \in Keys
    BY <1>0, <2>1 DEF AloneOK, Saving, TxOK
  <2>4. /\ t.content = seen[t.key] /\ (t.last <=> Cardinality(same) = 1)
        /\ t.key \in KeysOf(t, records) /\ DOMAIN t.refs \subseteq KeysOf(t, records)
        /\ \A k \in DOMAIN t.refs : t.refs[k] = Null
    BY <2>1, <2>3 DEF Deleting
  <2>5. t.last <=> same = {t.key}
    BY <2>3, <2>4, CountIsOne
  <2>6. gone \subseteq {t.key} /\ (seen[t.key] # Null => gone = {t.key})
    BY <2>5
  <2>7. /\ DOMAIN t.refs \subseteq Keys
        /\ \A k \in Keys : seen[k] = IF k \in DOMAIN t.refs THEN t.refs[k] ELSE refs[k]
    BY <1>0, PartialFunction DEF Overlay, Tx
  <2> HIDE DEF gone, q, seen
  <2>8. /\ DOMAIN own = gone \cup DOMAIN t.refs
        /\ \A k \in DOMAIN own : own[k] = Null
    BY <2>4 DEF Overlay
  <2>9. \A k \in Keys : now[k] = IF k \in gone THEN Null ELSE seen[k]
    <3> SUFFICES ASSUME NEW k \in Keys
                 PROVE  now[k] = IF k \in gone THEN Null ELSE seen[k]
      OBVIOUS
    <3>1. now[k] = IF k \in DOMAIN own THEN own[k] ELSE refs[k]
      BY <1>0 DEF Overlay
    <3>2. QED  BY <2>4, <2>7, <2>8, <3>1
  <2> HIDE DEF own, now
  <2>10. KeysOf(q, records) = KeysOf(t, records)
    BY <2>2 DEF KeysOf
  <2>11. t.last => \A k \in Keys : now[k] # t.content
    BY <2>4, <2>5, <2>6, <2>9 DEF SameChecksum
  <2>12. now[t.key] = Null
    BY <2>3, <2>6, <2>9
  <2>13. Deleting(q, now, records)
    BY <2>2, <2>3, <2>4, <2>6, <2>8, <2>10, <2>11, <2>12 DEF Deleting
  <2>14. Vanished(t, refs, seen, files) /\ OwnFiles(refs, records) /\ Backed(seen, links, files)
         /\ (~t.removed => Backed(refs, links, files))
    BY <1>0 DEF AloneOK
  <2>15. Backed(now, links, files)
    BY <2>9, <2>14 DEF Backed
  <2>16. Vanished(q, refs, now, files)
    <3> SUFFICES ASSUME NEW c \in Contents, \E k \in Keys : refs[k] = c,
                        \A k \in Keys : now[k] # c
                 PROVE  c \notin files \/ (t.last /\ t.content = c)
      BY <2>2 DEF Vanished
    <3>1. CASE \A k \in Keys : seen[k] # c
      BY <2>1, <2>14, <3>1 DEF Vanished
    <3>2. CASE \E k \in Keys : seen[k] = c
      <4>1. seen[t.key] = c /\ \A k \in Keys : seen[k] = c => k = t.key
        BY <2>6, <2>9, <3>2
      <4>2. c # Null
        BY FileAssumption
      <4>3. same = {t.key}
        BY <2>3, <4>1, <4>2 DEF SameChecksum
      <4>4. QED  BY <2>4, <2>5, <4>1, <4>3
    <3>3. QED  BY <3>1, <3>2
  <2>17. AloneOK(q, now, refs, records, links, files)
    BY <2>2, <2>3, <2>13, <2>14, <2>15, <2>16 DEF AloneOK
  <2>18. QED  BY <2>1, <2>2, <2>17, AloneStep DEF now
<1>4. CASE DeleteFile(w)
  <2> DEFINE q == [t EXCEPT !.pc = "unlink", !.removed = TRUE]
  <2>1. /\ tx' = [tx EXCEPT ![w] = q] /\ UNCHANGED <<links, refs, records>> /\ t.pc = "remove"
        /\ files' = IF t.last THEN files \ {t.content} ELSE files
    BY <1>4 DEF DeleteFile, Become
  <2>2. /\ q.pc = "unlink" /\ q.removed /\ q.key = t.key /\ q.todo = t.todo
        /\ q.kind = t.kind /\ q.refs = t.refs /\ q.records = t.records
    BY <1>0 DEF Tx
  <2>3. t.kind = "delete" /\ Deleting(t, seen, records)
    BY <1>0, <2>1 DEF AloneOK, Saving
  <2> HIDE DEF q, seen
  <2>4. KeysOf(q, records) = KeysOf(t, records)
    BY <2>2 DEF KeysOf
  <2>5. Deleting(q, seen, records)
    BY <2>1, <2>2, <2>3, <2>4 DEF Deleting
  <2>6. Vanished(t, refs, seen, files) /\ OwnFiles(refs, records) /\ Backed(seen, links, files)
    BY <1>0 DEF AloneOK
  <2>7. Backed(seen, links, files')
    BY <2>1, <2>3, <2>6 DEF Backed, Deleting
  <2>8. Vanished(q, refs, seen, files')
    BY <2>1, <2>6 DEF Vanished
  <2>9. AloneOK(q, seen, refs, records, links, files')
    BY <2>2, <2>3, <2>5, <2>6, <2>7, <2>8 DEF AloneOK
  <2>10. QED  BY <1>0, <2>1, <2>2, <2>9, AloneStep
<1>5. CASE DeleteLink(w)
  <2> DEFINE left == {x \in DOMAIN links : x # t.key \/ t.content = Null}
             q == [t EXCEPT !.pc = IF t.todo = {} THEN "commit" ELSE "delete"]
  <2>1. /\ tx' = [tx EXCEPT ![w] = q] /\ UNCHANGED <<files, refs, records>> /\ t.pc = "unlink"
        /\ links' = [k \in left |-> links[k]]
    BY <1>5 DEF DeleteLink, Become
  <2>2. /\ q.pc \in {"commit", "delete"} /\ q.removed = t.removed /\ q.todo = t.todo
        /\ q.kind = t.kind /\ q.refs = t.refs /\ q.records = t.records
    BY <1>0 DEF Tx
  <2>3. t.kind = "delete" /\ Deleting(t, seen, records)
    BY <1>0, <2>1 DEF AloneOK, Saving
  <2> HIDE DEF q, seen
  <2>4. KeysOf(q, records) = KeysOf(t, records)
    BY <2>2 DEF KeysOf
  <2>5. Deleting(q, seen, records) /\ t.removed /\ seen[t.key] = Null
    BY <2>1, <2>2, <2>3, <2>4 DEF Deleting
  <2>6. Vanished(t, refs, seen, files) /\ OwnFiles(refs, records) /\ Backed(seen, links, files)
    BY <1>0 DEF AloneOK
  <2>7. Backed(seen, links', files)
    BY <2>1, <2>5, <2>6 DEF Backed
  <2>8. Vanished(q, refs, seen, files)
    BY <2>1, <2>6 DEF Vanished
  <2>9. AloneOK(q, seen, refs, records, links', files)
    BY <2>2, <2>3, <2>5, <2>6, <2>7, <2>8 DEF AloneOK
  <2>10. QED  BY <1>0, <2>1, <2>2, <2>9, AloneStep
<1>6. QED  BY <1>1, <1>2, <1>3, <1>4, <1>5

\* What a commit makes of the references, the records and the files of both.
LEMMA CommitOK ==
    ASSUME Types, NEW w \in Procs, Alone(w), Commit(w)
    PROVE  /\ OwnFiles(refs', records')
           /\ Backed(refs', links, files)
           /\ \A c \in Contents : (\E k \in Keys : refs[k] = c) /\ (\A k \in Keys : refs'[k] # c)
                => c \notin files
<1> DEFINE t == tx[w]
           seen == RefsSeen(w)
<1>1. /\ t \in Tx /\ AloneOK(t, seen, refs, records, links, files)
      /\ seen = Overlay(t.refs, refs) /\ refs \in [Keys -> Contents \cup {Null}]
      /\ records \in [Records -> Row]
  BY DEF Types, Alone, RefsSeen
<1>2. refs' = seen /\ records' = Overlay(t.records, records) /\ t.pc = "commit"
  BY DEF Commit
<1>3. Backed(seen, links, files) /\ Vanished(t, refs, seen, files) /\ OwnFiles(refs, records)
  BY <1>1 DEF AloneOK
<1>4. /\ DOMAIN t.refs \subseteq Keys /\ DOMAIN t.records \subseteq Records
      /\ \A k \in Keys : seen[k] = IF k \in DOMAIN t.refs THEN t.refs[k] ELSE refs[k]
      /\ \A r \in Records : records'[r] = IF r \in DOMAIN t.records THEN t.records[r] ELSE records[r]
  BY <1>1, <1>2, PartialFunction DEF Overlay, Tx
<1>5. \A r \in Records : records[r] # NoFile => records[r].key \in Keys /\ records[r].content \in Contents
  BY <1>1 DEF Row
<1> HIDE DEF seen
<1>6. CASE t.kind = "upload"
  <2>1. Saving(t, refs, links, files)
    BY <1>1, <1>2, <1>6 DEF AloneOK
  <2> DEFINE row == [key |-> t.key, content |-> t.content]
  <2>2. /\ t.refs = [k \in {t.key} |-> t.content] /\ t.records = [r \in {t.record} |-> row]
        /\ t.key \in Keys /\ refs[t.key] = Null /\ t.content \in Contents
    BY <1>2, <2>1 DEF Saving
  <2>3. /\ \A k \in Keys : seen[k] = IF k = t.key THEN t.content ELSE refs[k]
        /\ \A r \in Records : records'[r] = IF r = t.record THEN row ELSE records[r]
    BY <1>4, <2>2
  <2>4. \A r \in Records : records[r] # NoFile => records[r].key # t.key
    BY <1>3, <1>5, <2>2, FileAssumption DEF OwnFiles
  <2>5. row.key = t.key /\ row.content = t.content
    OBVIOUS
  <2> HIDE DEF row
  <2>6. OwnFiles(seen, records')
    BY <1>3, <1>5, <2>2, <2>3, <2>4, <2>5 DEF OwnFiles
  <2>7. QED  BY <1>2, <1>3, <2>6 DEF Vanished
<1>7. CASE t.kind = "delete"
  <2>1. Deleting(t, seen, records)
    BY <1>1, <1>2, <1>7 DEF AloneOK, Saving
  <2>2. /\ \A r \in DOMAIN t.records : t.records[r] = NoFile /\ records[r] # NoFile
        /\ DOMAIN t.refs \subseteq KeysOf(t, records)
    BY <2>1 DEF Deleting
  <2>3. \A r \in Records : r \notin DOMAIN t.records /\ records[r] # NoFile
          => seen[records[r].key] = refs[records[r].key]
    BY <1>3, <1>4, <1>5, <2>2 DEF KeysOf, OwnFiles
  <2>4. OwnFiles(seen, records')
    BY <1>3, <1>4, <2>2, <2>3 DEF OwnFiles
  <2>5. QED  BY <1>2, <1>3, <2>4 DEF Vanished
<1>8. QED  BY <1>1, <1>2, <1>6, <1>7 DEF AloneOK

\* Between two requests nothing is pending.
LEMMA IdleOK ==
    ASSUME Types', NEW R, R \in [Keys -> Contents \cup {Null}], NEW D, NEW L, NEW F,
           OwnFiles(R, D), Backed(R, L, F)
    PROVE  AloneOK(Idle, Overlay(Idle.refs, R), R, D, L, F)
<1>1. Overlay(Idle.refs, R) = R
  BY OverlayNothing DEF Idle
<1>2. Idle.pc = "idle"
  BY DEF Idle
<1>3. Vanished(Idle, R, R, F)
  BY DEF Vanished
<1>4. QED  BY <1>1, <1>2, <1>3 DEF AloneOK

LEMMA InitAlone ==
    ASSUME Init, NEW w \in Procs
    PROVE  Alone(w)
<1>1. Types  BY InitTypes
<1>2. tx[w] = Idle /\ refs \in [Keys -> Contents \cup {Null}]
  BY <1>1 DEF Init, Types
<1>3. OwnFiles(refs, records) /\ Backed(refs, links, files)
  BY DEF Init, OwnFiles, Backed
<1>4. Overlay(Idle.refs, refs) = refs
  BY <1>2, OverlayNothing DEF Idle
<1>5. Idle.pc = "idle"
  BY DEF Idle
<1>6. Vanished(Idle, refs, refs, files)
  BY DEF Vanished
<1>7. AloneOK(Idle, refs, refs, records, links, files)
  BY <1>3, <1>5, <1>6 DEF AloneOK
<1>8. QED  BY <1>2, <1>4, <1>7 DEF Alone, RefsSeen

LEMMA NextAlone ==
    ASSUME NEW w, Procs = {w}, ~LateFailures, Types, Types', Alone(w), [Next]_vars
    PROVE  Alone(w)'
<1>1. CASE Commit(w)
  <2>1. refs' \in [Keys -> Contents \cup {Null}]
    BY DEF Types
  <2>2. tx' = [tx EXCEPT ![w] = Idle] /\ UNCHANGED <<files, links>>
    BY <1>1 DEF Commit
  <2>3. OwnFiles(refs', records') /\ Backed(refs', links', files')
    BY <1>1, <2>2, CommitOK
  <2>4. QED  BY <2>1, <2>2, <2>3, IdleOK, AloneStep
<1>2. CASE Rollback(w)
  <2>1. tx' = [tx EXCEPT ![w] = Idle] /\ UNCHANGED <<files, links, refs, records>> /\ ~tx[w].removed
    BY <1>2 DEF Rollback
  <2>2. OwnFiles(refs, records) /\ Backed(refs, links, files)
    BY <2>1 DEF Alone, AloneOK
  <2>3. refs' \in [Keys -> Contents \cup {Null}]
    BY DEF Types
  <2>4. QED  BY <2>1, <2>2, <2>3, IdleOK, AloneStep
<1>3. CASE UNCHANGED vars
  BY <1>3 DEF vars, Alone, RefsSeen
<1>4. QED
  BY <1>1, <1>2, <1>3, NextSaving, NextDeleting DEF Next

LEMMA AloneHolds ==
    ASSUME NEW w, Procs = {w}, ~LateFailures
    PROVE  Spec => []Alone(w)
<1>1. Init => Alone(w)  BY InitAlone
<1>2. Types /\ Types' /\ Alone(w) /\ [Next]_vars => Alone(w)'  BY NextAlone
<1>3. QED  BY <1>1, <1>2, TypesHold, PTL DEF Spec

\* One request at a time, which may fail anywhere before it removes a file: whatever
\* was uploaded under the same name or deleted with the same content before, in either
\* store, the file of a record is there and it is its own.
THEOREM RecordsAreServed ==
    ASSUME NEW w, Procs = {w}, ~LateFailures
    PROVE  Spec => []RecordsServed
<1>1. ASSUME Types, Alone(w)
      PROVE  RecordsServed
  <2> DEFINE t == tx[w]
             seen == RefsSeen(w)
  <2>1. /\ t \in Tx /\ AloneOK(t, seen, refs, records, links, files)
        /\ seen = Overlay(t.refs, refs) /\ refs \in [Keys -> Contents \cup {Null}]
    BY <1>1 DEF Types, Alone, RefsSeen
  <2>2. \A k \in Keys : seen[k] = IF k \in DOMAIN t.refs THEN t.refs[k] ELSE refs[k]
    BY <2>1 DEF Overlay
  <2>3. \A r \in Records : records[r] # NoFile => records[r].key \in Keys /\ records[r].content \in Contents
    BY <1>1 DEF Types, Row
  <2>4. OwnFiles(refs, records) /\ Backed(seen, links, files)
    BY <2>1 DEF AloneOK
  <2> HIDE DEF seen
  <2>5. SUFFICES ASSUME NEW r \in Records, r \notin DOMAIN t.records, records[r] # NoFile
                 PROVE  LET k == records[r].key IN
                        /\ refs[k] = records[r].content
                        /\ k \in DOMAIN links /\ links[k] = records[r].content
                        /\ records[r].content \in files
    BY DEF RecordsServed, Settled
  <2> DEFINE k == records[r].key
  <2>6. k \in Keys /\ refs[k] = records[r].content /\ refs[k] # Null
    BY <2>3, <2>4, <2>5, FileAssumption DEF OwnFiles
  <2>7. seen[k] = refs[k]
    <3>1. CASE t.pc = "idle"
      <4>1. DOMAIN t.refs = {}
        BY <2>1, <3>1 DEF AloneOK, Idle, NoWrites
      <4>2. QED  BY <2>2, <2>6, <4>1
    <3>2. CASE t.pc # "idle" /\ t.kind = "upload"
      <4>1. Saving(t, refs, links, files)
        BY <2>1, <3>2 DEF AloneOK
      <4>2. \A x \in DOMAIN t.refs : refs[x] = Null
        BY <4>1 DEF Saving, NoWrites
      <4>3. QED  BY <2>2, <2>6, <4>2
    <3>3. CASE t.pc # "idle" /\ t.kind # "upload"
      <4>1. Deleting(t, seen, records)
        BY <2>1, <3>3 DEF AloneOK
      <4>2. /\ DOMAIN t.refs \subseteq KeysOf(t, records) /\ DOMAIN t.records \subseteq Records
            /\ \A s \in DOMAIN t.records : records[s] # NoFile
        BY <2>1, <4>1, PartialFunction DEF Deleting, Tx
      <4>3. k \notin KeysOf(t, records)
        BY <2>4, <2>5, <4>2 DEF KeysOf, OwnFiles
      <4>4. QED  BY <2>2, <2>6, <4>2, <4>3
    <3>4. QED  BY <3>1, <3>2, <3>3
  <2>8. QED  BY <2>4, <2>6, <2>7 DEF Backed
<1>2. Types /\ Alone(w) => RecordsServed  BY <1>1
<1>3. QED  BY <1>2, TypesHold, AloneHolds, PTL

\* One request at a time: the bytes whose last reference a request deletes, wherever
\* the others of its files and the other store stand, are gone when it commits.
THEOREM LastReferencesRemoveFiles ==
    ASSUME NEW w, Procs = {w}, ~LateFailures
    PROVE  Spec => LastReferenceRemovesFile
<1>1. ASSUME Types, Alone(w), [Next]_vars, NEW c \in Contents,
             \E k \in Keys : refs[k] = c, \A k \in Keys : refs'[k] # c
      PROVE  c \notin files'
  <2>1. refs' # refs
    BY <1>1
  <2>2. Commit(w)
    BY <1>1, <2>1 DEF Next, vars, Upload, SaveProbe, SaveFile, SaveName, SaveLink, SaveReference,
       Delete, DeleteCount, DeleteReferences, DeleteFile, DeleteLink, Rollback
  <2>3. files' = files
    BY <2>2 DEF Commit
  <2>4. QED  BY <1>1, <2>2, <2>3, CommitOK
<1>2. Types /\ Alone(w) /\ [Next]_vars =>
        \A c \in Contents : (\E k \in Keys : refs[k] = c) /\ (\A k \in Keys : refs'[k] # c)
          => c \notin files'
  BY <1>1
<1>3. QED  BY <1>2, TypesHold, AloneHolds, PTL DEF Spec, LastReferenceRemovesFile
=============================================================================
