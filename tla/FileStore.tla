-------------------------------- MODULE FileStore --------------------------------
(***************************************************************************)
(* The reference-counted filestore.  The bytes of a file are stored once,  *)
(* under their checksum; every upload gets a symbolic link in the public   *)
(* or the private store and a FileReference row that counts it.  Rows are  *)
(* written in the transaction of the request, the disk is not.             *)
(*                                                                         *)
(* A record is a media or a user with an avatar; a content stands for the  *)
(* bytes, their checksum and their path in the filestore.                  *)
(***************************************************************************)
EXTENDS Integers, FiniteSets

CONSTANTS
    Procs, Records, Contents, Names,
    Store,         \* the store of each record: "public" for a media, "private" for an avatar
    LateFailures,  \* a transaction may fail once it has removed files
    Null

ASSUME FileAssumption ==
    /\ Store \in [Records -> {"public", "private"}]
    /\ LateFailures \in BOOLEAN
    /\ IsFiniteSet(Names)       \* a name is at most as long as the file system allows
    /\ Null \notin Contents \cup Records

VARIABLES
    files,    \* the contents in the filestore
    strays,   \* the contents of which a second copy lies beside the first
    links,    \* the symbolic links on disk: <<store, name>> -> content
    refs,     \* the committed references: <<store, name>> -> content or Null
    records,  \* the committed records: [key, content], key Null without a file
    tx        \* the request each process serves

vars == <<files, strays, links, refs, records, tx>>

Keys == {"public", "private"} \X Names

NoWrites == [x \in {} |-> Null]

NoFile == [key |-> Null, content |-> Null]

Idle == [pc |-> "idle", kind |-> "none", record |-> Null, content |-> Null, name |-> Null,
         found |-> FALSE, key |-> Null, todo |-> {}, last |-> FALSE, removed |-> FALSE,
         refs |-> NoWrites, records |-> NoWrites]

Init ==
    /\ files = {} /\ strays = {} /\ links = NoWrites
    /\ refs = [k \in Keys |-> Null]
    /\ records = [r \in Records |-> NoFile]
    /\ tx = [p \in Procs |-> Idle]

\* Rows with some of them written over, or added.
Overlay(own, rows) == [x \in DOMAIN own \cup DOMAIN rows |->
                         IF x \in DOMAIN own THEN own[x] ELSE rows[x]]

\* A transaction sees its own writes over what is committed.
RefsSeen(p) == Overlay(tx[p].refs, refs)

\* No other open transaction has written these rows.
Unlocked(p, K, R) == \A q \in Procs \ {p} : DOMAIN tx[q].refs \cap K = {}
                                             /\ DOMAIN tx[q].records \cap R = {}

Become(p, t) == tx' = [tx EXCEPT ![p] = t]

--------------------------------------------------------------------------------
(***************************************************************************)
(* Upload: an INSERT of a media, or the admin saving a user with a new     *)
(* avatar.  FileField.pre_save stores the file first, with _save.          *)
(***************************************************************************)

\* A media is immutable; nothing removes the avatar that a new one replaces.
Upload(p, r, name, content) ==
    /\ tx[p].pc = "idle"
    /\ Store[r] = "public" => records[r] = NoFile
    /\ \A q \in Procs : tx[q].record # r
    /\ Become(p, [Idle EXCEPT !.pc = "probe", !.kind = "upload", !.record = r,
                             !.name = name, !.content = content])
    /\ UNCHANGED <<files, strays, links, refs, records>>

\* exists(store_path)
SaveProbe(p) ==
    /\ tx[p].pc = "probe"
    /\ Become(p, [tx[p] EXCEPT !.pc = "save", !.found = tx[p].content \in files])
    /\ UNCHANGED <<files, strays, links, refs, records>>

\* The file is written unless it was found; if it has appeared since, Django saves
\* a second copy under another name, which no reference names.
SaveFile(p) ==
    LET c == tx[p].content IN
    /\ tx[p].pc = "save"
    /\ files'  = IF tx[p].found THEN files ELSE files \cup {c}
    /\ strays' = IF ~tx[p].found /\ c \in files THEN strays \cup {c} ELSE strays
    /\ Become(p, [tx[p] EXCEPT !.pc = "name"])
    /\ UNCHANGED <<links, refs, records>>

\* Mutant of SymlinkPath: every link goes to the public store.
SymlinkPath_Public(r, name) == <<"public", name>>

SymlinkPath(r, name) == <<Store[r], name>>

\* _symlink_get_available_name: the name asked for, or any free one.
SaveName(p, name) ==
    LET free(n) == SymlinkPath(tx[p].record, n) \notin DOMAIN links IN
    /\ tx[p].pc = "name"
    /\ free(name)
    /\ name # tx[p].name => ~free(tx[p].name)
    /\ Become(p, [tx[p] EXCEPT !.pc = "link", !.key = SymlinkPath(tx[p].record, name)])
    /\ UNCHANGED <<files, strays, links, refs, records>>

\* os.symlink; a link that has appeared meanwhile is kept as it is.
SaveLink(p) ==
    /\ tx[p].pc = "link"
    /\ links' = Overlay(links, [k \in {tx[p].key} |-> tx[p].content])
    /\ Become(p, [tx[p] EXCEPT !.pc = "reference"])
    /\ UNCHANGED <<files, strays, refs, records>>

\* The FileReference is inserted, or updated on a conflict of its link; then the
\* row of the record is written with the link as the value of its field.
SaveReference(p) ==
    LET t == tx[p] IN
    /\ t.pc = "reference"
    /\ Unlocked(p, {t.key}, {t.record})
    /\ Become(p, [t EXCEPT !.pc = "commit", !.refs = [k \in {t.key} |-> t.content],
                          !.records = [r \in {t.record} |-> [key |-> t.key, content |-> t.content]]])
    /\ UNCHANGED <<files, strays, links, refs, records>>

--------------------------------------------------------------------------------
(***************************************************************************)
(* Delete: the rows go first, then the storage deletes their files one by  *)
(* one, still inside the transaction.                                      *)
(***************************************************************************)
Delete(p, S) ==
    LET rows == {r \in S : records[r] # NoFile} IN
    /\ tx[p].pc = "idle"
    /\ rows # {}
    /\ Unlocked(p, {}, rows)
    /\ Become(p, [Idle EXCEPT !.pc = "delete", !.kind = "delete",
                             !.todo = {records[r].key : r \in rows},
                             !.records = [r \in rows |-> NoFile]])
    /\ UNCHANGED <<files, strays, links, refs, records>>

\* Mutant of SameChecksum: the other store is forgotten.
SameChecksum_OneStore(seen, k) ==
    {x \in Keys : x[1] = k[1] /\ seen[k] # Null /\ seen[x] = seen[k]}

\* The references that share the checksum of the reference of link k.
SameChecksum(seen, k) == {x \in Keys : seen[k] # Null /\ seen[x] = seen[k]}

\* Mutant of DeleteCount: the references are counted as they were committed.
DeleteCount_Committed(p, k) ==
    /\ tx[p].pc = "delete" /\ k \in tx[p].todo
    /\ Become(p, [tx[p] EXCEPT !.pc = "unreference", !.key = k, !.todo = tx[p].todo \ {k},
                              !.content = RefsSeen(p)[k],
                              !.last = (Cardinality(SameChecksum(refs, k)) = 1)])
    /\ UNCHANGED <<files, strays, links, refs, records>>

\* storage.delete: is this the only reference to the file?
DeleteCount(p, k) ==
    /\ tx[p].pc = "delete" /\ k \in tx[p].todo
    /\ Become(p, [tx[p] EXCEPT !.pc = "unreference", !.key = k, !.todo = tx[p].todo \ {k},
                              !.content = RefsSeen(p)[k],
                              !.last = (Cardinality(SameChecksum(RefsSeen(p), k)) = 1)])
    /\ UNCHANGED <<files, strays, links, refs, records>>

\* The DELETE runs its filter again: every reference of the checksum when it was the
\* only one, the reference of the link otherwise.
DeleteReferences(p) ==
    LET t == tx[p]
        gone == IF t.last THEN SameChecksum(RefsSeen(p), t.key)
                          ELSE {x \in {t.key} : RefsSeen(p)[x] # Null} IN
    /\ t.pc = "unreference"
    /\ Unlocked(p, gone, {})
    /\ Become(p, [t EXCEPT !.pc = "remove", !.refs = Overlay([x \in gone |-> Null], t.refs)])
    /\ UNCHANGED <<files, strays, links, refs, records>>

DeleteFile(p) ==
    /\ tx[p].pc = "remove"
    /\ files' = IF tx[p].last THEN files \ {tx[p].content} ELSE files
    /\ Become(p, [tx[p] EXCEPT !.pc = "unlink", !.removed = TRUE])
    /\ UNCHANGED <<strays, links, refs, records>>

\* Without a reference there is no link to remove.
DeleteLink(p) ==
    LET t == tx[p] IN
    /\ t.pc = "unlink"
    /\ links' = [k \in {x \in DOMAIN links : x # t.key \/ t.content = Null} |-> links[k]]
    /\ Become(p, [t EXCEPT !.pc = IF t.todo = {} THEN "commit" ELSE "delete"])
    /\ UNCHANGED <<files, strays, refs, records>>

Commit(p) ==
    /\ tx[p].pc = "commit"
    /\ refs' = RefsSeen(p) /\ records' = Overlay(tx[p].records, records)
    /\ tx' = [tx EXCEPT ![p] = Idle]
    /\ UNCHANGED <<files, strays, links>>

\* A later step of the request fails, or a foreign key does at COMMIT: the rows come
\* back, the disk stays as it is.
Rollback(p) ==
    /\ tx[p].pc # "idle"
    /\ tx[p].removed => LateFailures
    /\ tx' = [tx EXCEPT ![p] = Idle]
    /\ UNCHANGED <<files, strays, links, refs, records>>

Next ==
    \E p \in Procs :
      \/ \E r \in Records, n \in Names, c \in Contents : Upload(p, r, n, c)
      \/ SaveProbe(p) \/ SaveFile(p) \/ SaveLink(p) \/ SaveReference(p)
      \/ \E n \in Names : SaveName(p, n)
      \/ \E S \in SUBSET Records : Delete(p, S)
      \/ \E k \in Keys : DeleteCount(p, k)
      \/ DeleteReferences(p) \/ DeleteFile(p) \/ DeleteLink(p)
      \/ Commit(p) \/ Rollback(p)

Spec == Init /\ [][Next]_vars

--------------------------------------------------------------------------------
(***************************************************************************)
(* Properties.                                                             *)
(***************************************************************************)

\* Every variable has its type; a record links into its own store.
TypeOK ==
    /\ files \subseteq Contents /\ strays \subseteq Contents
    /\ DOMAIN links \subseteq Keys /\ \A k \in DOMAIN links : links[k] \in Contents
    /\ refs \in [Keys -> Contents \cup {Null}]
    /\ \A r \in Records : /\ records[r].content \in Contents \cup {Null}
                          /\ records[r] # NoFile => records[r].key[1] = Store[r]
    /\ \A p \in Procs : /\ tx[p].todo \cup DOMAIN tx[p].refs \subseteq Keys
                        /\ DOMAIN tx[p].records \subseteq Records

\* No open transaction is writing the row of record r.
Settled(r) == \A p \in Procs : r \notin DOMAIN tx[p].records

\* The file of a record can be served, and it is its own: its reference and its link
\* are there, and lead to the bytes that were uploaded with it, whatever was uploaded
\* under the same name or deleted with the same content.
RecordsServed ==
    \A r \in Records : Settled(r) /\ records[r] # NoFile =>
      LET k == records[r].key IN
      /\ refs[k] = records[r].content
      /\ k \in DOMAIN links /\ links[k] = records[r].content
      /\ records[r].content \in files

\* Bytes whose last reference is deleted are gone from the disk, in both stores and
\* with all the other files that the request deletes.
LastReferenceRemovesFile ==
    [][\A c \in Contents : (\E k \in Keys : refs[k] = c) /\ (\A k \in Keys : refs'[k] # c)
         => c \notin files']_vars

================================================================================
