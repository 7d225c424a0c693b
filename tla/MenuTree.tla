-------------------------------- MODULE MenuTree --------------------------------
(***************************************************************************)
(* The menu of a website: a tree of rows that each carry the materialized  *)
(* path of their ancestors.  Services insert with bulk_create and move     *)
(* with queryset.update, the admin writes with Model.save; each keeps the  *)
(* path in its own way, and every read of the tree trusts it.              *)
(*                                                                         *)
(* A path is the sequence of the primary keys it spells.  Foreign keys are *)
(* checked at COMMIT (Django declares them INITIALLY DEFERRED).            *)
(***************************************************************************)
EXTENDS Integers, SequencesExt

CONSTANTS
    Menus,        \* the primary keys
    Procs,        \* request threads
    Admins,       \* those that may serve the admin too
    MaxDepth,     \* keys that fit in the 256 characters of parent_path
    AdminCares,   \* an administrator never picks a parent below the menu
    Null

ASSUME MenuAssumption ==
    /\ IsFiniteSet(Menus) /\ Null \notin Menus
    /\ MaxDepth \in Nat \ {0} /\ AdminCares \in BOOLEAN /\ Admins \subseteq Procs

VARIABLES
    menus,  \* the committed rows
    tx      \* the request each process serves

vars == <<menus, tx>>

NoMenu == [live |-> FALSE, parent |-> Null, path |-> <<>>]

Idle == [pc |-> "idle", kind |-> "none", rows |-> {}, parent |-> Null, above |-> <<>>,
         old |-> <<>>, written |-> <<>>, paths |-> <<>>]

\* One table laid over another: what a transaction has written over what is committed.
Overlay(own, rows) == [r \in DOMAIN own \cup DOMAIN rows |->
                         IF r \in DOMAIN own THEN own[r] ELSE rows[r]]

View(p) == Overlay(tx[p].written, menus)

Live(view) == {r \in Menus : view[r].live}

Init ==
    /\ menus = [r \in Menus |-> NoMenu]
    /\ tx = [p \in Procs |-> Idle]

CanWrite(p, S) == \A q \in Procs \ {p} : DOMAIN tx[q].written \cap S = {}

Abandon(p) == tx' = [tx EXCEPT ![p] = Idle] /\ UNCHANGED menus

--------------------------------------------------------------------------------
(***************************************************************************)
(* Paths.                                                                  *)
(***************************************************************************)

\* Mutant of PathUnder: the path is left empty.
PathUnder_Empty(above, r) == <<>>

\* The path of a row below a parent whose path is `above`, <<>> for no parent.
PathUnder(above, r) == Append(above, r)

PathOf(view, parent) == IF parent = Null THEN <<>> ELSE view[parent].path

\* The two arms of the recursive query of recompute_parent_store: the roots, and
\* the children of the rows reached, each with the path it walks.
RootWalks(view) == {<<r>> : r \in {x \in Live(view) : view[x].parent = Null}}

LongerWalks(view, Q) ==
    {q \in {Append(q, r) : q \in Q, r \in Live(view)} : view[Last(q)].parent = q[Len(q) - 1]}

\* The rows the query reaches from the roots, each with the path it walks.
WalkDown(view) ==
    LET down[n \in 0..Cardinality(Menus)] ==
          IF n = 0 THEN RootWalks(view) ELSE down[n - 1] \cup LongerWalks(view, down[n - 1])
    IN down[Cardinality(Menus)]

\* The new path of the rows of S that the recursive query reaches.
Recomputed(view, S) ==
    LET Q == WalkDown(view)
    IN [r \in S \cap {Last(q) : q \in Q} |-> CHOOSE q \in Q : Last(q) = r]

--------------------------------------------------------------------------------
(***************************************************************************)
(* Requests: what they read before they write.                             *)
(***************************************************************************)
Begin(p, t) == tx[p].pc = "idle" /\ tx' = [tx EXCEPT ![p] = t] /\ UNCHANGED menus

\* Relations are resolved: the parent is loaded with its path.
Resolved(kind, rows, parent) ==
    [Idle EXCEPT !.pc = IF kind = "move" THEN "validate" ELSE "write", !.kind = kind,
                 !.rows = rows, !.parent = parent, !.above = PathOf(menus, parent)]

NewKey(r) == ~menus[r].live /\ \A q \in Procs : r \notin tx[q].rows

Create(p, r, parent) ==
    /\ NewKey(r)
    /\ parent \in Live(menus) \cup {Null}
    /\ Begin(p, Resolved("create", {r}, parent))

Move(p, S, parent) ==
    /\ parent \in Live(menus) \cup {Null}
    /\ Begin(p, Resolved("move", S, parent))

Delete(p, S) ==
    /\ S \cap Live(menus) # {}
    /\ Begin(p, [Idle EXCEPT !.pc = "write", !.kind = "delete", !.rows = S])

\* The admin form of one menu; save() remembers the path it had.
AdminSave(p, r, parent) ==
    /\ p \in Admins
    /\ r \in Live(menus) /\ parent \in Live(menus) \cup {Null}
    /\ AdminCares => r # parent /\ r \notin Range(PathOf(menus, parent))
    /\ Begin(p, [Resolved("save", {r}, parent) EXCEPT !.old = menus[r].path])

\* validate_data refuses r as an ancestor of its new parent, as loaded.
Refused(t, r) == t.parent # Null /\ (t.parent = r \/ r \in Range(t.above))

ValidateMove(p) ==
    LET rows == tx[p].rows \cap Live(menus) IN
    /\ tx[p].pc = "validate"
    /\ \/ /\ rows # {} /\ \A r \in rows : ~Refused(tx[p], r)
          /\ tx' = [tx EXCEPT ![p] = [@ EXCEPT !.pc = "write", !.rows = rows]]
          /\ UNCHANGED menus
       \/ (rows = {} \/ \E r \in rows : Refused(tx[p], r)) /\ Abandon(p)

--------------------------------------------------------------------------------
(***************************************************************************)
(* Writes.                                                                 *)
(***************************************************************************)

\* INSERT.  A path too long for its column is refused: DataError.
WriteCreate(p) ==
    LET t    == tx[p]
        path(r) == PathUnder(t.above, r) IN
    /\ t.pc = "write" /\ t.kind = "create"
    /\ \/ /\ \A r \in t.rows : Len(path(r)) <= MaxDepth
          /\ tx' = [tx EXCEPT ![p] = [@ EXCEPT !.pc = "commit",
                !.written = [r \in t.rows |->
                               [live |-> TRUE, parent |-> t.parent, path |-> path(r)]]]]
          /\ UNCHANGED menus
       \/ (\E r \in t.rows : Len(path(r)) > MaxDepth) /\ Abandon(p)

\* Mutant of WriteMove: the paths are not recomputed.
WriteMove_NoRecompute(p) ==
    LET rows == {r \in tx[p].rows : menus[r].live} IN
    /\ tx[p].pc = "write" /\ tx[p].kind = "move"
    /\ CanWrite(p, tx[p].rows)
    /\ tx' = [tx EXCEPT ![p] = [@ EXCEPT !.pc = "commit",
                 !.written = [r \in rows |-> [menus[r] EXCEPT !.parent = tx[p].parent]]]]
    /\ UNCHANGED menus

\* UPDATE of the parent.
WriteMove(p) ==
    LET rows == {r \in tx[p].rows : menus[r].live} IN
    /\ tx[p].pc = "write" /\ tx[p].kind = "move"
    /\ CanWrite(p, tx[p].rows)
    /\ tx' = [tx EXCEPT ![p] = [@ EXCEPT !.pc = "recompute",
                 !.written = [r \in rows |-> [menus[r] EXCEPT !.parent = tx[p].parent]]]]
    /\ UNCHANGED menus

\* UPDATE of every column, the path included, or INSERT of a row deleted meanwhile.
WriteSave(p) ==
    LET t == tx[p]
        fits == \A r \in t.rows : Len(PathUnder(t.above, r)) <= MaxDepth IN
    /\ t.pc = "write" /\ t.kind = "save"
    /\ CanWrite(p, t.rows)
    /\ \/ /\ fits
          /\ tx' = [tx EXCEPT ![p] = [@ EXCEPT !.pc = "recompute",
                !.written = [r \in t.rows |-> [live |-> TRUE, parent |-> t.parent,
                                               path |-> PathUnder(t.above, r)]]]]
          /\ UNCHANGED menus
       \/ ~fits /\ Abandon(p)

\* DELETE; a child of one of the rows refuses it (PROTECT), even when it is deleted too.
WriteDelete(p) ==
    LET rows == tx[p].rows \cap Live(menus)
        protected == \E x \in Live(menus) : menus[x].parent \in rows IN
    /\ tx[p].pc = "write" /\ tx[p].kind = "delete"
    /\ CanWrite(p, rows)
    /\ \/ /\ ~protected
          /\ tx' = [tx EXCEPT ![p] = [@ EXCEPT !.pc = "commit",
                                               !.written = [r \in rows |-> NoMenu]]]
          /\ UNCHANGED menus
       \/ protected /\ Abandon(p)

\* recompute_parent_store walks the tree as its statement sees it: over the whole
\* table after a move, over the rows below the old path after a save.
RecomputeRead(p) ==
    LET t == tx[p]
        scope == {r \in Live(View(p)) : t.kind = "save" => IsPrefix(t.old, View(p)[r].path)}
        paths == Recomputed(View(p), scope)
        fits  == \A r \in DOMAIN paths : Len(paths[r]) <= MaxDepth IN
    /\ t.pc = "recompute"
    /\ \/ /\ fits
          /\ tx' = [tx EXCEPT ![p] = [@ EXCEPT !.pc = "store", !.paths = paths]]
          /\ UNCHANGED menus
       \/ ~fits /\ Abandon(p)

\* ... and writes the rows that still exist once their locks are obtained.
RecomputeStore(p) ==
    LET t == tx[p]
        rows == {r \in DOMAIN t.paths : View(p)[r].live} IN
    /\ t.pc = "store"
    /\ CanWrite(p, DOMAIN t.paths)
    /\ tx' = [tx EXCEPT ![p] = [@ EXCEPT !.pc = "commit",
                 !.written = Overlay([r \in rows |-> [View(p)[r] EXCEPT !.path = t.paths[r]]],
                                     t.written)]]
    /\ UNCHANGED menus

\* The deferred foreign keys hold: every parent exists.
Integrity(view) == \A r \in Live(view) : view[r].parent \in Live(view) \cup {Null}

Commit(p) ==
    /\ tx[p].pc = "commit"
    /\ Integrity(View(p))
    /\ menus' = View(p)
    /\ tx' = [tx EXCEPT ![p] = Idle]

\* A foreign key fails, the worker dies, or PostgreSQL aborts a deadlock.
Rollback(p) == tx[p].pc # "idle" /\ Abandon(p)

Request(p) ==
    \/ \E r \in Menus, m \in Menus \cup {Null} : Create(p, r, m) \/ AdminSave(p, r, m)
    \/ \E S \in (SUBSET Menus) \ {{}}, m \in Menus \cup {Null} : Move(p, S, m)
    \/ \E S \in (SUBSET Menus) \ {{}} : Delete(p, S)

Step(p) ==
    \/ ValidateMove(p)
    \/ WriteCreate(p) \/ WriteMove(p) \/ WriteSave(p) \/ WriteDelete(p)
    \/ RecomputeRead(p) \/ RecomputeStore(p)
    \/ Commit(p)

Next == \E p \in Procs : Request(p) \/ Step(p) \/ Rollback(p)

Spec == Init /\ [][Next]_vars

--------------------------------------------------------------------------------
(***************************************************************************)
(* read_tree: the rows whose path starts with the root's, in the order of  *)
(* their sequence, inserted one by one in a HierarchyTree.                 *)
(***************************************************************************)
EmptyTree == [nodes |-> <<>>, filled |-> {}]

\* Mutant of Insert: a child that comes before its parent is left alone.
Insert_NoPlaceholder(tree, key, parent) ==
    LET nodes == Overlay(tree.nodes, [k \in {key} |-> <<>>]) IN
    [filled |-> tree.filled \cup {key},
     nodes  |-> IF parent \in DOMAIN tree.nodes
                  THEN [nodes EXCEPT ![parent] = Append(@, key)] ELSE nodes]

\* HierarchyTree.insert: a parent not seen yet is an empty node, filled later.
Insert(tree, key, parent) ==
    LET nodes == Overlay(tree.nodes, [k \in {key, parent} \ {Null} |-> <<>>]) IN
    [filled |-> tree.filled \cup {key},
     nodes  |-> IF parent = Null THEN nodes ELSE [nodes EXCEPT ![parent] = Append(@, key)]]

ReadRows(root) == {r \in Live(menus) : IsPrefix(menus[root].path, menus[r].path)}

\* The root of the subtree is inserted as a root, whatever its own parent.
ReadTree(root, order) ==
    LET parent(r) == IF r = root THEN Null ELSE menus[r].parent
        tree[n \in 0..Len(order)] ==
          IF n = 0 THEN EmptyTree ELSE Insert(tree[n - 1], order[n], parent(order[n]))
    IN tree[Len(order)]

--------------------------------------------------------------------------------
(***************************************************************************)
(* Properties.                                                             *)
(***************************************************************************)

\* Every variable has its type; a path ends with the key of its row.
TypeOK ==
    /\ \A r \in Menus :
         /\ menus[r].live \in BOOLEAN /\ menus[r].parent \in Menus \cup {Null}
         /\ IF menus[r].live THEN menus[r].path # <<>> /\ Last(menus[r].path) = r
                             ELSE menus[r] = NoMenu
    /\ \A p \in Procs :
         /\ tx[p].pc \in {"idle", "validate", "write", "recompute", "store", "commit"}
         /\ tx[p].kind \in {"none", "create", "move", "save", "delete"}
         /\ tx[p].rows \cup DOMAIN tx[p].written \cup DOMAIN tx[p].paths \subseteq Menus

\* parent_path always spells the ancestors of the row, whether rows are created,
\* moved with whole subtrees below them, saved from the admin or deleted.
PathsFollowParents ==
    \A r \in Live(menus) :
      menus[r].path = Append(PathOf(menus, menus[r].parent), r)

\* No menu is lost: from each row the parents lead up to a root, so that a walk
\* down from the roots finds it again.
NoMenuIsLost == Live(menus) = {Last(q) : q \in WalkDown(menus)}

\* The rows below r by their parents, r included.
Below(r) == {x \in Live(menus) : \E q \in WalkDown(menus) : Last(q) = x /\ r \in Range(q)}

\* The rows of S, each once, in the order they come in.
InOrder(seq, S, order) ==
    /\ Range(seq) = S
    /\ \A i, j \in DOMAIN seq : i < j =>
         \E k, l \in DOMAIN order : k < l /\ order[k] = seq[i] /\ order[l] = seq[j]

\* read_tree gives the whole subtree, each item once, under its own parent and in
\* the order of the sequence, in whatever order parents and children come.
ReadTreeExact ==
    \A root \in Live(menus) :
      /\ ReadRows(root) = Below(root)
      /\ \A order \in SetToSeqs(ReadRows(root)) :
           LET tree == ReadTree(root, order) IN
           /\ DOMAIN tree.nodes = tree.filled /\ tree.filled = Below(root)
           /\ \A r \in Below(root) :
                LET children == {x \in Below(root) \ {root} : menus[x].parent = r}
                IN InOrder(tree.nodes[r], children, order)

================================================================================
