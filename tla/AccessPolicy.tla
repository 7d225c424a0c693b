---------------------------- MODULE AccessPolicy ----------------------------
(***************************************************************************)
(* Who may do what to which rows (user/access_policy.py, access_rights.py,  *)
(* security.py and the roles of the fixtures), and the service layer that   *)
(* every operation on a model goes through (core/services).                 *)
(*                                                                          *)
(* A database is a record of tables: `user` (the roles and the activity of  *)
(* a user), `budget` (the user in charge of it, who may be nobody) and      *)
(* `position` (the budget and the category of a position, its sequence).    *)
(* An environment is the acting user and the roles it has loaded.           *)
(***************************************************************************)
EXTENDS Integers, Sequences, FiniteSets, SequencesExt, TLC

CONSTANTS
    NoUser      \* null in a foreign key to a user; the user of a machine caller

----------------------------------------------------------------------------
(* Scopes and roles.  A scope is a model and an operation.                  *)

Operations == {"create", "read", "update", "delete"}

All(model) == {model} \X Operations

\* The roles of the fixtures that grant something on these models, by category:
\* the part of the name before the first underscore.
RolePermissions ==
    [USERTYPE_ADMIN |-> All("user"),
     USERTYPE_INTERNAL |-> {<<"user", "read">>, <<"user", "update">>},
     USERTYPE_PORTAL |-> {<<"user", "read">>, <<"user", "update">>},
     BUDGET_READER |-> {<<"budget", "read">>},
     BUDGET_USER |-> All("budget"),
     BUDGET_ADMINISTRATOR |-> All("budget")]

OwnBudgets == {"budget_manage_own", "budget_position_manage_own"}

AllBudgets == {"budget_manage_all", "budget_position_manage_all"}

RoleRules ==
    [USERTYPE_ADMIN |-> {"user_manage_all_user"},
     USERTYPE_INTERNAL |-> {"user_manage_own_profile"},
     USERTYPE_PORTAL |-> {"user_manage_own_profile"},
     BUDGET_READER |-> AllBudgets,
     BUDGET_USER |-> OwnBudgets,
     BUDGET_ADMINISTRATOR |-> AllBudgets]

Roles == DOMAIN RolePermissions

Category == [r \in Roles |-> IF r \in {"BUDGET_READER", "BUDGET_USER", "BUDGET_ADMINISTRATOR"}
                             THEN "BUDGET" ELSE "USERTYPE"]

\* unique_role_category
OnePerCategory(roles) ==
    \A r, s \in roles : Category[r] = Category[s] => r = s

get_user_scopes(roles) == UNION {RolePermissions[r] : r \in roles}

has_scopes(granted, required) == required \subseteq granted

----------------------------------------------------------------------------
(* Access rules.                                                            *)

Rules ==
    [user_manage_own_profile |->
        [model |-> "user", operations |-> {"read", "update"}, own |-> TRUE],
     user_manage_all_user |->
        [model |-> "user", operations |-> Operations, own |-> FALSE],
     budget_manage_own |->
        [model |-> "budget", operations |-> Operations, own |-> TRUE],
     budget_manage_all |->
        [model |-> "budget", operations |-> Operations, own |-> FALSE],
     budget_position_manage_own |->
        [model |-> "position", operations |-> Operations, own |-> TRUE],
     budget_position_manage_all |->
        [model |-> "position", operations |-> Operations, own |-> FALSE]]

get_queryset(db, model) == DOMAIN db[model]

\* Whose row it is: the lookups pk, user_id and budget__user_id of the rules.
OwnerOf(db, model, pk) ==
    CASE model = "user" -> pk
      [] model = "budget" -> db.budget[pk].user
      [] model = "position" -> db.budget[db.position[pk].budget].user

\* The conditions of a rule, each the set of rows that meet it: none, Q(), when
\* there is no acting user.
scope_filter(db, rule, user) ==
    LET rows == get_queryset(db, rule.model)
    IN  IF ~rule.own THEN {rows}
        ELSE IF user = NoUser THEN {}
        ELSE {{pk \in rows : OwnerOf(db, rule.model, pk) = user}}

\* The rules of one role are ANDed, the roles are ORed; a role with nothing to
\* say on the model adds nothing, and where no role has, every row is in reach.
apply_access_rules(db, env, model, operation) ==
    LET matching(role) == {id \in RoleRules[role] :
                             Rules[id].model = model /\ operation \in Rules[id].operations}
        q_expr(role) == UNION {scope_filter(db, Rules[id], env.user) : id \in matching(role)}
        lookups == {q_expr(role) : role \in env.roles} \ {{}}
    IN  IF lookups = {} THEN get_queryset(db, model)
        ELSE {pk \in get_queryset(db, model) : \E q \in lookups : \A rows \in q : pk \in rows}

----------------------------------------------------------------------------
(* ServiceBase: what every service offers the others.                       *)

browse(db, env, model, pks) == apply_access_rules(db, env, model, "read") \cap pks

display_name(db, env, model, ids) ==
    LET coerced == FoldLeft(LAMBDA seen, id : IF Contains(seen, id) THEN seen
                                              ELSE Append(seen, id), <<>>, ids)
        found == browse(db, env, model, ToSet(coerced))
    IN  SelectSeq(coerced, LAMBDA id : id \in found)

\* A plausible fault: the relation is looked up through the manager.
_resolve_relation_Manager(db, env, model, values) == get_queryset(db, model) \cap values

\* The values that name a record the acting user may read; the others, unknown or
\* out of reach, are refused alike.
_resolve_relation(db, env, model, values) == browse(db, env, model, values)

----------------------------------------------------------------------------
(* CreateMixin.  The body of a budget may leave its user out (Unset).       *)

Unset == "unset"

\* A plausible fault: the service does not know the acting user.
_default_values_OfTheModel(env) == NoUser

\* BudgetService: the acting user, or what the schema says, null.
_default_values(env) == env.user

\* The default shown to a client: dropped, Unset, when the client may not read it.
default_values(db, env) ==
    LET user == _default_values(env)
    IN  IF user = NoUser \/ user \in browse(db, env, "user", {user}) THEN user ELSE Unset

\* The user of a body, completed with the default when it is left out.
InputUser(env, op) ==
    IF op.do = "create" /\ op.user = Unset THEN _default_values(env) ELSE op.user

\* Every relation of the body resolves: the user of a budget, the roles of a user.
\* Roles have no access rule.
to_internal_values(db, env, op) ==
    CASE op.do \in {"create", "update"} ->
           LET user == InputUser(env, op)
           IN  user = NoUser \/ user \in _resolve_relation(db, env, "user", {user})
      [] op.do = "roles" -> op.roles \subseteq Roles
      [] OTHER -> TRUE

\* The row is inserted first and then looked for among the rows in reach.
_create_atomic(db, env, op, pk) ==
    LET inserted == [db EXCEPT !.budget =
                       [b \in DOMAIN @ \cup {pk} |-> IF b = pk THEN [user |-> InputUser(env, op)]
                                                    ELSE @[b]]]
    IN  IF pk \in apply_access_rules(inserted, env, "budget", "create")
        THEN [status |-> "created", db |-> inserted]
        ELSE [status |-> "denied", db |-> db]

----------------------------------------------------------------------------
(* UpdateMixin, DeleteMixin, ResequenceMixin: the rows a statement selects, *)
(* by the path of the request and the access rules.                         *)

Selected(db, env, op) ==
    CASE op.do = "update" -> apply_access_rules(db, env, "budget", "update") \cap {op.pk}
      [] op.do = "delete" -> apply_access_rules(db, env, "budget", "delete") \cap {op.pk}
      [] op.do = "roles" -> apply_access_rules(db, env, "user", "update") \cap {op.pk}
      [] op.do = "resequence" ->
           {p \in apply_access_rules(db, env, "position", "update") \cap ToSet(op.ids) :
              db.position[p].budget = op.budget}
      [] OTHER -> {}

\* A pk repeated is refused before any query.
Repeated(op) == op.do = "resequence" /\ Cardinality(ToSet(op.ids)) # Len(op.ids)

\* What the transaction answers once it has read its rows, if it goes no further.
NothingToWrite(op, pks) ==
    CASE op.do = "resequence" -> IF ToSet(op.ids) \subseteq pks THEN "no" ELSE "invalid"
      [] OTHER -> IF pks = {} THEN "not found" ELSE "no"

\* A plausible fault: the rows read before are written, whatever they are now.
UpdatedRows_ByPk(db, env, op, pks) == pks \cap get_queryset(db, "budget")

\* queryset.update() runs the filters again: a row that has left the reach of the
\* user since it was read is not written.
UpdatedRows(db, env, op, pks) == Selected(db, env, op)

_update_atomic(db, env, op, pks) ==
    [db EXCEPT !.budget =
        [b \in DOMAIN @ |-> IF b \in UpdatedRows(db, env, op, pks)
                            THEN [user |-> op.user] ELSE @[b]]]

\* The rows of the through table that were read decide which are removed and
\* which are added; its constraint has the last word, on a role given twice too.
\* (A role taken and given back since then counts as the row that was read.)
_update_many_to_many(db, op, existing) ==
    LET kept == db.user[op.pk].roles \ (existing \ op.roles)
        relations_to_create == op.roles \ existing
        roles == kept \cup relations_to_create
    IN  IF kept \cap relations_to_create = {} /\ OnePerCategory(roles)
        THEN [status |-> "ok", db |-> [db EXCEPT !.user[op.pk] = [is_active |-> @.is_active,
                                                                 roles |-> roles]]]
        ELSE [status |-> "invalid", db |-> db]

\* The collector has the keys of the rows it read and of those that cascade.
_delete_atomic(db, pks) ==
    LET kept == DOMAIN db.budget \ pks
    IN  [db EXCEPT !.budget = [b \in kept |-> db.budget[b]],
                   !.position = [p \in {p \in DOMAIN @ : @[p].budget \in kept} |-> @[p]]]

_resequence(db, env, op) ==
    LET index(p) == CHOOSE i \in DOMAIN op.ids : op.ids[i] = p
    IN  [db EXCEPT !.position =
           [p \in DOMAIN @ |-> IF p \in Selected(db, env, op)
                               THEN [@[p] EXCEPT !.sequence = op.offset + index(p)]
                               ELSE @[p]]]

\* The write of a transaction that has read pks (and, for roles, the rows of the
\* through table): its status and the database it commits.
Written(db, env, op, pks, existing, key) ==
    CASE op.do = "create" -> _create_atomic(db, env, op, key)
      [] op.do = "update" -> [status |-> "ok", db |-> _update_atomic(db, env, op, pks)]
      [] op.do = "roles" -> _update_many_to_many(db, op, existing)
      [] op.do = "delete" -> [status |-> "deleted", db |-> _delete_atomic(db, pks)]
      [] op.do = "resequence" -> [status |-> "ok", db |-> _resequence(db, env, op)]

\* The answer to a request that nothing else interferes with.
Answer(db, env, op, key) ==
    LET pks == Selected(db, env, op)
        early == IF op.do = "create" THEN "no" ELSE NothingToWrite(op, pks)
    IN  IF Repeated(op) \/ ~to_internal_values(db, env, op) THEN [status |-> "invalid", db |-> db]
        ELSE IF early # "no" THEN [status |-> early, db |-> db]
        ELSE Written(db, env, op, pks,
                     IF op.do = "roles" THEN db.user[op.pk].roles ELSE {}, key)

----------------------------------------------------------------------------
(* Lists and groups.  The database may return rows that the ORDER BY leaves *)
(* equal in any order: a query has a set of results.                        *)

\* The sequences of the elements of S in which none is above a later one.
Sorted(S, Compare(_, _)) ==
    {s \in SetToSeqs(S) : \A i, j \in DOMAIN s : i < j => Compare(s[i], s[j]) <= 1}

\* 0 below, 1 equal, 2 above.
Order(x, y) == IF x < y THEN 0 ELSE IF x = y THEN 1 ELSE 2

Lexical(terms) ==
    LET firsts == {i \in DOMAIN terms : terms[i] # 1}
    IN  IF firsts = {} THEN 1 ELSE terms[CHOOSE i \in firsts : \A j \in firsts : i <= j]

\* The orders the database may give the rows of a list: by sequence and then by
\* primary key, key.
queryset_order_by_fields(rows, db, key) ==
    Sorted(rows, LAMBDA p, q : Lexical(<<Order(db.position[p].sequence, db.position[q].sequence),
                                         Order(key[p], key[q])>>))

\* The page of a result: a sequence, empty beyond the last.
Page(rows, limit, offset) == SubSeq(rows, offset + 1, IF offset + limit < Len(rows)
                                                      THEN offset + limit ELSE Len(rows))

\* ReadMixin.read, narrowed to the budgets of a path.
read(db, env, budgets) ==
    {p \in apply_access_rules(db, env, "position", "read") : db.position[p].budget \in budgets}

\* The groups of the positions in reach by category, with their count.
GroupsOf(db, env, budgets) ==
    LET scoped == read(db, env, budgets)
        members(c) == {p \in scoped : db.position[p].category = c}
    IN  {[category |-> c, count |-> Cardinality(members(c))] :
           c \in {db.position[p].category : p \in scoped}}

\* A plausible fault: only what the client named.
_group_by_ordering_OnlyNamed(g, h, ordering, key) ==
    CASE ordering = "count" -> Order(g.count, h.count)
      [] ordering = "-count" -> Order(h.count, g.count)
      [] ordering = "category" -> Order(key[g.category], key[h.category])

\* What the client named, then the dimensions it did not.
_group_by_ordering(g, h, ordering, key) ==
    LET dimension == Order(key[g.category], key[h.category])
    IN  CASE ordering = "count" -> Lexical(<<Order(g.count, h.count), dimension>>)
          [] ordering = "-count" -> Lexical(<<Order(h.count, g.count), dimension>>)
          [] ordering = "category" -> dimension

\* The total and the groups of every result the database may give.
group_by(db, env, budgets, ordering, key) ==
    LET groups == GroupsOf(db, env, budgets)
    IN  [total |-> Cardinality(groups),
         results |-> Sorted(groups, LAMBDA g, h : _group_by_ordering(g, h, ordering, key))]
=============================================================================
