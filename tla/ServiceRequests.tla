-------------------------- MODULE ServiceRequests --------------------------
(***************************************************************************)
(* Requests of the API from their credential to their commit, on one tenant *)
(* database.  A request is authenticated and its scope checked, it loads    *)
(* the roles of its user, resolves the relations of its body, reads the     *)
(* rows it selects and writes: each a query of its own, with the steps of   *)
(* the other workers in between.  The scopes of an access token are those   *)
(* of the roles its user had when it was issued; the roles that select      *)
(* rows are the live ones.                                                  *)
(***************************************************************************)
EXTENDS AccessPolicy

CONSTANTS
    Users,          \* the users of the tenant
    Keys,           \* its API keys
    KeyScopes,      \* the scopes of a key
    Workers,
    Budgets,        \* the budgets that may exist
    InitialDb,      \* the rows at the start
    Ops,            \* the requests clients make
    Lifetime,       \* JWT_ACCESS_TOKEN_LIFETIME, in ticks
    MaxClock,       \* bound on the clock
    MaxTokens,      \* bound on the tokens that are still valid
    MaxChanges,     \* bound on the requests accepted and the acts of the admin
    PrimaryKey,     \* the order of the keys of positions and categories
    Limits          \* the sizes of a page that clients ask for

ASSUME BoundsAssumption == Lifetime \in Nat \ {0} /\ MaxClock \in Nat /\ MaxTokens \in Nat
                           /\ MaxChanges \in Nat /\ Limits \subseteq Nat \ {0}

\* The rows at the start are rows the database accepts.
ASSUME RowsAssumption ==
    /\ NoUser \notin Users /\ Unset \notin Users
    /\ InitialDb \in
         [user : [Users -> [is_active : BOOLEAN, roles : {r \in SUBSET Roles : OnePerCategory(r)}]],
          budget : UNION {[rows -> [user : Users \cup {NoUser}]] : rows \in SUBSET Budgets},
          position : {InitialDb.position}]
    /\ \A p \in DOMAIN InitialDb.position :
         /\ DOMAIN InitialDb.position[p] = {"budget", "category", "sequence"}
         /\ InitialDb.position[p].budget \in DOMAIN InitialDb.budget
         /\ InitialDb.position[p].sequence \in Int

\* The keys of the positions, and those of the categories, are distinct numbers.
ASSUME KeysAssumption ==
    LET positions == DOMAIN InitialDb.position
        categories == {InitialDb.position[p].category : p \in positions}
    IN  /\ IsFiniteSet(positions)
        /\ \A rows \in {positions, categories} : \A x, y \in rows :
             PrimaryKey[x] \in Int /\ (PrimaryKey[x] = PrimaryKey[y] => x = y)

\* The routes that exist.
ASSUME OpsAssumption ==
    \A op \in Ops :
      /\ op.do \in {"create", "update", "delete", "roles", "resequence"}
      /\ op.do = "resequence" => DOMAIN op.ids \subseteq Nat /\ op.offset \in Nat

VARIABLES
    db,         \* the committed rows of the tenant database
    tokens,     \* access tokens in the hands of clients
    usable,     \* API keys that are neither revoked nor expired
    clock,
    lost,       \* history: when a user last held a scope
    changes,    \* number of requests accepted and of acts of the admin
    req         \* the request each worker serves

vars == <<db, tokens, usable, clock, lost, changes, req>>

Scopes == {"user", "budget"} \X Operations

\* The database of the tenant and another one that the same process serves.
Databases == {"here", "elsewhere"}

NoRequest == [pc |-> "idle"]

Init ==
    /\ db = InitialDb
    /\ tokens = {}
    /\ usable = Keys
    /\ clock = 0
    /\ lost = [u \in Users |-> [s \in Scopes |-> 0 - Lifetime]]
    /\ changes = 0
    /\ req = [w \in Workers |-> NoRequest]

----------------------------------------------------------------------------
(* Credentials.                                                             *)

Held(u) == IF db.user[u].is_active THEN get_user_scopes(db.user[u].roles) ELSE {}

\* jwt.decode refuses a token from its exp on.
Valid(token) == clock < token.exp

\* AuthService._issue, at a sign-in or a rotation of the user; another database of
\* the process issues tokens of its own, for users that may bear the same key.
encode_access_token(sub, scope, name) ==
    /\ Cardinality({t \in tokens : Valid(t)}) < MaxTokens
    /\ tokens' = {t \in tokens : Valid(t)}
                 \cup {[sub |-> sub, scope |-> scope, db |-> name, exp |-> clock + Lifetime]}

Issue(u) ==
    /\ db.user[u].is_active
    /\ encode_access_token(u, get_user_scopes(db.user[u].roles), "here")
    /\ UNCHANGED <<db, usable, clock, lost, changes, req>>

IssueElsewhere(u) ==
    /\ encode_access_token(u, Scopes, "elsewhere")
    /\ UNCHANGED <<db, usable, clock, lost, changes, req>>

\* A plausible fault: the claim on the database is not compared.
decode_access_token_AnyDatabase(token) == Valid(token)

decode_access_token(token) == Valid(token) /\ token.db = "here"

\* The principal of a request, JWTAuth and ApiKeyAuth: who acts, with what scopes.
Principals ==
    {[user |-> t.sub, scopes |-> t.scope] :
       t \in {t \in tokens : decode_access_token(t) /\ db.user[t.sub].is_active}}
    \cup {[user |-> NoUser, scopes |-> KeyScopes] : k \in usable}

\* The permission map of the controllers.
permission_map(op) ==
    CASE op.do = "create" -> {<<"budget", "create">>}
      [] op.do \in {"update", "resequence"} -> {<<"budget", "update">>}
      [] op.do = "delete" -> {<<"budget", "delete">>}
      [] op.do = "roles" -> {<<"user", "update">>}

----------------------------------------------------------------------------
(* A request.                                                               *)

\* A request that is refused, 401 or 403, changes nothing and is not a step.
Start(w, principal, op) ==
    /\ req[w].pc = "idle"
    /\ changes < MaxChanges
    /\ has_scopes(principal.scopes, permission_map(op))
    /\ ~Repeated(op)
    /\ req' = [req EXCEPT ![w] = [pc |-> "roles", user |-> principal.user, op |-> op]]
    /\ changes' = changes + 1
    /\ UNCHANGED <<db, tokens, usable, clock, lost>>

Env(r) == [user |-> r.user, roles |-> r.roles]

\* The first use of the access rules loads the roles, for the rest of the request.
get_access_roles(w) ==
    /\ req[w].pc = "roles"
    /\ LET r == req[w]
       IN  req' = [req EXCEPT ![w] =
             [pc |-> IF r.op.do \in {"create", "update", "roles"} THEN "resolve" ELSE "read",
              user |-> r.user, op |-> r.op,
              roles |-> IF r.user = NoUser THEN {} ELSE db.user[r.user].roles]]
    /\ UNCHANGED <<db, tokens, usable, clock, lost, changes>>

\* Relations are resolved before the transaction; one that does not ends it.
Resolve(w) ==
    /\ req[w].pc = "resolve"
    /\ LET r == req[w]
       IN  req' = [req EXCEPT ![w] =
             IF ~to_internal_values(db, Env(r), r.op) THEN NoRequest
             ELSE IF r.op.do = "create"
             THEN [pc |-> "write", user |-> r.user, op |-> r.op, roles |-> r.roles,
                   pks |-> {}, existing |-> {}]
             ELSE [r EXCEPT !.pc = "read"]]
    /\ UNCHANGED <<db, tokens, usable, clock, lost, changes>>

\* The transaction opens and reads the rows it selects, and the roles of a user.
Read(w) ==
    /\ req[w].pc = "read"
    /\ LET r == req[w]
           pks == Selected(db, Env(r), r.op)
       IN  req' = [req EXCEPT ![w] =
             IF NothingToWrite(r.op, pks) # "no" THEN NoRequest
             ELSE [pc |-> "write", user |-> r.user, op |-> r.op, roles |-> r.roles, pks |-> pks,
                   existing |-> IF r.op.do = "roles" THEN db.user[r.op.pk].roles ELSE {}]]
    /\ UNCHANGED <<db, tokens, usable, clock, lost, changes>>

\* When each user last held each scope, after a step that changes the users.
LostSince(users) ==
    [u \in Users |-> [s \in Scopes |->
        IF s \in Held(u) /\ ~(users[u].is_active /\ s \in get_user_scopes(users[u].roles))
        THEN clock ELSE lost[u][s]]]

\* The statements that write, and the commit.
Write(w) ==
    /\ req[w].pc = "write"
    /\ LET r == req[w]
       IN  \E key \in IF r.op.do = "create" THEN Budgets \ DOMAIN db.budget ELSE {NoUser} :
             db' = Written(db, Env(r), r.op, r.pks, r.existing, key).db
    /\ lost' = LostSince(db'.user)
    /\ req' = [req EXCEPT ![w] = NoRequest]
    /\ UNCHANGED <<tokens, usable, clock, changes>>

----------------------------------------------------------------------------
(* The admin, who acts outside the API, and time.                           *)

SetActive(u) ==
    /\ changes < MaxChanges
    /\ db' = [db EXCEPT !.user[u] = [is_active |-> ~@.is_active, roles |-> @.roles]]
    /\ lost' = LostSince(db'.user)
    /\ changes' = changes + 1
    /\ UNCHANGED <<tokens, usable, clock, req>>

RevokeKey(k) ==
    /\ k \in usable
    /\ changes < MaxChanges
    /\ usable' = usable \ {k}
    /\ changes' = changes + 1
    /\ UNCHANGED <<db, tokens, clock, lost, req>>

Tick ==
    /\ clock < MaxClock
    /\ clock' = clock + 1
    /\ tokens' = {t \in tokens : clock' < t.exp}    \* an expired token never serves again
    /\ UNCHANGED <<db, usable, lost, changes, req>>

Next ==
    \/ \E u \in Users : Issue(u) \/ IssueElsewhere(u) \/ SetActive(u)
    \/ \E k \in Keys : RevokeKey(k)
    \/ \E w \in Workers : \/ \E principal \in Principals, op \in Ops : Start(w, principal, op)
                          \/ get_access_roles(w) \/ Resolve(w) \/ Read(w) \/ Write(w)
    \/ Tick

Spec == Init /\ [][Next]_vars

----------------------------------------------------------------------------
(* Properties.                                                              *)

\* The environments a request may act in: a user with its roles, or a key.
Envs == {[user |-> u, roles |-> db.user[u].roles] : u \in Users}
        \cup {[user |-> NoUser, roles |-> {}]}

\* What the rows decide is checked where no request is in flight.
Quiet == \A w \in Workers : req[w].pc = "idle"

Visible(env) ==
    LET budgets == apply_access_rules(db, env, "budget", "read")
        users == apply_access_rules(db, env, "user", "read")
        positions == apply_access_rules(db, env, "position", "read")
    IN  [user |-> [u \in users |-> db.user[u]],
         budget |-> [b \in budgets |-> db.budget[b]],
         position |-> [p \in positions |-> db.position[p]]]

NewBudget == CHOOSE b \in Budgets : b \notin DOMAIN db.budget

\* "Does not exist" and "exists but is not visible to you" are answered alike, as
\* browse, RelationNotFound and resequence intend: every request gets the answer
\* it would get if the rows its user may not read were not there at all.
HiddenLooksUnknown ==
    Quiet /\ Budgets # DOMAIN db.budget =>
      \A env \in Envs, op \in Ops :
        Answer(db, env, op, NewBudget).status = Answer(Visible(env), env, op, NewBudget).status

\* _update_atomic and _resequence read the rows they select with one statement and
\* write them with another, while other requests give the rows away: what an
\* update changes is in reach of the user that asks at the moment it is changed.
UpdatesStayInReach ==
    [][\A w \in Workers :
         LET r == req[w]
         IN  r.pc = "write" /\ req'[w].pc = "idle" /\ r.op.do # "create" =>
               /\ \A b \in DOMAIN db.budget \cap DOMAIN db'.budget :
                    db'.budget[b] # db.budget[b]
                      => b \in apply_access_rules(db, Env(r), "budget", "update")
               /\ \A p \in DOMAIN db.position \cap DOMAIN db'.position :
                    db'.position[p] # db.position[p]
                      => p \in apply_access_rules(db, Env(r), "position", "update")
               /\ \A u \in Users :
                    db'.user[u] # db.user[u]
                      => u \in apply_access_rules(db, Env(r), "user", "update")]_vars

\* The scopes of an access token are frozen when it is issued, and no row says it
\* was withdrawn: a request that the scope check lets through acts for an active
\* user of this database who has the scope, or had it less than one token
\* lifetime ago, as _issue promises ("a right withdrawn reaches the client within
\* one access token lifetime").
RightsAreRecent ==
    [][\A w \in Workers :
         req[w].pc = "idle" /\ req'[w].pc = "roles" /\ req'[w].user # NoUser =>
           LET u == req'[w].user
           IN  /\ db.user[u].is_active
               /\ \A s \in permission_map(req'[w].op) :
                    s \in Held(u) \/ clock - lost[u][s] < Lifetime]_vars

\* Pages of limit rows, each a query of its own that may see the ties of the ORDER
\* BY in any of the orders of results: between them they hold every element once.
Partition(results, elements, limit) ==
    LET offsets == {limit * i : i \in 0..Cardinality(elements)}
        page(r, x) == ToSet(Page(r, limit, x))
    IN  /\ results # {}
        /\ \A r, s \in results, x, y \in offsets : x # y => page(r, x) \cap page(s, y) = {}
        /\ \A r \in results : UNION {page(r, x) : x \in offsets} = elements

\* A client that goes through the pages of a list or of a group_by sees every row
\* or group in its reach exactly once, whatever order the database gives equal
\* rows; the counts of the groups add up to the rows, and the total announced is
\* the number of groups.
PagesPartitionReach ==
    Quiet => \A env \in Envs, budgets \in {{b} : b \in DOMAIN db.budget} \cup {Budgets} :
      LET rows == read(db, env, budgets)
          lists == queryset_order_by_fields(rows, db, PrimaryKey)
          groups == GroupsOf(db, env, budgets)
      IN  /\ \A limit \in Limits : Partition(lists, rows, limit)
          /\ FoldLeft(LAMBDA n, g : n + g.count, 0, SetToSeq(groups)) = Cardinality(rows)
          /\ \A ordering \in {"count", "-count", "category"}, limit \in Limits :
               LET grouped == group_by(db, env, budgets, ordering, PrimaryKey)
               IN  /\ Partition(grouped.results, groups, limit)
                   /\ grouped.total = Cardinality(groups)

\* The defaults a client is shown are the ones its creation gets, and the user of
\* own-budgets rules can create a budget without naming anybody: a creation that
\* leaves the user out is accepted, and the budget is of the user announced.
AnnouncedDefaultsHold ==
    Quiet /\ Budgets # DOMAIN db.budget => \A env \in Envs :
      LET answer == Answer(db, env, [do |-> "create", user |-> Unset], NewBudget)
      IN  answer.status = "created" /\ answer.db.budget[NewBudget].user = default_values(db, env)
=============================================================================
