---------------------- MODULE ServiceRequestsProofs ----------------------
(***************************************************************************)
(* Proofs about the requests of the API, for any users, roles, workers and *)
(* requests: what an access token may still do, what an update that was    *)
(* decided earlier may still write, and what the pages of a list hold.     *)
(***************************************************************************)
EXTENDS ServiceRequests, FiniteSetTheorems, WellFoundedInduction, TLAPS

----------------------------------------------------------------------------
(* The inductive invariant.                                                *)

Accounts == [Users -> [is_active : BOOLEAN, roles : {r \in SUBSET Roles : OnePerCategory(r)}]]

\* The tables: no request creates or removes a user, the database refuses two roles
\* of a category, and a position is one of a budget that exists.
RowsOK(d) ==
    /\ d = [user |-> d.user, budget |-> d.budget, position |-> d.position]
    /\ d.user \in Accounts
    /\ \A p \in DOMAIN d.position :
         "budget" \in DOMAIN d.position[p] /\ d.position[p].budget \in DOMAIN d.budget

\* What each worker remembers of its request, by the point it has reached.
ShapeOK(r) ==
    /\ r.pc \in {"idle", "roles", "resolve", "read", "write"}
    /\ r.pc # "idle" => r.op \in Ops
    /\ r.pc = "resolve" => r = [pc |-> "resolve", user |-> r.user, op |-> r.op, roles |-> r.roles]

\* A request that gives roles has found their names among the roles before it reads
\* anything, and found the account in reach of its user before it writes.
RolesOK(r, d) ==
    /\ r.pc \in {"read", "write"} /\ r.op.do = "roles" => r.op.roles \subseteq Roles
    /\ r.pc = "write" /\ r.op.do = "roles"
         => r.op.pk \in apply_access_rules(d, Env(r), "user", "update")

\* A token is at most one lifetime old, and each of its scopes is one its user has,
\* or lost after the token was issued.
TokenOK(t) ==
    /\ t.exp \in Int /\ t.exp <= clock + Lifetime
    /\ t.db = "here" =>
         /\ t.sub \in Users
         /\ \A s \in Scopes : s \in t.scope =>
              s \in Held(t.sub) \/ t.exp - Lifetime <= lost[t.sub][s]

IInv ==
    /\ RowsOK(db)
    /\ clock \in Nat
    /\ lost \in [Users -> [Scopes -> Int]]
    /\ \A t \in tokens : TokenOK(t)
    /\ req = [w \in Workers |-> req[w]]
    /\ \A w \in Workers : ShapeOK(req[w]) /\ RolesOK(req[w], db)

----------------------------------------------------------------------------
(* Lemmas about the operators.                                             *)

\* Whether the rules that bind an environment let it reach a row of this owner, said
\* without the tables.
Permits(env, model, operation, owner) ==
    LET binding(role) == {id \in RoleRules[role] :
                            /\ Rules[id].model = model /\ operation \in Rules[id].operations
                            /\ Rules[id].own => env.user # NoUser}
    IN  \/ \A role \in env.roles : binding(role) = {}
        \/ \E role \in env.roles :
             /\ binding(role) # {}
             /\ \A id \in binding(role) : Rules[id].own => owner = env.user

\* The combination of conditions, each a set of rows, comes down to the owner of the
\* row: what else the tables hold does not matter to who reaches it.
LEMMA ReachByOwner ==
    ASSUME NEW d, NEW env, NEW model, NEW operation, NEW pk
    PROVE  pk \in apply_access_rules(d, env, model, operation)
             <=> /\ pk \in get_queryset(d, model)
                 /\ Permits(env, model, operation, OwnerOf(d, model, pk))
<1> DEFINE matching(role) == {id \in RoleRules[role] :
                               Rules[id].model = model /\ operation \in Rules[id].operations}
           binding(role) == {id \in RoleRules[role] :
                               /\ Rules[id].model = model /\ operation \in Rules[id].operations
                               /\ Rules[id].own => env.user # NoUser}
           all == get_queryset(d, model)
           own == {x \in all : OwnerOf(d, model, x) = env.user}
           q(role) == UNION {scope_filter(d, Rules[id], env.user) : id \in matching(role)}
           lookups == {q(role) : role \in env.roles} \ {{}}
<1>1. apply_access_rules(d, env, model, operation)
        = IF lookups = {} THEN all
          ELSE {x \in all : \E y \in lookups : \A rows \in y : x \in rows}
  BY DEF apply_access_rules
<1>2. \A role : q(role) = {IF Rules[id].own THEN own ELSE all : id \in binding(role)}
  <2> SUFFICES ASSUME NEW role
               PROVE  q(role) = {IF Rules[id].own THEN own ELSE all : id \in binding(role)}
    OBVIOUS
  <2>1. \A id \in matching(role) :
          scope_filter(d, Rules[id], env.user)
            = IF ~Rules[id].own THEN {all} ELSE IF env.user = NoUser THEN {} ELSE {own}
    BY DEF scope_filter
  <2>2. \A id : id \in binding(role)
                  <=> id \in matching(role) /\ (Rules[id].own => env.user # NoUser)
    OBVIOUS
  <2> HIDE DEF matching, binding, own, all
  <2>3. QED  BY <2>1, <2>2
<1>3. Permits(env, model, operation, OwnerOf(d, model, pk))
        <=> \/ \A role \in env.roles : binding(role) = {}
            \/ \E role \in env.roles :
                 /\ binding(role) # {}
                 /\ \A id \in binding(role) : Rules[id].own => OwnerOf(d, model, pk) = env.user
  BY DEF Permits
<1>4. pk \in own <=> pk \in all /\ OwnerOf(d, model, pk) = env.user
  OBVIOUS
<1> HIDE DEF matching, binding, all, own, q
<1>5. lookups = {} <=> \A role \in env.roles : binding(role) = {}
  <2>1. \A role : q(role) = {} <=> binding(role) = {}
    BY <1>2
  <2>2. QED  BY <2>1
<1>6. ASSUME pk \in all
      PROVE  (\E y \in lookups : \A rows \in y : pk \in rows)
               <=> \E role \in env.roles :
                     /\ binding(role) # {}
                     /\ \A id \in binding(role) : Rules[id].own => OwnerOf(d, model, pk) = env.user
  <2>1. \A role : (\A rows \in q(role) : pk \in rows)
                    <=> \A id \in binding(role) : Rules[id].own => OwnerOf(d, model, pk) = env.user
    BY <1>2, <1>4, <1>6
  <2>2. \A role : q(role) # {} <=> binding(role) # {}
    BY <1>2
  <2>3. QED  BY <2>1, <2>2
<1> HIDE DEF lookups
<1>7. QED  BY <1>1, <1>3, <1>5, <1>6 DEF all

\* Which accounts an environment reaches depends on which accounts there are and on
\* nothing else: not on their roles, their activity or any other row.
LEMMA UsersInReach ==
    ASSUME NEW d, NEW e, NEW env, NEW operation, DOMAIN d.user = DOMAIN e.user
    PROVE  apply_access_rules(d, env, "user", operation)
             = apply_access_rules(e, env, "user", operation)
<1>1. \A pk : OwnerOf(d, "user", pk) = OwnerOf(e, "user", pk)
  BY DEF OwnerOf
<1>2. get_queryset(d, "user") = get_queryset(e, "user")
  BY DEF get_queryset
<1>3. QED  BY <1>1, <1>2, ReachByOwner

\* What is in reach exists.
LEMMA ReachExists ==
    ASSUME NEW d, NEW env, NEW model, NEW operation
    PROVE  apply_access_rules(d, env, model, operation) \subseteq get_queryset(d, model)
BY DEF apply_access_rules

\* The rules of the fixtures: who reaches a row reaches it with every operation on
\* accounts and budgets that this module has, and reaches a budget's positions with it.
LEMMA SameReach ==
    ASSUME NEW env, env.roles \subseteq Roles, NEW owner
    PROVE  /\ Permits(env, "user", "update", owner) <=> Permits(env, "user", "read", owner)
           /\ \A o \in Operations :
                /\ Permits(env, "budget", o, owner) <=> Permits(env, "budget", "read", owner)
                /\ Permits(env, "position", o, owner) <=> Permits(env, "budget", "read", owner)
<1> DEFINE binding(role, model, operation) ==
             {id \in RoleRules[role] : /\ Rules[id].model = model /\ operation \in Rules[id].operations
                                       /\ Rules[id].own => env.user # NoUser}
           Open(model, operation, role) ==
             /\ binding(role, model, operation) # {}
             /\ \A id \in binding(role, model, operation) : Rules[id].own => owner = env.user
<1>1. \A model, operation :
        Permits(env, model, operation, owner)
          <=> \/ \A role \in env.roles : binding(role, model, operation) = {}
              \/ \E role \in env.roles : Open(model, operation, role)
  BY DEF Permits
<1>2. ASSUME NEW role \in env.roles
      PROVE  /\ binding(role, "user", "update") = binding(role, "user", "read")
             /\ \A o \in Operations :
                  /\ binding(role, "budget", o) = binding(role, "budget", "read")
                  /\ binding(role, "position", o) = {} <=> binding(role, "budget", "read") = {}
                  /\ Open("position", o, role) <=> Open("budget", "read", role)
  <2>1. role \in Roles  OBVIOUS
  <2>2. QED
    BY <2>1 DEF Roles, RolePermissions, RoleRules, Rules, Operations, OwnBudgets, AllBudgets
<1>3. \A role \in env.roles : /\ Open("user", "update", role) <=> Open("user", "read", role)
                              /\ \A o \in Operations :
                                   Open("budget", o, role) <=> Open("budget", "read", role)
  BY <1>2
<1> HIDE DEF binding, Open
<1>4. QED  BY <1>1, <1>2, <1>3

\* The tables with one more budget.
Inserted(d, key, row) ==
    [d EXCEPT !.budget = [b \in DOMAIN @ \cup {key} |-> IF b = key THEN row ELSE @[b]]]

\* A statement that writes leaves the other tables as they were, and the accounts
\* accounts: only roles are written to them, at most one of a category.
LEMMA WrittenRows ==
    ASSUME NEW d, RowsOK(d), NEW env, NEW op \in Ops, NEW pks, NEW existing, NEW key,
           op.do = "roles" => op.roles \subseteq Roles /\ op.pk \in Users
    PROVE  RowsOK(Written(d, env, op, pks, existing, key).db)
<1> DEFINE w == Written(d, env, op, pks, existing, key).db
<1> SUFFICES RowsOK(w)
  OBVIOUS
<1>1. op.do \in {"create", "update", "delete", "roles", "resequence"}
  BY OpsAssumption
<1>2. CASE op.do = "create"
  <2> DEFINE i == Inserted(d, key, [user |-> InputUser(env, op)])
  <2>1. w = i \/ w = d
    BY <1>2 DEF Written, _create_atomic, Inserted
  <2>2. /\ i = [user |-> d.user, budget |-> i.budget, position |-> d.position]
        /\ DOMAIN i.budget = DOMAIN d.budget \cup {key}
    BY DEF RowsOK, Inserted
  <2> HIDE DEF i
  <2>3. RowsOK(i)
    BY <2>2 DEF RowsOK
  <2>4. QED  BY <2>1, <2>3
<1>3. CASE op.do = "update"
  <2>1. w = _update_atomic(d, env, op, pks)  BY <1>3 DEF Written
  <2>2. QED  BY <2>1 DEF RowsOK, _update_atomic
<1>4. CASE op.do = "delete"
  <2>1. w = _delete_atomic(d, pks)  BY <1>4 DEF Written
  <2> DEFINE kept == DOMAIN d.budget \ pks
             positions == {p \in DOMAIN d.position : d.position[p].budget \in kept}
  <2>2. w = [user |-> d.user, budget |-> [b \in kept |-> d.budget[b]],
             position |-> [p \in positions |-> d.position[p]]]
    BY <2>1 DEF RowsOK, _delete_atomic
  <2> HIDE DEF w
  <2>3. DOMAIN w.budget = kept /\ DOMAIN w.position = positions
        /\ \A p \in positions : w.position[p] = d.position[p]
    BY <2>2
  <2>4. QED  BY <2>2, <2>3 DEF RowsOK
<1>5. CASE op.do = "resequence"
  <2>1. w = _resequence(d, env, op)  BY <1>5 DEF Written
  <2> DEFINE index(p) == CHOOSE i \in DOMAIN op.ids : op.ids[i] = p
             rows == [p \in DOMAIN d.position |->
                        IF p \in Selected(d, env, op)
                        THEN [d.position[p] EXCEPT !.sequence = op.offset + index(p)]
                        ELSE d.position[p]]
  <2>2. w = [user |-> d.user, budget |-> d.budget, position |-> rows]
    BY <2>1 DEF _resequence, RowsOK
  <2> HIDE DEF w, index
  <2>3. \A p \in DOMAIN d.position :
          "budget" \in DOMAIN rows[p] /\ rows[p].budget = d.position[p].budget
    BY DEF RowsOK
  <2>4. DOMAIN rows = DOMAIN d.position
    OBVIOUS
  <2> HIDE DEF rows
  <2>5. QED  BY <2>2, <2>3, <2>4 DEF RowsOK
<1>6. CASE op.do = "roles"
  <2> DEFINE kept == d.user[op.pk].roles \ (existing \ op.roles)
             added == op.roles \ existing
             new == [d EXCEPT !.user[op.pk] = [is_active |-> @.is_active, roles |-> kept \cup added]]
  <2>1. w = _update_many_to_many(d, op, existing).db  BY <1>6 DEF Written
  <2>2. w = d \/ (w = new /\ OnePerCategory(kept \cup added))
    BY <2>1 DEF _update_many_to_many
  <2>3. ASSUME OnePerCategory(kept \cup added)
        PROVE  RowsOK(new)
    <3>1. d.user[op.pk] \in [is_active : BOOLEAN, roles : {r \in SUBSET Roles : OnePerCategory(r)}]
      BY <1>6 DEF RowsOK, Accounts
    <3>2. kept \cup added \in {r \in SUBSET Roles : OnePerCategory(r)}
      BY <1>6, <2>3, <3>1
    <3>3. [is_active |-> d.user[op.pk].is_active, roles |-> kept \cup added]
            \in [is_active : BOOLEAN, roles : {r \in SUBSET Roles : OnePerCategory(r)}]
      BY <3>1, <3>2
    <3> DEFINE account == [is_active |-> d.user[op.pk].is_active, roles |-> kept \cup added]
    <3>4. new = [user |-> [d.user EXCEPT ![op.pk] = account],
                 budget |-> d.budget, position |-> d.position]
      BY DEF RowsOK
    <3> HIDE DEF account, new, kept, added
    <3>5. QED  BY <3>3, <3>4 DEF RowsOK, Accounts, account
  <2>4. QED  BY <2>2, <2>3
<1>7. QED  BY <1>1, <1>2, <1>3, <1>4, <1>5, <1>6

----------------------------------------------------------------------------
(* What a step leaves of the invariant.                                    *)

\* A request in flight has the same account in reach after a step as before it.
LEMMA ReachStays ==
    ASSUME NEW d, NEW e, RowsOK(d), RowsOK(e), NEW r, RolesOK(r, d)
    PROVE  RolesOK(r, e)
<1>1. DOMAIN d.user = DOMAIN e.user
  BY DEF RowsOK, Accounts
<1>2. apply_access_rules(d, Env(r), "user", "update") = apply_access_rules(e, Env(r), "user", "update")
  BY <1>1, UsersInReach
<1>3. QED  BY <1>2 DEF RolesOK

\* A step of one worker, on rows the database accepts, keeps what holds of the
\* requests when it holds of what that worker now remembers.
LEMMA RequestsStep ==
    ASSUME IInv, RowsOK(db'), NEW w \in Workers, NEW q, req' = [req EXCEPT ![w] = q],
           ShapeOK(q), RolesOK(q, db')
    PROVE  /\ req' = [v \in Workers |-> req'[v]]
           /\ \A v \in Workers : ShapeOK(req'[v]) /\ RolesOK(req'[v], db')
<1>1. req' = [v \in Workers |-> req'[v]]
  BY DEF IInv
<1>2. req'[w] = q
  BY DEF IInv
<1>3. ASSUME NEW v \in Workers, v # w
      PROVE  ShapeOK(req'[v]) /\ RolesOK(req'[v], db')
  <2>1. req'[v] = req[v]  BY <1>3 DEF IInv
  <2>2. QED  BY <2>1, ReachStays DEF IInv
<1>4. QED  BY <1>1, <1>2, <1>3

LEMMA RequestsStay ==
    ASSUME IInv, RowsOK(db'), UNCHANGED req
    PROVE  /\ req' = [v \in Workers |-> req'[v]]
           /\ \A v \in Workers : ShapeOK(req'[v]) /\ RolesOK(req'[v], db')
BY ReachStays DEF IInv

\* A step that changes accounts notes the time at which a user lost a scope: every
\* scope of a token is still held, or lost since the token was issued.
LEMMA TokensStep ==
    ASSUME IInv, RowsOK(db'), lost' = LostSince(db'.user), UNCHANGED <<tokens, clock>>
    PROVE  lost' \in [Users -> [Scopes -> Int]] /\ \A t \in tokens' : TokenOK(t)'
<1>1. lost' \in [Users -> [Scopes -> Int]]
  BY DEF IInv, LostSince
<1>2. ASSUME NEW t \in tokens, t.db = "here", NEW s \in Scopes, s \in t.scope
      PROVE  s \in Held(t.sub)' \/ t.exp - Lifetime <= lost'[t.sub][s]
  <2> DEFINE u == t.sub
  <2>1. u \in Users /\ t.exp \in Int /\ t.exp <= clock + Lifetime
        /\ (s \in Held(u) \/ t.exp - Lifetime <= lost[u][s])
    BY <1>2 DEF IInv, TokenOK
  <2>2. lost'[u][s] = IF s \in Held(u)
                         /\ ~(db'.user[u].is_active /\ s \in get_user_scopes(db'.user[u].roles))
                      THEN clock ELSE lost[u][s]
    BY <2>1 DEF LostSince
  <2>3. clock \in Nat /\ Lifetime \in Nat
    BY BoundsAssumption DEF IInv
  <2>4. CASE s \in Held(u)
    <3>1. CASE db'.user[u].is_active /\ s \in get_user_scopes(db'.user[u].roles)
      BY <3>1 DEF Held
    <3>2. CASE ~(db'.user[u].is_active /\ s \in get_user_scopes(db'.user[u].roles))
      <4>1. lost'[u][s] = clock  BY <2>2, <2>4, <3>2
      <4>2. t.exp - Lifetime <= clock  BY <2>1, <2>3
      <4>3. QED  BY <4>1, <4>2
    <3>3. QED  BY <3>1, <3>2
  <2>5. CASE s \notin Held(u)
    BY <2>1, <2>2, <2>5
  <2>6. QED  BY <2>4, <2>5
<1>3. \A t \in tokens : TokenOK(t)'
  BY <1>2 DEF IInv, TokenOK
<1>4. QED  BY <1>1, <1>3

\* A token that is issued carries what its user holds, or belongs to another database.
LEMMA TokensIssued ==
    ASSUME IInv, NEW sub \in Users, NEW scope, NEW name, encode_access_token(sub, scope, name),
           name = "here" => scope \subseteq Held(sub), UNCHANGED <<db, clock, lost>>
    PROVE  \A t \in tokens' : TokenOK(t)'
<1> DEFINE new == [sub |-> sub, scope |-> scope, db |-> name, exp |-> clock + Lifetime]
<1>1. tokens' \subseteq tokens \cup {new}
  BY DEF encode_access_token
<1>2. TokenOK(new)
  BY BoundsAssumption DEF IInv, TokenOK
<1>3. \A t : TokenOK(t)' = TokenOK(t)
  BY DEF TokenOK, Held
<1> HIDE DEF new
<1>4. QED  BY <1>1, <1>2, <1>3 DEF IInv

----------------------------------------------------------------------------
(* The invariant.                                                          *)

LEMMA InitIInv ==
    ASSUME Init
    PROVE  IInv
<1>1. RowsOK(db)
  BY RowsAssumption DEF Init, RowsOK, Accounts
<1>2. lost \in [Users -> [Scopes -> Int]]
  BY BoundsAssumption DEF Init
<1>3. QED
  BY <1>1, <1>2 DEF Init, IInv, NoRequest, ShapeOK, RolesOK

LEMMA NextIInv ==
    ASSUME IInv, [Next]_vars
    PROVE  IInv'
<1>1. ASSUME NEW u \in Users, Issue(u) \/ IssueElsewhere(u)
      PROVE  IInv'
  <2>1. UNCHANGED <<db, clock, lost, req>>
    BY <1>1 DEF Issue, IssueElsewhere
  <2>2. \A t \in tokens' : TokenOK(t)'
    <3>1. CASE Issue(u)
      <4>1. get_user_scopes(db.user[u].roles) \subseteq Held(u)
        BY <3>1 DEF Issue, Held
      <4>2. encode_access_token(u, get_user_scopes(db.user[u].roles), "here")
        BY <3>1 DEF Issue
      <4>3. QED  BY <2>1, <4>1, <4>2, TokensIssued
    <3>2. CASE IssueElsewhere(u)
      <4>1. encode_access_token(u, Scopes, "elsewhere")
        BY <3>2 DEF IssueElsewhere
      <4>2. QED  BY <2>1, <4>1, TokensIssued
    <3>3. QED  BY <1>1, <3>1, <3>2
  <2>3. QED  BY <2>1, <2>2 DEF IInv
<1>2. ASSUME NEW u \in Users, SetActive(u)
      PROVE  IInv'
  <2> DEFINE account == [is_active |-> ~db.user[u].is_active, roles |-> db.user[u].roles]
  <2>1. account \in [is_active : BOOLEAN, roles : {r \in SUBSET Roles : OnePerCategory(r)}]
    BY DEF IInv, RowsOK, Accounts
  <2>2. db' = [user |-> [db.user EXCEPT ![u] = account],
               budget |-> db.budget, position |-> db.position]
    BY <1>2 DEF SetActive, IInv, RowsOK
  <2> HIDE DEF account
  <2>3. RowsOK(db')
    BY <2>1, <2>2 DEF IInv, RowsOK, Accounts
  <2>4. lost' = LostSince(db'.user) /\ UNCHANGED <<tokens, clock, req>>
    BY <1>2 DEF SetActive
  <2>5. QED  BY <2>3, <2>4, TokensStep, RequestsStay DEF IInv
<1>3. ASSUME NEW k \in Keys, RevokeKey(k)
      PROVE  IInv'
  BY <1>3 DEF RevokeKey, IInv, TokenOK, Held
<1>4. ASSUME NEW w \in Workers, NEW principal \in Principals, NEW op \in Ops,
             Start(w, principal, op)
      PROVE  IInv'
  <2> DEFINE q == [pc |-> "roles", user |-> principal.user, op |-> op]
  <2>1. req' = [req EXCEPT ![w] = q] /\ UNCHANGED <<db, tokens, clock, lost>>
    BY <1>4 DEF Start
  <2>2. ShapeOK(q) /\ RolesOK(q, db')
    BY DEF ShapeOK, RolesOK
  <2> HIDE DEF q
  <2>3. RowsOK(db')  BY <2>1 DEF IInv
  <2>4. \A t : TokenOK(t)' = TokenOK(t)  BY <2>1 DEF TokenOK, Held
  <2>5. QED  BY <2>1, <2>2, <2>3, <2>4, RequestsStep DEF IInv
<1>5. ASSUME NEW w \in Workers, get_access_roles(w)
      PROVE  IInv'
  <2> DEFINE r == req[w]
             q == [pc |-> IF r.op.do \in {"create", "update", "roles"} THEN "resolve" ELSE "read",
                   user |-> r.user, op |-> r.op,
                   roles |-> IF r.user = NoUser THEN {} ELSE db.user[r.user].roles]
  <2>1. req' = [req EXCEPT ![w] = q] /\ UNCHANGED <<db, tokens, clock, lost>>
    BY <1>5 DEF get_access_roles
  <2>2. r.op \in Ops
    BY <1>5 DEF get_access_roles, IInv, ShapeOK
  <2>3. ShapeOK(q) /\ RolesOK(q, db')
    BY <2>2 DEF ShapeOK, RolesOK
  <2> HIDE DEF q
  <2>4. RowsOK(db')  BY <2>1 DEF IInv
  <2>5. \A t : TokenOK(t)' = TokenOK(t)  BY <2>1 DEF TokenOK, Held
  <2>6. QED  BY <2>1, <2>3, <2>4, <2>5, RequestsStep DEF IInv
<1>6. ASSUME NEW w \in Workers, Resolve(w)
      PROVE  IInv'
  <2> DEFINE r == req[w]
             created == [pc |-> "write", user |-> r.user, op |-> r.op, roles |-> r.roles,
                         pks |-> {}, existing |-> {}]
             q == IF ~to_internal_values(db, Env(r), r.op) THEN NoRequest
                  ELSE IF r.op.do = "create" THEN created ELSE [r EXCEPT !.pc = "read"]
  <2>1. req' = [req EXCEPT ![w] = q] /\ UNCHANGED <<db, tokens, clock, lost>>
    BY <1>6 DEF Resolve
  <2>2. r.op \in Ops /\ r = [pc |-> "resolve", user |-> r.user, op |-> r.op, roles |-> r.roles]
    BY <1>6 DEF Resolve, IInv, ShapeOK
  <2>3. ShapeOK(NoRequest) /\ RolesOK(NoRequest, db')
    BY DEF ShapeOK, RolesOK, NoRequest
  <2>4. r.op.do = "create" => ShapeOK(created) /\ RolesOK(created, db')
    BY <2>2 DEF ShapeOK, RolesOK
  <2>5. ASSUME to_internal_values(db, Env(r), r.op)
        PROVE  ShapeOK([r EXCEPT !.pc = "read"]) /\ RolesOK([r EXCEPT !.pc = "read"], db')
    <3>1. r.op.do = "roles" => r.op.roles \subseteq Roles
      BY <2>5 DEF to_internal_values
    <3>2. [r EXCEPT !.pc = "read"] = [pc |-> "read", user |-> r.user, op |-> r.op, roles |-> r.roles]
      BY <2>2
    <3>3. QED  BY <2>2, <3>1, <3>2 DEF ShapeOK, RolesOK
  <2>6. ShapeOK(q) /\ RolesOK(q, db')
    BY <2>3, <2>4, <2>5
  <2> HIDE DEF q
  <2>7. RowsOK(db')  BY <2>1 DEF IInv
  <2>8. \A t : TokenOK(t)' = TokenOK(t)  BY <2>1 DEF TokenOK, Held
  <2>9. QED  BY <2>1, <2>6, <2>7, <2>8, RequestsStep DEF IInv
<1>7. ASSUME NEW w \in Workers, Read(w)
      PROVE  IInv'
  <2> DEFINE r == req[w]
             pks == Selected(db, Env(r), r.op)
             reading == [pc |-> "write", user |-> r.user, op |-> r.op, roles |-> r.roles,
                         pks |-> pks,
                         existing |-> IF r.op.do = "roles" THEN db.user[r.op.pk].roles ELSE {}]
             q == IF NothingToWrite(r.op, pks) # "no" THEN NoRequest ELSE reading
  <2>1. req' = [req EXCEPT ![w] = q] /\ UNCHANGED <<db, tokens, clock, lost>>
    BY <1>7 DEF Read
  <2>2. r.op \in Ops /\ r.pc = "read" /\ RolesOK(r, db)
    BY <1>7 DEF Read, IInv, ShapeOK
  <2>3. ShapeOK(NoRequest) /\ RolesOK(NoRequest, db')
    BY DEF ShapeOK, RolesOK, NoRequest
  <2>4. ASSUME NothingToWrite(r.op, pks) = "no"
        PROVE  ShapeOK(reading) /\ RolesOK(reading, db')
    <3>1. r.op.do = "roles" => r.op.pk \in apply_access_rules(db, Env(r), "user", "update")
      <4>1. SUFFICES ASSUME r.op.do = "roles"
                     PROVE  r.op.pk \in apply_access_rules(db, Env(r), "user", "update")
        OBVIOUS
      <4>2. pks # {}  BY <2>4, <4>1 DEF NothingToWrite
      <4>3. pks = apply_access_rules(db, Env(r), "user", "update") \cap {r.op.pk}
        BY <4>1 DEF Selected
      <4>4. QED  BY <4>2, <4>3
    <3>2. Env(reading) = Env(r) /\ reading.op = r.op /\ reading.pc = "write"
      BY DEF Env
    <3> HIDE DEF reading
    <3>3. QED  BY <2>1, <2>2, <3>1, <3>2 DEF ShapeOK, RolesOK
  <2>5. ShapeOK(q) /\ RolesOK(q, db')
    BY <2>3, <2>4
  <2> HIDE DEF q
  <2>6. RowsOK(db')  BY <2>1 DEF IInv
  <2>7. \A t : TokenOK(t)' = TokenOK(t)  BY <2>1 DEF TokenOK, Held
  <2>8. QED  BY <2>1, <2>5, <2>6, <2>7, RequestsStep DEF IInv
<1>8. ASSUME NEW w \in Workers, Write(w)
      PROVE  IInv'
  <2>1. PICK key : db' = Written(db, Env(req[w]), req[w].op, req[w].pks, req[w].existing, key).db
    BY <1>8 DEF Write
  <2>2. /\ lost' = LostSince(db'.user) /\ req' = [req EXCEPT ![w] = NoRequest]
        /\ UNCHANGED <<tokens, clock>>
    BY <1>8 DEF Write
  <2>3. /\ req[w].op \in Ops /\ RowsOK(db)
        /\ req[w].op.do = "roles"
             => /\ req[w].op.roles \subseteq Roles
                /\ req[w].op.pk \in apply_access_rules(db, Env(req[w]), "user", "update")
    BY <1>8 DEF Write, IInv, ShapeOK, RolesOK
  <2>4. apply_access_rules(db, Env(req[w]), "user", "update") \subseteq Users
    BY <2>3, ReachExists DEF get_queryset, RowsOK, Accounts
  <2>5. RowsOK(db')
    BY <2>1, <2>3, <2>4, WrittenRows
  <2>6. ShapeOK(NoRequest) /\ RolesOK(NoRequest, db')
    BY DEF ShapeOK, RolesOK, NoRequest
  <2>7. QED  BY <2>2, <2>5, <2>6, TokensStep, RequestsStep DEF IInv
<1>9. ASSUME Tick
      PROVE  IInv'
  <2>1. /\ clock' = clock + 1 /\ tokens' \subseteq tokens
        /\ UNCHANGED <<db, lost, req>>
    BY <1>9 DEF Tick
  <2>2. \A t \in tokens : TokenOK(t)'
    BY <2>1, BoundsAssumption DEF IInv, TokenOK, Held
  <2>3. QED  BY <2>1, <2>2 DEF IInv
<1>10. ASSUME UNCHANGED vars
       PROVE  IInv'
  BY <1>10 DEF vars, IInv, TokenOK, Held
<1>11. QED
  BY <1>1, <1>2, <1>3, <1>4, <1>5, <1>6, <1>7, <1>8, <1>9, <1>10 DEF Next

LEMMA Invariance == Spec => []IInv
<1>1. Init => IInv  BY InitIInv
<1>2. IInv /\ [Next]_vars => IInv'  BY NextIInv
<1>3. QED  BY <1>1, <1>2, PTL DEF Spec

----------------------------------------------------------------------------
(* The theorems.                                                           *)

\* Whatever requests and acts of the admin interleave, the accounts stay the same
\* ones and each keeps at most one role of a category, though relations are resolved
\* and read long before the statement that writes the through table.
THEOREM OneRolePerCategory == Spec => [](db.user \in Accounts)
<1>1. IInv => db.user \in Accounts  BY DEF IInv, RowsOK
<1>2. QED  BY <1>1, Invariance, PTL

\* A worker only takes a request up by the scope check of Start: the other steps
\* leave it idle or bring it further.
LEMMA OnlyStartTakesUp ==
    ASSUME IInv, [Next]_vars, NEW w \in Workers, req[w].pc = "idle", req'[w].pc = "roles"
    PROVE  \E principal \in Principals, op \in Ops : Start(w, principal, op)
<1>1. req' # req  OBVIOUS
<1>2. ASSUME NEW v \in Workers, get_access_roles(v) \/ Resolve(v) \/ Read(v) \/ Write(v)
      PROVE  FALSE
  <2>1. v # w  BY <1>2 DEF get_access_roles, Resolve, Read, Write
  <2>2. \E q : req' = [req EXCEPT ![v] = q]
    BY <1>2 DEF get_access_roles, Resolve, Read, Write
  <2>3. QED  BY <2>1, <2>2
<1>3. ASSUME NEW v \in Workers, NEW principal \in Principals, NEW op \in Ops,
             Start(v, principal, op), v # w
      PROVE  FALSE
  BY <1>3 DEF Start
<1>4. PICK v \in Workers : \E principal \in Principals, op \in Ops : Start(v, principal, op)
  BY <1>1, <1>2 DEF Next, vars, Issue, IssueElsewhere, SetActive, RevokeKey, Tick
<1>5. QED  BY <1>3, <1>4

LEMMA StepRightsAreRecent ==
    ASSUME IInv, [Next]_vars, NEW w \in Workers,
           req[w].pc = "idle", req'[w].pc = "roles", req'[w].user # NoUser
    PROVE  LET u == req'[w].user
           IN  /\ db.user[u].is_active
               /\ \A s \in permission_map(req'[w].op) :
                    s \in Held(u) \/ clock - lost[u][s] < Lifetime
<1>1. PICK principal \in Principals, op \in Ops : Start(w, principal, op)
  BY OnlyStartTakesUp
<1>2. /\ req'[w] = [pc |-> "roles", user |-> principal.user, op |-> op]
      /\ permission_map(op) \subseteq principal.scopes
  BY <1>1 DEF Start, has_scopes, IInv
<1>3. PICK t \in tokens : /\ decode_access_token(t) /\ db.user[t.sub].is_active
                          /\ principal = [user |-> t.sub, scopes |-> t.scope]
  BY <1>2 DEF Principals
<1>4. /\ clock < t.exp /\ t.exp \in Int /\ t.sub \in Users
      /\ \A s \in Scopes : s \in t.scope =>
           s \in Held(t.sub) \/ t.exp - Lifetime <= lost[t.sub][s]
  BY <1>3 DEF decode_access_token, Valid, IInv, TokenOK
<1>5. permission_map(op) \subseteq Scopes
  BY OpsAssumption DEF permission_map, Scopes, Operations
<1>6. ASSUME NEW s \in permission_map(op)
      PROVE  s \in Held(t.sub) \/ clock - lost[t.sub][s] < Lifetime
  <2>1. s \in Scopes /\ s \in t.scope
    BY <1>2, <1>3, <1>5
  <2>2. clock \in Int /\ Lifetime \in Int /\ lost[t.sub][s] \in Int
    BY <1>4, <2>1, BoundsAssumption DEF IInv
  <2>3. t.exp - Lifetime <= lost[t.sub][s] => clock - lost[t.sub][s] < Lifetime
    BY <1>4, <2>2
  <2>4. QED  BY <1>4, <2>1, <2>3
<1>7. QED  BY <1>2, <1>3, <1>6

\* A request that the scope check of the controllers lets through acts for an active
\* user of this database who has the scope, or had it less than one token lifetime
\* ago: tokens of another database, of users deactivated since, and scopes frozen in
\* a token long before are all accounted for.
THEOREM RightsStayRecent == Spec => RightsAreRecent
<1>1. IInv /\ [Next]_vars =>
        \A w \in Workers :
          req[w].pc = "idle" /\ req'[w].pc = "roles" /\ req'[w].user # NoUser =>
            LET u == req'[w].user
            IN  /\ db.user[u].is_active
                /\ \A s \in permission_map(req'[w].op) :
                     s \in Held(u) \/ clock - lost[u][s] < Lifetime
  BY StepRightsAreRecent
<1>2. QED  BY <1>1, Invariance, PTL DEF Spec, RightsAreRecent

\* A worker that wrote something is the one whose Write the step is.
LEMMA OnlyWriteEnds ==
    ASSUME IInv, [Next]_vars, NEW w \in Workers, req[w].pc = "write", req'[w].pc = "idle"
    PROVE  Write(w)
<1>1. req' # req  OBVIOUS
<1>2. ASSUME NEW v \in Workers,
             \/ get_access_roles(v) \/ Resolve(v) \/ Read(v)
             \/ \E principal \in Principals, op \in Ops : Start(v, principal, op)
      PROVE  FALSE
  <2>1. v # w  BY <1>2 DEF get_access_roles, Resolve, Read, Start
  <2>2. \E q : req' = [req EXCEPT ![v] = q]
    BY <1>2 DEF get_access_roles, Resolve, Read, Start
  <2>3. QED  BY <2>1, <2>2
<1>3. ASSUME NEW v \in Workers, Write(v), v # w
      PROVE  FALSE
  BY <1>3 DEF Write
<1>4. PICK v \in Workers : Write(v)
  BY <1>1, <1>2 DEF Next, vars, Issue, IssueElsewhere, SetActive, RevokeKey, Tick
<1>5. QED  BY <1>3, <1>4

\* What differs between two states of the tables is in reach.
ChangesInReach(d, e, env) ==
    /\ \A b \in DOMAIN d.budget \cap DOMAIN e.budget :
         e.budget[b] # d.budget[b] => b \in apply_access_rules(d, env, "budget", "update")
    /\ \A p \in DOMAIN d.position \cap DOMAIN e.position :
         e.position[p] # d.position[p] => p \in apply_access_rules(d, env, "position", "update")
    /\ \A u \in Users :
         e.user[u] # d.user[u] => u \in apply_access_rules(d, env, "user", "update")

\* What a statement that writes changes in each table is in reach at that moment.
LEMMA WrittenInReach ==
    ASSUME NEW d, RowsOK(d), NEW env, NEW op \in Ops, op.do # "create",
           op.do = "roles" => op.pk \in apply_access_rules(d, env, "user", "update"),
           NEW pks, NEW existing, NEW key
    PROVE  ChangesInReach(d, Written(d, env, op, pks, existing, key).db, env)
<1> DEFINE e == Written(d, env, op, pks, existing, key).db
<1> SUFFICES ChangesInReach(d, e, env)
  OBVIOUS
<1>1. op.do \in {"update", "delete", "roles", "resequence"}
  BY OpsAssumption
<1>2. CASE op.do = "update"
  <2>1. e = _update_atomic(d, env, op, pks)  BY <1>2 DEF Written
  <2>2. UpdatedRows(d, env, op, pks) \subseteq apply_access_rules(d, env, "budget", "update")
    BY <1>2 DEF UpdatedRows, Selected
  <2>3. e.user = d.user /\ e.position = d.position
    BY <2>1 DEF RowsOK, _update_atomic
  <2>4. \A b \in DOMAIN d.budget : b \notin UpdatedRows(d, env, op, pks) => e.budget[b] = d.budget[b]
    BY <2>1 DEF RowsOK, _update_atomic
  <2> HIDE DEF e
  <2>5. QED  BY <2>2, <2>3, <2>4 DEF ChangesInReach
<1>3. CASE op.do = "delete"
  <2>1. e = _delete_atomic(d, pks)  BY <1>3 DEF Written
  <2>2. e.user = d.user  BY <2>1 DEF RowsOK, _delete_atomic
  <2>3. \A b \in DOMAIN e.budget : e.budget[b] = d.budget[b]
    BY <2>1 DEF RowsOK, _delete_atomic
  <2>4. \A p \in DOMAIN e.position : e.position[p] = d.position[p]
    BY <2>1 DEF RowsOK, _delete_atomic
  <2> HIDE DEF e
  <2>5. QED  BY <2>2, <2>3, <2>4 DEF ChangesInReach
<1>4. CASE op.do = "resequence"
  <2>1. e = _resequence(d, env, op)  BY <1>4 DEF Written
  <2>2. Selected(d, env, op) \subseteq apply_access_rules(d, env, "position", "update")
    BY <1>4 DEF Selected
  <2>3. e.user = d.user /\ e.budget = d.budget
    BY <2>1 DEF RowsOK, _resequence
  <2>4. \A p \in DOMAIN d.position : p \notin Selected(d, env, op) => e.position[p] = d.position[p]
    BY <2>1 DEF RowsOK, _resequence
  <2> HIDE DEF e
  <2>5. QED  BY <2>2, <2>3, <2>4 DEF ChangesInReach
<1>5. CASE op.do = "roles"
  <2>1. e = _update_many_to_many(d, op, existing).db  BY <1>5 DEF Written
  <2>2. \/ e = d
        \/ \E account : e = [d EXCEPT !.user[op.pk] = account]
    BY <2>1 DEF _update_many_to_many
  <2>3. /\ e.budget = d.budget /\ e.position = d.position
        /\ e.user = d.user \/ \E account : e.user = [d.user EXCEPT ![op.pk] = account]
    BY <2>2 DEF RowsOK
  <2>4. \A u \in Users : u # op.pk => e.user[u] = d.user[u]
    BY <2>3 DEF RowsOK, Accounts
  <2> HIDE DEF e
  <2>5. QED  BY <1>5, <2>3, <2>4 DEF ChangesInReach
<1>6. QED  BY <1>1, <1>2, <1>3, <1>4, <1>5

LEMMA StepUpdatesStayInReach ==
    ASSUME IInv, [Next]_vars, NEW w \in Workers,
           req[w].pc = "write", req'[w].pc = "idle", req[w].op.do # "create"
    PROVE  ChangesInReach(db, db', Env(req[w]))
<1>1. Write(w)
  BY OnlyWriteEnds
<1>2. PICK key : db' = Written(db, Env(req[w]), req[w].op, req[w].pks, req[w].existing, key).db
  BY <1>1 DEF Write
<1>3. /\ RowsOK(db) /\ req[w].op \in Ops
      /\ req[w].op.do = "roles"
           => req[w].op.pk \in apply_access_rules(db, Env(req[w]), "user", "update")
  BY DEF IInv, ShapeOK, RolesOK
<1>4. QED  BY <1>2, <1>3, WrittenInReach

\* Between the statement that selects the rows of an update, a numbering or a change
\* of roles and the one that writes them, other requests give budgets away and change
\* who is what: what is written is in reach of the user that asked, as the rows are
\* at that moment.
THEOREM UpdatesKeepToTheReach == Spec => UpdatesStayInReach
<1>1. IInv /\ [Next]_vars =>
        \A w \in Workers :
          LET r == req[w]
          IN  r.pc = "write" /\ req'[w].pc = "idle" /\ r.op.do # "create" =>
                /\ \A b \in DOMAIN db.budget \cap DOMAIN db'.budget :
                     db'.budget[b] # db.budget[b]
                       => b \in apply_access_rules(db, Env(r), "budget", "update")
                /\ \A p \in DOMAIN db.position \cap DOMAIN db'.position :
                     db'.position[p] # db.position[p]
                       => p \in apply_access_rules(db, Env(r), "position", "update")
                /\ \A u \in Users :
                     db'.user[u] # db.user[u]
                       => u \in apply_access_rules(db, Env(r), "user", "update")
  BY StepUpdatesStayInReach DEF ChangesInReach
<1>2. QED  BY <1>1, Invariance, PTL DEF Spec, UpdatesStayInReach

----------------------------------------------------------------------------
(* What the rows decide.                                                   *)

\* The roles of an environment are roles, and its user is an account or nobody.
LEMMA EnvsOK ==
    ASSUME IInv, NEW env \in Envs
    PROVE  /\ env.roles \subseteq Roles
           /\ env.user # NoUser => env.user \in DOMAIN db.user
BY DEF Envs, IInv, RowsOK, Accounts

\* Whoever owns a row reaches it, whatever its roles.
LEMMA OwnersReach ==
    ASSUME NEW env, NEW model, NEW operation
    PROVE  Permits(env, model, operation, env.user)
BY DEF Permits

\* Nobody, a machine, has no rule that would keep it from a row.
LEMMA MachinesReach ==
    ASSUME NEW env, env.roles = {}, NEW model, NEW operation, NEW owner
    PROVE  Permits(env, model, operation, owner)
BY DEF Permits

\* A creation that leaves the user out is accepted, in the name of the acting user,
\* who reads itself and so sees the default it gets.
THEOREM DefaultsAreAnnounced == Spec => []AnnouncedDefaultsHold
<1>1. ASSUME IInv, NEW env \in Envs
      PROVE  LET answer == Answer(db, env, [do |-> "create", user |-> Unset], NewBudget)
             IN  /\ answer.status = "created"
                 /\ answer.db.budget[NewBudget].user = default_values(db, env)
  <2> DEFINE op == [do |-> "create", user |-> Unset]
             i == Inserted(db, NewBudget, [user |-> env.user])
             answer == Answer(db, env, op, NewBudget)
  <2>1. InputUser(env, op) = env.user
    BY DEF InputUser, _default_values
  <2>2. env.user # NoUser => env.user \in browse(db, env, "user", {env.user})
    <3>1. SUFFICES ASSUME env.user # NoUser
                   PROVE  env.user \in apply_access_rules(db, env, "user", "read")
      BY DEF browse
    <3>2. OwnerOf(db, "user", env.user) = env.user  BY DEF OwnerOf
    <3>3. env.user \in get_queryset(db, "user")  BY <1>1, <3>1, EnvsOK DEF get_queryset
    <3>4. QED  BY <3>2, <3>3, ReachByOwner, OwnersReach
  <2>3. to_internal_values(db, env, op)
    BY <2>1, <2>2 DEF to_internal_values, _resolve_relation
  <2>4. /\ NewBudget \in get_queryset(i, "budget")
        /\ i.budget[NewBudget] = [user |-> env.user]
    BY <1>1 DEF IInv, RowsOK, Inserted, get_queryset
  <2>5. NewBudget \in apply_access_rules(i, env, "budget", "create")
    <3>1. OwnerOf(i, "budget", NewBudget) = env.user
      BY <2>4 DEF OwnerOf
    <3>2. QED  BY <2>4, <3>1, ReachByOwner, OwnersReach
  <2>6. answer = Written(db, env, op, Selected(db, env, op), {}, NewBudget)
    BY <2>3 DEF Answer, Repeated
  <2>7. Written(db, env, op, Selected(db, env, op), {}, NewBudget) = _create_atomic(db, env, op, NewBudget)
    BY DEF Written
  <2>8. _create_atomic(db, env, op, NewBudget) = [status |-> "created", db |-> i]
    BY <2>1, <2>5 DEF _create_atomic, Inserted
  <2>9. default_values(db, env) = env.user
    BY <2>2 DEF default_values, _default_values
  <2> HIDE DEF i
  <2>10. QED  BY <2>4, <2>6, <2>7, <2>8, <2>9
<1>2. IInv => AnnouncedDefaultsHold
  BY <1>1 DEF AnnouncedDefaultsHold
<1>3. QED  BY <1>2, Invariance, PTL

\* The tables as an environment sees them: what it reaches in them is what it reaches
\* in the tables themselves, and each of the rows is the same row.
LEMMA VisibleReach ==
    ASSUME IInv, NEW env \in Envs, NEW v, v = Visible(env)
    PROVE  /\ \A o \in {"read", "update"} :
                apply_access_rules(v, env, "user", o) = apply_access_rules(db, env, "user", o)
           /\ \A model \in {"budget", "position"}, o \in Operations :
                apply_access_rules(v, env, model, o) = apply_access_rules(db, env, model, o)
           /\ \A u \in apply_access_rules(db, env, "user", "read") : v.user[u] = db.user[u]
           /\ \A p \in apply_access_rules(db, env, "position", "read") : v.position[p] = db.position[p]
<1> DEFINE R(model) == apply_access_rules(db, env, model, "read")
<1>1. env.roles \subseteq Roles
  BY EnvsOK
<1>2. v = [user |-> [u \in R("user") |-> db.user[u]],
           budget |-> [b \in R("budget") |-> db.budget[b]],
           position |-> [p \in R("position") |-> db.position[p]]]
  BY DEF Visible
<1>3. /\ get_queryset(v, "user") = R("user") /\ get_queryset(v, "budget") = R("budget")
      /\ get_queryset(v, "position") = R("position")
  BY <1>2 DEF get_queryset
<1>4. \A b \in R("budget") : v.budget[b] = db.budget[b]
  BY <1>2
<1>5. \A p \in R("position") : v.position[p] = db.position[p]
  BY <1>2
<1>6. \A u \in R("user") : v.user[u] = db.user[u]
  BY <1>2
<1> HIDE DEF R
<1>7. \A p \in R("position") : db.position[p].budget \in R("budget")
  <2> SUFFICES ASSUME NEW p \in R("position")
               PROVE  db.position[p].budget \in R("budget")
    OBVIOUS
  <2> DEFINE b == db.position[p].budget
  <2>1. /\ p \in get_queryset(db, "position")
        /\ Permits(env, "position", "read", OwnerOf(db, "position", p))
    BY ReachByOwner DEF R
  <2>2. b \in get_queryset(db, "budget")
    BY <2>1 DEF IInv, RowsOK, get_queryset
  <2>3. OwnerOf(db, "position", p) = OwnerOf(db, "budget", b)
    BY DEF OwnerOf
  <2>4. Permits(env, "budget", "read", OwnerOf(db, "budget", b))
    BY <1>1, <2>1, <2>3, SameReach DEF Operations
  <2>5. QED  BY <2>2, <2>4, ReachByOwner DEF R
<1>8. /\ \A u \in R("user") : OwnerOf(v, "user", u) = OwnerOf(db, "user", u)
      /\ \A b \in R("budget") : OwnerOf(v, "budget", b) = OwnerOf(db, "budget", b)
      /\ \A p \in R("position") : OwnerOf(v, "position", p) = OwnerOf(db, "position", p)
  BY <1>4, <1>5, <1>7 DEF OwnerOf
<1>9. ASSUME NEW o \in {"read", "update"}
      PROVE  apply_access_rules(v, env, "user", o) = apply_access_rules(db, env, "user", o)
  <2>1. \A owner : Permits(env, "user", o, owner) <=> Permits(env, "user", "read", owner)
    BY <1>1, SameReach
  <2>2. \A u : u \in apply_access_rules(v, env, "user", o) <=> u \in R("user")
    BY <1>3, <1>8, <2>1, ReachByOwner DEF R
  <2>3. \A u : u \in apply_access_rules(db, env, "user", o) <=> u \in R("user")
    BY <2>1, ReachByOwner DEF R
  <2>4. QED  BY <2>2, <2>3, ReachExists
<1>10. ASSUME NEW o \in Operations
       PROVE  apply_access_rules(v, env, "budget", o) = apply_access_rules(db, env, "budget", o)
  <2>1. \A owner : Permits(env, "budget", o, owner) <=> Permits(env, "budget", "read", owner)
    BY <1>1, SameReach
  <2>2. \A b : b \in apply_access_rules(v, env, "budget", o) <=> b \in R("budget")
    BY <1>3, <1>8, <2>1, ReachByOwner DEF R
  <2>3. \A b : b \in apply_access_rules(db, env, "budget", o) <=> b \in R("budget")
    BY <2>1, ReachByOwner DEF R
  <2>4. QED  BY <2>2, <2>3, ReachExists
<1>11. ASSUME NEW o \in Operations
       PROVE  apply_access_rules(v, env, "position", o) = apply_access_rules(db, env, "position", o)
  <2>1. \A owner : Permits(env, "position", o, owner) <=> Permits(env, "position", "read", owner)
    BY <1>1, SameReach DEF Operations
  <2>2. \A p : p \in apply_access_rules(v, env, "position", o) <=> p \in R("position")
    BY <1>3, <1>8, <2>1, ReachByOwner DEF R
  <2>3. \A p : p \in apply_access_rules(db, env, "position", o) <=> p \in R("position")
    BY <2>1, ReachByOwner DEF R
  <2>4. QED  BY <2>2, <2>3, ReachExists
<1>12. QED  BY <1>5, <1>6, <1>9, <1>10, <1>11 DEF R

\* Rows out of reach look as if they were not there: every request, whatever its
\* user, its roles and the relations and ids it names, is answered as it would be
\* answered over the tables as its user sees them.
THEOREM HiddenStaysUnknown == Spec => []HiddenLooksUnknown
<1>1. ASSUME IInv, NEW env \in Envs, NEW op \in Ops
      PROVE  Answer(db, env, op, NewBudget).status = Answer(Visible(env), env, op, NewBudget).status
  <2> DEFINE v == Visible(env)
             key == NewBudget
             pks == Selected(db, env, op)
             early == IF op.do = "create" THEN "no" ELSE NothingToWrite(op, pks)
             existing(d) == IF op.do = "roles" THEN d.user[op.pk].roles ELSE {}
             W(d) == Written(d, env, op, pks, existing(d), key)
  <2>1. /\ \A o \in {"read", "update"} :
             apply_access_rules(v, env, "user", o) = apply_access_rules(db, env, "user", o)
        /\ \A model \in {"budget", "position"}, o \in Operations :
             apply_access_rules(v, env, model, o) = apply_access_rules(db, env, model, o)
        /\ \A u \in apply_access_rules(db, env, "user", "read") : v.user[u] = db.user[u]
        /\ \A p \in apply_access_rules(db, env, "position", "read") : v.position[p] = db.position[p]
    BY <1>1, VisibleReach
  <2>2. op.do \in {"create", "update", "delete", "roles", "resequence"}
    BY OpsAssumption
  <2>3. env.roles \subseteq Roles
    BY <1>1, EnvsOK
  <2> HIDE DEF v, key
  <2>4. to_internal_values(v, env, op) <=> to_internal_values(db, env, op)
    BY <2>1 DEF to_internal_values, _resolve_relation, browse
  <2>5. \A p \in apply_access_rules(db, env, "position", "update") : v.position[p] = db.position[p]
    <3>1. \A owner : Permits(env, "position", "update", owner) => Permits(env, "position", "read", owner)
      BY <2>3, SameReach DEF Operations
    <3>2. QED  BY <2>1, <3>1, ReachByOwner
  <2>6. Selected(v, env, op) = pks
    BY <2>1, <2>2, <2>5 DEF Selected, Operations
  <2>7. \A d : Answer(d, env, op, key).status
               = IF Repeated(op) \/ ~to_internal_values(d, env, op) THEN "invalid"
                 ELSE LET first == IF op.do = "create" THEN "no"
                                   ELSE NothingToWrite(op, Selected(d, env, op))
                      IN  IF first # "no" THEN first
                          ELSE Written(d, env, op, Selected(d, env, op), existing(d), key).status
    BY DEF Answer
  <2>8. early = "no" => W(v).status = W(db).status
    <3>1. SUFFICES ASSUME early = "no"
                   PROVE  W(v).status = W(db).status
      OBVIOUS
    <3>2. CASE op.do = "create"
      <4> DEFINE row == [user |-> InputUser(env, op)]
                 may(d) == key \in apply_access_rules(Inserted(d, key, row), env, "budget", "create")
      <4>1. \A d : RowsOK(d) \/ d = v =>
                     (may(d) <=> Permits(env, "budget", "create", InputUser(env, op)))
        <5> SUFFICES ASSUME NEW d, RowsOK(d) \/ d = v
                     PROVE  may(d) <=> Permits(env, "budget", "create", InputUser(env, op))
          OBVIOUS
        <5>1. d = [user |-> d.user, budget |-> d.budget, position |-> d.position]
          BY DEF RowsOK, v, Visible
        <5>2. /\ key \in get_queryset(Inserted(d, key, row), "budget")
              /\ Inserted(d, key, row).budget[key] = row
          BY <5>1 DEF Inserted, get_queryset
        <5>3. OwnerOf(Inserted(d, key, row), "budget", key) = InputUser(env, op)
          BY <5>2 DEF OwnerOf
        <5> HIDE DEF row
        <5>4. QED  BY <5>2, <5>3, ReachByOwner
      <4>2. \A d : W(d).status = IF may(d) THEN "created" ELSE "denied"
        BY <3>2 DEF Written, _create_atomic, Inserted
      <4>3. QED  BY <1>1, <4>1, <4>2 DEF IInv
    <3>3. CASE op.do \in {"update", "delete", "resequence"}
      BY <3>3 DEF Written
    <3>4. CASE op.do = "roles"
      <4>1. pks # {}
        BY <3>1, <3>4 DEF NothingToWrite
      <4>2. op.pk \in apply_access_rules(db, env, "user", "update")
        BY <3>4, <4>1 DEF Selected
      <4>3. op.pk \in apply_access_rules(db, env, "user", "read")
        BY <2>3, <4>2, SameReach, ReachByOwner
      <4>4. v.user[op.pk] = db.user[op.pk]
        BY <2>1, <4>3
      <4>5. \A d : W(d) = _update_many_to_many(d, op, d.user[op.pk].roles)
        BY <3>4 DEF Written
      <4> DEFINE kept(held) == held \ (held \ op.roles)
                 added(held) == op.roles \ held
                 fits(held) == /\ kept(held) \cap added(held) = {}
                               /\ OnePerCategory(kept(held) \cup added(held))
      <4>6. ASSUME NEW d
            PROVE  W(d).status = IF fits(d.user[op.pk].roles) THEN "ok" ELSE "invalid"
        <5> DEFINE held == d.user[op.pk].roles
        <5>4. W(d) = _update_many_to_many(d, op, held)
          BY <4>5
        <5> HIDE DEF W
        <5>1. CASE fits(held)
          <6>1. W(d).status = "ok"
            BY <5>1, <5>4 DEF _update_many_to_many
          <6>2. QED  BY <5>1, <6>1
        <5>2. CASE ~fits(held)
          <6>1. W(d).status = "invalid"
            BY <5>2, <5>4 DEF _update_many_to_many
          <6>2. QED  BY <5>2, <6>1
        <5>3. QED  BY <5>1, <5>2
      <4> HIDE DEF W, fits
      <4>7. QED  BY <4>4, <4>6
    <3>5. QED  BY <2>2, <3>2, <3>3, <3>4
  <2> HIDE DEF pks
  <2>9. Answer(db, env, op, key).status = Answer(v, env, op, key).status
    BY <2>4, <2>6, <2>7, <2>8 DEF pks
  <2>10. QED  BY <2>9 DEF v, key
<1>2. IInv => HiddenLooksUnknown
  BY <1>1 DEF HiddenLooksUnknown
<1>3. QED  BY <1>2, Invariance, PTL

----------------------------------------------------------------------------
(* Lists and pages.                                                         *)

\* An enumeration of a finite set is a sequence of its length that has every element.
LEMMA Enumeration ==
    ASSUME NEW S, IsFiniteSet(S), NEW s \in SetToSeqs(S)
    PROVE  LET n == Cardinality(S)
           IN  /\ n \in Nat /\ s \in [1..n -> S] /\ Len(s) = n
               /\ \A i, j \in 1..n : s[i] = s[j] => i = j
               /\ \A x \in S : \E i \in 1..n : s[i] = x
<1> DEFINE n == Cardinality(S)
<1>1. n \in Nat
  BY FS_CardinalityType
<1>2. s \in [1..n -> S] /\ \A i, j \in 1..n : i # j => s[i] # s[j]
  BY DEF SetToSeqs
<1>3. s \in Injection(1..n, S)
  BY <1>2 DEF Injection, IsInjective
<1>4. Cardinality(1..n) = n
  <2>1. 1 \in Int /\ n \in Int  BY <1>1
  <2>2. Cardinality(1..n) = IF 1 > n THEN 0 ELSE n - 1 + 1
    BY <2>1, FS_Interval
  <2>3. QED  BY <1>1, <2>2
<1>5. s \in Surjection(1..n, S)
  BY <1>3, <1>4, FS_Injection
<1>6. \A x \in S : \E i \in 1..n : s[i] = x
  BY <1>5 DEF Surjection
<1>7. Len(s) = n
  BY <1>1, <1>2
<1>8. QED  BY <1>1, <1>2, <1>6, <1>7

\* Any set of naturals that is not empty has a least element.
LEMMA Least ==
    ASSUME NEW T, T \subseteq Nat, T # {}
    PROVE  \E n \in T : \A m \in T : n <= m
<1> DEFINE up(n) == {i \in Nat : i < n}
           U == {up(n) : n \in T}
<1>1. ASSUME NEW n \in Nat
      PROVE  IsFiniteSet(up(n)) /\ up(n) \subseteq Nat
  <2>1. up(n) = 0..(n - 1)  OBVIOUS
  <2>2. n - 1 \in Int /\ 0 \in Int  OBVIOUS
  <2>3. IsFiniteSet(0..(n - 1))  BY <2>2, FS_Interval
  <2>4. QED  BY <2>1, <2>3
<1>2. U \subseteq FiniteSubsetsOf(Nat) /\ U # {}
  BY <1>1 DEF FiniteSubsetsOf
<1>3. PICK X \in U : \A Y \in U : ~(<<Y, X>> \in StrictSubsetOrdering(Nat))
  <2>1. IsWellFoundedOn(StrictSubsetOrdering(Nat), FiniteSubsetsOf(Nat))
    BY FS_StrictSubsetOrderingWellFounded
  <2>2. QED  BY <1>2, <2>1, WFMin, Zenon
<1>4. PICK n \in T : X = up(n)
  OBVIOUS
<1>5. ASSUME NEW m \in T, m < n
      PROVE  FALSE
  <2>1. up(m) \subseteq up(n) /\ up(m) # up(n) /\ up(m) \in U
    BY <1>5
  <2>2. up(m) \subseteq Nat /\ up(n) \subseteq Nat
    OBVIOUS
  <2>3. <<up(m), up(n)>> \in StrictSubsetOrdering(Nat)
    BY <2>1, <2>2 DEF StrictSubsetOrdering
  <2>4. QED  BY <1>3, <1>4, <2>1, <2>3
<1>6. QED  BY <1>5

\* Two enumerations in an order under which no two elements are equal are one: the
\* first position where they differ would hold two elements, each not above the other.
LEMMA OneOrder ==
    ASSUME NEW S, IsFiniteSet(S), NEW R,
           \A x, y \in S : <<x, y>> \in R /\ <<y, x>> \in R => x = y,
           NEW r \in SetToSeqs(S), NEW s \in SetToSeqs(S),
           \A i, j \in DOMAIN r : i < j => <<r[i], r[j]>> \in R,
           \A i, j \in DOMAIN s : i < j => <<s[i], s[j]>> \in R
    PROVE  r = s
<1> DEFINE n == Cardinality(S)
           differ == {i \in 1..n : r[i] # s[i]}
<1>1. /\ n \in Nat /\ r \in [1..n -> S] /\ s \in [1..n -> S]
      /\ \A i, j \in 1..n : (r[i] = r[j] => i = j) /\ (s[i] = s[j] => i = j)
      /\ \A x \in S : (\E i \in 1..n : r[i] = x) /\ (\E i \in 1..n : s[i] = x)
  BY Enumeration
<1> HIDE DEF n
<1>2. SUFFICES ASSUME r # s
               PROVE  FALSE
  OBVIOUS
<1>3. PICK k \in differ : \A i \in differ : k <= i
  <2>1. differ \subseteq Nat /\ differ # {}
    <3>1. \E i \in 1..n : r[i] # s[i]
      BY <1>1, <1>2
    <3>2. QED  BY <3>1
  <2>2. QED  BY <2>1, Least, Zenon
<1>4. \A i \in 1..n : i < k => r[i] = s[i]
  BY <1>3
<1>5. PICK i \in 1..n : r[i] = s[k]
  BY <1>1
<1>6. PICK j \in 1..n : s[j] = r[k]
  BY <1>1
<1>7. k < i /\ k < j
  <2>1. i # k /\ j # k
    BY <1>5, <1>6
  <2>2. ~(i < k)
    BY <1>1, <1>4, <1>5
  <2>3. ~(j < k)
    BY <1>1, <1>4, <1>6
  <2>4. QED  BY <2>1, <2>2, <2>3
<1>8. <<r[k], r[i]>> \in R /\ <<s[k], s[j]>> \in R
  BY <1>1, <1>7
<1>9. QED  BY <1>1, <1>5, <1>6, <1>8

\* Pages of one enumeration: no element is on two of them, each is on one.
LEMMA PagesPartition ==
    ASSUME NEW S, IsFiniteSet(S), NEW s \in SetToSeqs(S), NEW limit \in Nat \ {0}
    PROVE  Partition({s}, S, limit)
<1> DEFINE n == Cardinality(S)
           offsets == {limit * i : i \in 0..n}
           page(x) == ToSet(Page(s, limit, x))
           on(x) == {i \in 1..n : x < i /\ i <= x + limit}
<1>1. n \in Nat /\ \A i \in Nat : limit * i \in Nat /\ limit * (i + 1) = limit * i + limit
  BY FS_CardinalityType
<1>2. offsets \subseteq Nat
  BY <1>1
<1>3. ASSUME NEW x \in Nat
      PROVE  page(x) = {s[i] : i \in on(x)}
  <2> DEFINE last == IF x + limit < n THEN x + limit ELSE n
             rows == SubSeq(s, x + 1, last)
  <2>1. s \in [1..n -> S] /\ Len(s) = n
    BY Enumeration
  <2>2. Page(s, limit, x) = rows
    BY <2>1 DEF Page
  <2> HIDE DEF n
  <2>3. /\ last \in Nat /\ last <= n /\ last <= x + limit
        /\ \A i \in 1..n : i \in on(x) <=> i \in (x + 1)..last
        /\ (x + 1)..last \subseteq 1..n
    BY <1>1
  <2> HIDE DEF last
  <2>4. rows = [i \in 1..(last - x) |-> s[i + x]]
    BY <1>1, <2>1, <2>3
  <2> HIDE DEF rows
  <2>5. ToSet(rows) = {s[i + x] : i \in 1..(last - x)}
    BY <2>4 DEF ToSet
  <2>6. ASSUME NEW i \in 1..(last - x)
        PROVE  i + x \in (x + 1)..last
    BY <2>3
  <2>7. ASSUME NEW i \in (x + 1)..last
        PROVE  i - x \in 1..(last - x) /\ (i - x) + x = i
    BY <2>3
  <2>8. {s[i + x] : i \in 1..(last - x)} = {s[i] : i \in (x + 1)..last}
    BY <2>6, <2>7
  <2>9. on(x) = (x + 1)..last
    BY <2>3
  <2>10. QED  BY <2>2, <2>5, <2>8, <2>9
<1>4. \A k \in Nat : k > 0 => limit * k >= limit
  <2> SUFFICES ASSUME NEW k \in Nat, k > 0
               PROVE  limit * k >= limit
    OBVIOUS
  <2>1. limit * k = limit * (k - 1) + limit /\ limit * (k - 1) \in Nat
    BY <1>1
  <2>2. QED  BY <2>1
<1>5. ASSUME NEW a \in 0..n, NEW b \in 0..n, a < b
      PROVE  limit * a + limit <= limit * b
  <2>1. limit * b = limit * a + limit * (b - a)
    OBVIOUS
  <2>2. b - a \in Nat /\ b - a > 0
    BY <1>1, <1>5
  <2>3. limit * (b - a) >= limit
    BY <1>4, <2>2
  <2>4. /\ limit * a \in Nat /\ limit * b \in Nat /\ limit * (b - a) \in Nat
    BY <1>1, <2>2
  <2>5. QED  BY <2>1, <2>3, <2>4
<1>6. ASSUME NEW x \in offsets, NEW y \in offsets, x # y
      PROVE  page(x) \cap page(y) = {}
  <2>1. PICK a \in 0..n, b \in 0..n : x = limit * a /\ y = limit * b
    OBVIOUS
  <2>2. x + limit <= y \/ y + limit <= x
    <3>1. a < b \/ b < a
      BY <1>1, <1>6, <2>1
    <3>2. QED  BY <1>5, <2>1, <3>1
  <2>3. on(x) \cap on(y) = {}
    <3>1. x \in Nat /\ y \in Nat  BY <1>2
    <3> HIDE DEF offsets
    <3>2. QED  BY <1>1, <2>2, <3>1
  <2>4. \A i, j \in 1..n : s[i] = s[j] => i = j
    BY Enumeration
  <2>5. page(x) = {s[i] : i \in on(x)} /\ page(y) = {s[i] : i \in on(y)}
    <3>1. x \in Nat /\ y \in Nat  BY <1>2
    <3> HIDE DEF page, on
    <3>2. QED  BY <1>3, <3>1
  <2> HIDE DEF page
  <2>6. QED  BY <2>3, <2>4, <2>5
<1>7. ASSUME NEW i \in 1..n
      PROVE  \E x \in offsets : i \in on(x)
  <2> DEFINE T == {b \in Nat : i <= limit * b}
  <2>1. i \in Nat /\ i > 0 /\ i <= n
    BY <1>1
  <2>2. i \in T
    <3>1. limit * i = i + (limit - 1) * i
      BY <2>1
    <3>2. (limit - 1) * i \in Nat
      BY <2>1
    <3>3. QED  BY <2>1, <3>1, <3>2
  <2>3. PICK b \in T : \A c \in T : b <= c
    <3>1. T \subseteq Nat /\ T # {}  BY <2>2
    <3> HIDE DEF T
    <3>2. QED  BY <3>1, Least, Zenon
  <2>4. b \in Nat /\ b # 0 /\ b <= i /\ i <= limit * b
    BY <2>1, <2>2, <2>3
  <2>5. b - 1 \in Nat /\ b - 1 \in 0..n /\ b - 1 \notin T
    BY <1>1, <2>1, <2>3, <2>4
  <2>6. limit * (b - 1) < i /\ limit * b = limit * (b - 1) + limit
    BY <1>1, <2>1, <2>5
  <2>7. i \in on(limit * (b - 1))
    BY <2>4, <2>6
  <2>8. limit * (b - 1) \in offsets
    BY <2>5
  <2> HIDE DEF on, offsets
  <2>9. QED  BY <2>7, <2>8
<1>8. UNION {page(x) : x \in offsets} = S
  <2>1. s \in [1..n -> S] /\ \A e \in S : \E i \in 1..n : s[i] = e
    BY Enumeration
  <2>2. \A x \in offsets : page(x) = {s[i] : i \in on(x)}
    <3> HIDE DEF page, on, offsets
    <3>1. QED  BY <1>2, <1>3
  <2> HIDE DEF page, offsets, n
  <2>3. \A x \in offsets : page(x) \subseteq S
    BY <2>1, <2>2
  <2>4. \A e \in S : \E x \in offsets : e \in page(x)
    BY <1>7, <2>1, <2>2
  <2>5. QED  BY <2>3, <2>4
<1>9. QED  BY <1>6, <1>8 DEF Partition

\* The elements of a finite set can be put in any order that compares every two.
LEMMA AnOrder ==
    ASSUME NEW S, IsFiniteSet(S), NEW R,
           \A x, y \in S : <<x, y>> \in R \/ <<y, x>> \in R,
           \A x, y \in S : <<x, y>> \in R /\ <<y, x>> \in R => x = y,
           \A x, y, z \in S : <<x, y>> \in R /\ <<y, z>> \in R => <<x, z>> \in R
    PROVE  \E s \in SetToSeqs(S) : \A i, j \in DOMAIN s : i < j => <<s[i], s[j]>> \in R
<1> DEFINE n == Cardinality(S)
           upto(x) == {y \in S : <<y, x>> \in R}
           rank == [x \in S |-> Cardinality(upto(x))]
           s == [i \in 1..n |-> CHOOSE x \in S : rank[x] = i]
<1>1. n \in Nat /\ IsFiniteSet(1..n) /\ Cardinality(1..n) = n
  <2>1. n \in Nat  BY FS_CardinalityType
  <2> HIDE DEF n
  <2>2. 1 \in Int /\ n \in Int  BY <2>1
  <2>3. IsFiniteSet(1..n) /\ Cardinality(1..n) = IF 1 > n THEN 0 ELSE n - 1 + 1
    BY <2>2, FS_Interval
  <2>4. QED  BY <2>1, <2>3
<1>2. ASSUME NEW x \in S
      PROVE  IsFiniteSet(upto(x)) /\ Cardinality(upto(x)) \in 1..n /\ x \in upto(x)
  <2>1. upto(x) \in SUBSET S /\ x \in upto(x)
    OBVIOUS
  <2> HIDE DEF upto, n
  <2>2. IsFiniteSet(upto(x)) /\ Cardinality(upto(x)) <= n
    BY <2>1, FS_Subset DEF n
  <2>3. Cardinality(upto(x)) \in Nat /\ Cardinality(upto(x)) # 0
    BY <2>1, <2>2, FS_CardinalityType, FS_EmptySet
  <2>4. QED  BY <1>1, <2>1, <2>2, <2>3
<1>3. ASSUME NEW x \in S, NEW y \in S, <<x, y>> \in R, x # y
      PROVE  rank[x] < rank[y]
  <2>1. upto(x) \subseteq upto(y) /\ y \in upto(y) /\ y \notin upto(x)
    BY <1>3
  <2>2. IsFiniteSet(upto(y)) /\ Cardinality(upto(x)) \in Nat /\ Cardinality(upto(y)) \in Nat
    <3>1. /\ IsFiniteSet(upto(y))
          /\ Cardinality(upto(x)) \in 1..n /\ Cardinality(upto(y)) \in 1..n
      BY <1>2
    <3> HIDE DEF upto, n
    <3>2. QED  BY <1>1, <3>1
  <2>3. rank[x] = Cardinality(upto(x)) /\ rank[y] = Cardinality(upto(y))
    OBVIOUS
  <2> HIDE DEF upto, rank
  <2>4. Cardinality(upto(x)) <= Cardinality(upto(y)) /\ Cardinality(upto(y)) # Cardinality(upto(x))
    BY <2>1, <2>2, FS_Subset
  <2>5. QED  BY <2>2, <2>3, <2>4
<1>4. rank \in [S -> 1..n]
  BY <1>2
<1> HIDE DEF n, rank, upto
<1>5. \A x, y \in S : rank[x] = rank[y] => x = y
  <2> SUFFICES ASSUME NEW x \in S, NEW y \in S, x # y
               PROVE  rank[x] # rank[y]
    OBVIOUS
  <2>1. rank[x] < rank[y] \/ rank[y] < rank[x]
    BY <1>3
  <2>2. rank[x] \in Nat /\ rank[y] \in Nat
    BY <1>1, <1>4
  <2>3. QED  BY <2>1, <2>2
<1>6. rank \in Surjection(S, 1..n)
  <2>1. rank \in Injection(S, 1..n)
    BY <1>4, <1>5 DEF Injection, IsInjective
  <2>2. QED  BY <1>1, <2>1, FS_Injection DEF n
<1>7. \A i \in 1..n : s[i] \in S /\ rank[s[i]] = i
  <2> SUFFICES ASSUME NEW i \in 1..n
               PROVE  s[i] \in S /\ rank[s[i]] = i
    OBVIOUS
  <2>1. \E x \in S : rank[x] = i
    BY <1>6 DEF Surjection
  <2>2. QED  BY <2>1
<1>8. s \in SetToSeqs(S)
  <2>1. s \in [1..n -> S]
    BY <1>7
  <2>2. \A i, j \in 1..n : i # j => s[i] # s[j]
    BY <1>7
  <2> HIDE DEF s
  <2>3. QED  BY <2>1, <2>2 DEF SetToSeqs, n
<1>9. ASSUME NEW i \in DOMAIN s, NEW j \in DOMAIN s, i < j
      PROVE  <<s[i], s[j]>> \in R
  <2>1. i \in 1..n /\ j \in 1..n
    OBVIOUS
  <2> HIDE DEF s
  <2>2. ~(rank[s[j]] < rank[s[i]]) /\ s[i] # s[j] /\ s[i] \in S /\ s[j] \in S
    BY <1>1, <1>7, <1>9, <2>1
  <2>3. QED  BY <1>3, <2>2
<1>10. QED  BY <1>8, <1>9

LEMMA OrderOfNumbers ==
    ASSUME NEW x \in Int, NEW y \in Int
    PROVE  /\ Order(x, y) \in {0, 1, 2}
           /\ Order(x, y) <= 1 <=> x <= y
           /\ Order(x, y) = 1 <=> x = y
BY DEF Order

\* A second term decides where the first leaves two elements equal.
LEMMA LexicalPair ==
    ASSUME NEW a \in {0, 1, 2}, NEW b \in {0, 1, 2}
    PROVE  Lexical(<<a, b>>) = IF a = 1 THEN b ELSE a
<1> DEFINE terms == <<a, b>>
           firsts == {i \in DOMAIN terms : terms[i] # 1}
           first == CHOOSE i \in firsts : \A j \in firsts : i <= j
<1>1. DOMAIN terms = {1, 2} /\ terms[1] = a /\ terms[2] = b
  OBVIOUS
<1>2. Lexical(terms) = IF firsts = {} THEN 1 ELSE terms[first]
  BY DEF Lexical
<1> HIDE DEF terms
<1>3. CASE a # 1
  <2>1. 1 \in firsts /\ firsts \subseteq {1, 2}
    BY <1>1, <1>3
  <2>2. \E i \in firsts : \A j \in firsts : i <= j
    BY <2>1
  <2>3. first \in firsts /\ \A j \in firsts : first <= j
    BY <2>2
  <2>4. first = 1
    BY <2>1, <2>3
  <2>5. firsts # {}
    BY <2>1
  <2> HIDE DEF firsts, first
  <2>6. QED  BY <1>1, <1>2, <1>3, <2>4, <2>5 DEF terms
<1>4. CASE a = 1 /\ b # 1
  <2>1. firsts = {2}
    BY <1>1, <1>4
  <2>2. first = 2
    BY <2>1
  <2> HIDE DEF firsts, first
  <2>3. QED  BY <1>1, <1>2, <1>4, <2>1, <2>2 DEF terms
<1>5. CASE a = 1 /\ b = 1
  <2>1. firsts = {}
    BY <1>1, <1>5
  <2>2. QED  BY <1>2, <1>5, <2>1 DEF terms
<1>6. QED  BY <1>3, <1>4, <1>5

\* What comes before what: the first number decides, and the second between equals.
LEMMA LexicalOfNumbers ==
    ASSUME NEW x \in Int, NEW y \in Int, NEW k \in Int, NEW l \in Int
    PROVE  Lexical(<<Order(x, y), Order(k, l)>>) <= 1 <=> x < y \/ (x = y /\ k <= l)
<1>1. Order(x, y) \in {0, 1, 2} /\ Order(k, l) \in {0, 1, 2}
  BY OrderOfNumbers
<1>2. Lexical(<<Order(x, y), Order(k, l)>>) = IF Order(x, y) = 1 THEN Order(k, l) ELSE Order(x, y)
  BY <1>1, LexicalPair
<1>3. QED  BY <1>2 DEF Order

\* Under an ORDER BY whose last term is a number of its own for each element, the
\* database has exactly one result to give, and its pages hold each element once.
LEMMA OrderedPages ==
    ASSUME NEW S, IsFiniteSet(S), NEW m \in [S -> Int], NEW k \in [S -> Int],
           \A x, y \in S : k[x] = k[y] => x = y,
           NEW results,
           results = {s \in SetToSeqs(S) : \A i, j \in DOMAIN s : i < j =>
                        m[s[i]] < m[s[j]] \/ (m[s[i]] = m[s[j]] /\ k[s[i]] <= k[s[j]])},
           NEW limit \in Nat \ {0}
    PROVE  Partition(results, S, limit)
<1> DEFINE leq(x, y) == m[x] < m[y] \/ (m[x] = m[y] /\ k[x] <= k[y])
           R == {z \in S \X S : leq(z[1], z[2])}
<1>1. \A x, y \in S : <<x, y>> \in R <=> leq(x, y)
  OBVIOUS
<1>2. \A x \in S : m[x] \in Int /\ k[x] \in Int
  OBVIOUS
<1> HIDE DEF R
<1>3. \A x, y \in S : <<x, y>> \in R \/ <<y, x>> \in R
  <2> SUFFICES ASSUME NEW x \in S, NEW y \in S
               PROVE  leq(x, y) \/ leq(y, x)
    BY <1>1
  <2>1. m[x] \in Int /\ m[y] \in Int /\ k[x] \in Int /\ k[y] \in Int
    BY <1>2
  <2>2. QED  BY <2>1
<1>4. \A x, y \in S : <<x, y>> \in R /\ <<y, x>> \in R => x = y
  <2> SUFFICES ASSUME NEW x \in S, NEW y \in S, leq(x, y), leq(y, x)
               PROVE  x = y
    BY <1>1
  <2>1. m[x] \in Int /\ m[y] \in Int /\ k[x] \in Int /\ k[y] \in Int
    BY <1>2
  <2>2. k[x] = k[y]
    BY <2>1
  <2>3. QED  BY <2>2
<1>5. \A x, y, z \in S : <<x, y>> \in R /\ <<y, z>> \in R => <<x, z>> \in R
  <2> SUFFICES ASSUME NEW x \in S, NEW y \in S, NEW z \in S, leq(x, y), leq(y, z)
               PROVE  leq(x, z)
    BY <1>1
  <2>1. /\ m[x] \in Int /\ m[y] \in Int /\ m[z] \in Int
        /\ k[x] \in Int /\ k[y] \in Int /\ k[z] \in Int
    BY <1>2
  <2>2. QED  BY <2>1
<1>6. \A s \in SetToSeqs(S) :
        s \in results <=> \A i, j \in DOMAIN s : i < j => <<s[i], s[j]>> \in R
  <2> SUFFICES ASSUME NEW s \in SetToSeqs(S)
               PROVE  s \in results <=> \A i, j \in DOMAIN s : i < j => <<s[i], s[j]>> \in R
    OBVIOUS
  <2>1. \A i \in DOMAIN s : s[i] \in S
    BY Enumeration
  <2>2. s \in results <=> \A i, j \in DOMAIN s : i < j => leq(s[i], s[j])
    OBVIOUS
  <2> HIDE DEF leq
  <2>3. QED  BY <1>1, <2>1, <2>2
<1>7. results \subseteq SetToSeqs(S)
  OBVIOUS
<1>8. \E s \in SetToSeqs(S) : \A i, j \in DOMAIN s : i < j => <<s[i], s[j]>> \in R
  BY <1>3, <1>4, <1>5, AnOrder
<1>9. results # {}
  BY <1>6, <1>8
<1>10. \A r, s \in results : r = s
  BY <1>4, <1>6, <1>7, OneOrder
<1>11. PICK s \in SetToSeqs(S) : results = {s}
  BY <1>7, <1>9, <1>10
<1>12. QED  BY <1>11, PagesPartition

\* The rows of a list, by sequence and primary key.
LEMMA ListPages ==
    ASSUME NEW d, NEW key, NEW rows, IsFiniteSet(rows),
           \A p \in rows : d.position[p].sequence \in Int /\ key[p] \in Int,
           \A p, q \in rows : key[p] = key[q] => p = q,
           NEW limit \in Nat \ {0}
    PROVE  Partition(queryset_order_by_fields(rows, d, key), rows, limit)
<1> DEFINE m == [p \in rows |-> d.position[p].sequence]
           k == [p \in rows |-> key[p]]
           lists == queryset_order_by_fields(rows, d, key)
           leq(p, q) == m[p] < m[q] \/ (m[p] = m[q] /\ k[p] <= k[q])
<1>1. m \in [rows -> Int] /\ k \in [rows -> Int] /\ \A p, q \in rows : k[p] = k[q] => p = q
  OBVIOUS
<1>2. \A p, q \in rows :
        Lexical(<<Order(d.position[p].sequence, d.position[q].sequence), Order(key[p], key[q])>>) <= 1
          <=> leq(p, q)
  <2> SUFFICES ASSUME NEW p \in rows, NEW q \in rows
               PROVE  Lexical(<<Order(m[p], m[q]), Order(k[p], k[q])>>) <= 1 <=> leq(p, q)
    OBVIOUS
  <2>1. m[p] \in Int /\ m[q] \in Int /\ k[p] \in Int /\ k[q] \in Int
    OBVIOUS
  <2> HIDE DEF m, k
  <2>2. QED  BY <2>1, LexicalOfNumbers
<1>3. lists = {s \in SetToSeqs(rows) : \A i, j \in DOMAIN s : i < j =>
                 Lexical(<<Order(d.position[s[i]].sequence, d.position[s[j]].sequence),
                           Order(key[s[i]], key[s[j]])>>) <= 1}
  BY DEF queryset_order_by_fields, Sorted
<1>4. \A s \in SetToSeqs(rows) : \A i \in DOMAIN s : s[i] \in rows
  BY Enumeration
<1> HIDE DEF leq
<1>5. lists = {s \in SetToSeqs(rows) : \A i, j \in DOMAIN s : i < j => leq(s[i], s[j])}
  BY <1>2, <1>3, <1>4
<1> HIDE DEF m, k, lists
<1>6. Partition(lists, rows, limit)
  BY <1>1, <1>5, OrderedPages DEF leq
<1>7. QED  BY <1>6 DEF lists

\* The groups of finitely many rows: one for each category that has a row, with the
\* number of its rows.
LEMMA GroupsAre ==
    ASSUME NEW d, NEW env, NEW budgets, IsFiniteSet(read(d, env, budgets))
    PROVE  LET rows == read(d, env, budgets)
               groups == GroupsOf(d, env, budgets)
           IN  /\ IsFiniteSet(groups)
               /\ \A g \in groups :
                    /\ g.category \in {d.position[p].category : p \in rows}
                    /\ g.count = Cardinality({p \in rows : d.position[p].category = g.category})
                    /\ g.count \in Nat
               /\ \A g, h \in groups : g.category = h.category => g = h
               /\ \A p \in rows : \E g \in groups : g.category = d.position[p].category
<1> DEFINE rows == read(d, env, budgets)
           groups == GroupsOf(d, env, budgets)
           cat(p) == d.position[p].category
           members(c) == {p \in rows : cat(p) = c}
           group(c) == [category |-> c, count |-> Cardinality(members(c))]
           f == [p \in rows |-> group(cat(p))]
<1>1. groups = {group(c) : c \in {cat(p) : p \in rows}}
  BY DEF GroupsOf
<1>2. \A c : Cardinality(members(c)) \in Nat
  <2> SUFFICES ASSUME NEW c
               PROVE  Cardinality(members(c)) \in Nat
    OBVIOUS
  <2>1. members(c) \in SUBSET rows
    OBVIOUS
  <2> HIDE DEF members, rows
  <2>2. IsFiniteSet(members(c))
    BY <2>1, FS_Subset DEF rows
  <2>3. QED  BY <2>2, FS_CardinalityType
<1>3. f \in Surjection(rows, groups)
  <2> HIDE DEF group, rows
  <2>1. f \in [rows -> groups] /\ \A g \in groups : \E p \in rows : f[p] = g
    BY <1>1
  <2>2. QED  BY <2>1 DEF Surjection
<1>4. IsFiniteSet(groups)
  BY <1>3, FS_Surjection
<1>5. \A c : group(c).category = c /\ group(c).count = Cardinality(members(c))
  OBVIOUS
<1> HIDE DEF group, groups
<1>6. \A g \in groups : g = group(g.category) /\ g.category \in {cat(p) : p \in rows}
  BY <1>1, <1>5
<1>7. \A p \in rows : group(cat(p)) \in groups
  BY <1>1
<1>8. \A g \in groups : g.count = Cardinality(members(g.category)) /\ g.count \in Nat
  BY <1>2, <1>5, <1>6
<1>9. \A g, h \in groups : g.category = h.category => g = h
  BY <1>6
<1>10. \A p \in rows : \E g \in groups : g.category = cat(p)
  BY <1>5, <1>7
<1> HIDE DEF rows
<1>11. QED  BY <1>4, <1>6, <1>8, <1>9, <1>10 DEF groups, rows

\* The groups of a group_by, by what the client named and the dimensions.
LEMMA GroupPages ==
    ASSUME NEW d, NEW env, NEW budgets, IsFiniteSet(read(d, env, budgets)), NEW key,
           \A p \in read(d, env, budgets) : key[d.position[p].category] \in Int,
           \A p, q \in read(d, env, budgets) :
             key[d.position[p].category] = key[d.position[q].category]
               => d.position[p].category = d.position[q].category,
           NEW ordering \in {"count", "-count", "category"}, NEW limit \in Nat \ {0}
    PROVE  Partition(group_by(d, env, budgets, ordering, key).results,
                     GroupsOf(d, env, budgets), limit)
<1> DEFINE rows == read(d, env, budgets)
           groups == GroupsOf(d, env, budgets)
           results == group_by(d, env, budgets, ordering, key).results
           above(g, h) == _group_by_ordering(g, h, ordering, key)
           m == [g \in groups |-> IF ordering = "count" THEN g.count
                                  ELSE IF ordering = "-count" THEN 0 - g.count ELSE 0]
           k == [g \in groups |-> key[g.category]]
           leq(g, h) == m[g] < m[h] \/ (m[g] = m[h] /\ k[g] <= k[h])
<1>1. results = {s \in SetToSeqs(groups) : \A i, j \in DOMAIN s : i < j => above(s[i], s[j]) <= 1}
  BY DEF group_by, Sorted
<1>2. /\ IsFiniteSet(groups)
      /\ \A g \in groups : g.count \in Int /\ key[g.category] \in Int
      /\ \A g, h \in groups : key[g.category] = key[h.category] => g = h
  <2>1. /\ IsFiniteSet(groups)
        /\ \A g, h \in groups : g.category = h.category => g = h
        /\ \A g \in groups : g.count \in Int
        /\ \A g \in groups : \E p \in rows : g.category = d.position[p].category
    <3>1. /\ IsFiniteSet(groups)
          /\ \A g, h \in groups : g.category = h.category => g = h
          /\ \A g \in groups : g.count \in Nat /\ g.category \in {d.position[p].category : p \in rows}
      BY GroupsAre
    <3> HIDE DEF rows, groups
    <3>2. QED  BY <3>1
  <2> HIDE DEF rows, groups
  <2>2. QED  BY <2>1 DEF rows
<1> HIDE DEF groups, results
<1>3. m \in [groups -> Int] /\ k \in [groups -> Int] /\ \A g, h \in groups : k[g] = k[h] => g = h
  BY <1>2
<1>4. ASSUME NEW g \in groups, NEW h \in groups
      PROVE  above(g, h) <= 1 <=> leq(g, h)
  <2>1. /\ g.count \in Int /\ h.count \in Int /\ k[g] \in Int /\ k[h] \in Int
        /\ k[g] = key[g.category] /\ k[h] = key[h.category]
    BY <1>2
  <2>2. CASE ordering = "count"
    <3>1. m[g] = g.count /\ m[h] = h.count
      BY <2>2
    <3>2. above(g, h) = Lexical(<<Order(g.count, h.count), Order(k[g], k[h])>>)
      BY <2>1, <2>2 DEF _group_by_ordering
    <3> HIDE DEF m, k, above
    <3>3. QED  BY <2>1, <3>1, <3>2, LexicalOfNumbers
  <2>3. CASE ordering = "-count"
    <3>1. m[g] = 0 - g.count /\ m[h] = 0 - h.count
      BY <2>3
    <3>2. above(g, h) = Lexical(<<Order(h.count, g.count), Order(k[g], k[h])>>)
      BY <2>1, <2>3 DEF _group_by_ordering
    <3> HIDE DEF m, k, above
    <3>3. above(g, h) <= 1 <=> h.count < g.count \/ (h.count = g.count /\ k[g] <= k[h])
      BY <2>1, <3>2, LexicalOfNumbers
    <3>4. QED  BY <2>1, <3>1, <3>3
  <2>4. CASE ordering = "category"
    <3>1. m[g] = 0 /\ m[h] = 0
      BY <2>4
    <3>2. above(g, h) = Order(k[g], k[h])
      BY <2>1, <2>4 DEF _group_by_ordering
    <3> HIDE DEF m, k, above
    <3>3. QED  BY <2>1, <3>1, <3>2, OrderOfNumbers
  <2>5. QED  BY <2>2, <2>3, <2>4
<1>5. \A s \in SetToSeqs(groups) : \A i \in DOMAIN s : s[i] \in groups
  BY <1>2, Enumeration
<1> HIDE DEF above, leq
<1>6. results = {s \in SetToSeqs(groups) : \A i, j \in DOMAIN s : i < j => leq(s[i], s[j])}
  BY <1>1, <1>4, <1>5
<1> HIDE DEF m, k
<1>7. Partition(results, groups, limit)
  BY <1>2, <1>3, <1>6, OrderedPages DEF leq
<1>8. QED  BY <1>7 DEF results, groups

\* A set of numbers up to n that is not empty has a greatest element.
LEMMA Greatest ==
    ASSUME NEW n \in Nat, NEW T, T \subseteq 1..n, T # {}
    PROVE  Max(T) \in T /\ \A m \in T : Max(T) >= m
<1> DEFINE U == {n - i : i \in T}
<1>1. U \subseteq Nat /\ U # {}
  <2>1. \A i \in T : n - i \in Nat
    OBVIOUS
  <2>2. QED  BY <2>1
<1>2. PICK u \in U : \A v \in U : u <= v
  <2> HIDE DEF U
  <2>1. QED  BY <1>1, Least, Zenon
<1>3. PICK x \in T : u = n - x
  OBVIOUS
<1>4. \A m \in T : x >= m
  <2> SUFFICES ASSUME NEW m \in T
               PROVE  x >= m
    OBVIOUS
  <2>1. n - x <= n - m
    BY <1>2, <1>3
  <2>2. x \in Int /\ m \in Int
    OBVIOUS
  <2>3. QED  BY <2>1, <2>2
<1>5. Max(T) = CHOOSE y \in T : \A m \in T : y >= m
  BY DEF Max
<1>6. QED  BY <1>4, <1>5

\* What the client adds up group by group is the number of rows.
LEMMA CountsAddUp ==
    ASSUME NEW d, NEW env, NEW budgets, IsFiniteSet(read(d, env, budgets))
    PROVE  FoldLeft(LAMBDA n, g : n + g.count, 0, SetToSeq(GroupsOf(d, env, budgets)))
             = Cardinality(read(d, env, budgets))
<1> DEFINE rows == read(d, env, budgets)
           groups == GroupsOf(d, env, budgets)
           size == Cardinality(groups)
           q == SetToSeq(groups)
           D == DOMAIN q
           body(f) == [s \in SUBSET D |-> IF s = {} THEN 0
                                          ELSE f[s \ {Max(s)}] + q[Max(s)].count]
           iter == CHOOSE f : f = body(f)
           cat(p) == d.position[p].category
           of(s) == {p \in rows : \E i \in s : q[i].category = cat(p)}
           sum == [s \in SUBSET D |-> Cardinality(of(s))]
<1>1. FoldLeft(LAMBDA n, g : n + g.count, 0, q) = iter[D]
  BY DEF FoldLeft, MapThenFoldSet
<1>2. /\ IsFiniteSet(groups)
      /\ \A g \in groups : g.count = Cardinality({p \in rows : cat(p) = g.category})
      /\ \A g, h \in groups : g.category = h.category => g = h
      /\ \A p \in rows : \E g \in groups : g.category = cat(p)
  BY GroupsAre
<1>3. q \in SetToSeqs(groups)
  <2>1. ExistsBijection(1..size, groups)
    BY <1>2, FS_CardinalityType
  <2>2. \E f \in [1..size -> groups] : IsInjective(f)
    BY <2>1 DEF ExistsBijection, Bijection, Injection
  <2>3. q \in [1..size -> groups] /\ IsInjective(q)
    BY <2>2 DEF SetToSeq
  <2>4. QED  BY <2>3 DEF SetToSeqs, IsInjective
<1>4. /\ size \in Nat /\ D = 1..size
      /\ \A i \in D : q[i] \in groups
      /\ \A i, j \in D : q[i] = q[j] => i = j
      /\ \A g \in groups : \E i \in D : q[i] = g
  <2> HIDE DEF q, groups
  <2>1. /\ size \in Nat /\ q \in [1..size -> groups]
        /\ \A i, j \in 1..size : q[i] = q[j] => i = j
        /\ \A g \in groups : \E i \in 1..size : q[i] = g
    BY <1>2, <1>3, Enumeration
  <2> HIDE DEF size
  <2>2. D = 1..size
    BY <2>1
  <2>3. QED  BY <2>1, <2>2
<1> HIDE DEF q, D, size, groups
<1>5. \A s \in SUBSET D : IsFiniteSet(of(s)) /\ Cardinality(of(s)) \in Nat
  <2> SUFFICES ASSUME NEW s \in SUBSET D
               PROVE  IsFiniteSet(of(s)) /\ Cardinality(of(s)) \in Nat
    OBVIOUS
  <2>1. of(s) \in SUBSET rows
    OBVIOUS
  <2> HIDE DEF of, rows
  <2>2. QED  BY <2>1, FS_Subset, FS_CardinalityType DEF rows
\* One more group adds its rows, which are in no other.
<1>6. ASSUME NEW s \in SUBSET D, NEW x \in s
      PROVE  Cardinality(of(s)) = Cardinality(of(s \ {x})) + q[x].count
  <2> DEFINE new == {p \in rows : cat(p) = q[x].category}
  <2>1. of(s) = of(s \ {x}) \cup new
    BY <1>4
  <2>2. of(s \ {x}) \cap new = {}
    BY <1>2, <1>4
  <2>3. q[x].count = Cardinality(new)
    BY <1>2, <1>4
  <2>4. IsFiniteSet(of(s \ {x})) /\ Cardinality(of(s \ {x})) \in Nat
    BY <1>5
  <2>5. IsFiniteSet(new) /\ Cardinality(new) \in Nat
    <3>1. new \in SUBSET rows  OBVIOUS
    <3> HIDE DEF new, rows
    <3>2. QED  BY <3>1, FS_Subset, FS_CardinalityType DEF rows
  <2> HIDE DEF of, new
  <2>6. Cardinality(of(s)) = Cardinality(of(s \ {x})) + Cardinality(new) - Cardinality({})
    BY <2>1, <2>2, <2>4, <2>5, FS_Union
  <2>7. QED  BY <2>3, <2>4, <2>5, <2>6, FS_EmptySet
<1>7. Cardinality(of({})) = 0
  <2>1. of({}) = {}  OBVIOUS
  <2> HIDE DEF of
  <2>2. QED  BY <2>1, FS_EmptySet
<1> HIDE DEF of
<1>8. sum = body(sum)
  <2>1. ASSUME NEW s \in SUBSET D
        PROVE  sum[s] = body(sum)[s]
    <3>1. CASE s = {}
      BY <1>7, <3>1
    <3>2. CASE s # {}
      <4>1. Max(s) \in s
        BY <1>4, <3>2, Greatest
      <4>2. sum[s] = sum[s \ {Max(s)}] + q[Max(s)].count
        BY <1>6, <4>1
      <4>3. QED  BY <3>2, <4>2
    <3>3. QED  BY <3>1, <3>2
  <2>2. QED  BY <2>1
<1>9. iter = body(iter)
  BY <1>8
<1> HIDE DEF iter
<1>10. \A s \in SUBSET D : iter[s] = IF s = {} THEN 0 ELSE iter[s \ {Max(s)}] + q[Max(s)].count
  BY <1>9
<1> HIDE DEF sum, body
\* Induction on the number of groups added.
<1>11. \A k \in 0..size : iter[1..k] = Cardinality(of(1..k))
  <2> DEFINE T == {k \in 0..size : iter[1..k] # Cardinality(of(1..k))}
  <2>1. SUFFICES ASSUME T # {}
                 PROVE  FALSE
    OBVIOUS
  <2>2. PICK k \in T : \A m \in T : k <= m
    <3>1. T \subseteq Nat  BY <1>4
    <3> HIDE DEF T
    <3>2. QED  BY <2>1, <3>1, Least, Zenon
  <2>3. k \in Nat /\ k <= size /\ 1..k \in SUBSET D
    BY <1>4
  <2>4. k # 0
    <3>1. SUFFICES ASSUME k = 0
                   PROVE  FALSE
      OBVIOUS
    <3>2. 1..k = {}  BY <3>1
    <3>3. iter[1..k] = 0  BY <1>10, <3>2
    <3>4. Cardinality(of(1..k)) = 0  BY <1>7, <3>2
    <3>5. QED  BY <3>3, <3>4
  <2>5. Max(1..k) = k /\ 1..k # {} /\ (1..k) \ {k} = 1..(k - 1)
    <3>1. k \in 1..k /\ 1..k # {} /\ (1..k) \ {k} = 1..(k - 1)
      BY <2>3, <2>4
    <3>2. Max(1..k) \in 1..k /\ \A m \in 1..k : Max(1..k) >= m
      BY <2>3, <3>1, Greatest
    <3>3. QED  BY <2>3, <3>1, <3>2
  <2>6. iter[1..(k - 1)] = Cardinality(of(1..(k - 1)))
    <3>1. k - 1 \in 0..size /\ ~(k <= k - 1)
      BY <1>4, <2>3, <2>4
    <3>2. QED  BY <2>2, <3>1
  <2>7. iter[1..k] = iter[1..(k - 1)] + q[k].count
    BY <1>10, <2>3, <2>5
  <2>8. Cardinality(of(1..k)) = Cardinality(of(1..(k - 1))) + q[k].count
    <3>1. k \in 1..k  BY <2>3, <2>4
    <3>2. QED  BY <1>6, <2>3, <2>5, <3>1
  <2>9. QED  BY <2>6, <2>7, <2>8
<1>12. iter[D] = Cardinality(of(D))
  BY <1>4, <1>11
<1>13. of(D) = rows
  BY <1>2, <1>4 DEF of
<1>14. QED  BY <1>1, <1>12, <1>13 DEF q, groups

\* Positions are the ones of the start, each of the category it had and with a number
\* for its sequence: no request creates one or moves it between categories.
PositionsOK(d) ==
    /\ DOMAIN d.position \subseteq DOMAIN InitialDb.position
    /\ \A p \in DOMAIN d.position :
         /\ DOMAIN d.position[p] = {"budget", "category", "sequence"}
         /\ d.position[p].category = InitialDb.position[p].category
         /\ d.position[p].sequence \in Int

LEMMA WrittenPositions ==
    ASSUME NEW d, RowsOK(d), PositionsOK(d), NEW env, NEW op \in Ops, NEW pks, NEW existing, NEW key
    PROVE  PositionsOK(Written(d, env, op, pks, existing, key).db)
<1> DEFINE w == Written(d, env, op, pks, existing, key).db
<1> SUFFICES PositionsOK(w)
  OBVIOUS
<1>1. op.do \in {"create", "update", "delete", "roles", "resequence"}
  BY OpsAssumption
<1>2. d = [user |-> d.user, budget |-> d.budget, position |-> d.position]
  BY DEF RowsOK
<1>3. CASE op.do = "create"
  <2>1. w = Inserted(d, key, [user |-> InputUser(env, op)]) \/ w = d
    BY <1>3 DEF Written, _create_atomic, Inserted
  <2>2. w.position = d.position
    BY <1>2, <2>1 DEF Inserted
  <2> HIDE DEF w
  <2>3. QED  BY <2>2 DEF PositionsOK
<1>4. CASE op.do = "update"
  <2>1. w = _update_atomic(d, env, op, pks)  BY <1>4 DEF Written
  <2>2. w.position = d.position  BY <1>2, <2>1 DEF _update_atomic
  <2> HIDE DEF w
  <2>3. QED  BY <2>2 DEF PositionsOK
<1>5. CASE op.do = "roles"
  <2>1. w = _update_many_to_many(d, op, existing).db  BY <1>5 DEF Written
  <2>2. w.position = d.position  BY <1>2, <2>1 DEF _update_many_to_many
  <2> HIDE DEF w
  <2>3. QED  BY <2>2 DEF PositionsOK
<1>6. CASE op.do = "delete"
  <2> DEFINE kept == {p \in DOMAIN d.position : d.position[p].budget \in DOMAIN d.budget \ pks}
  <2>1. w = _delete_atomic(d, pks)  BY <1>6 DEF Written
  <2>2. w.position = [p \in kept |-> d.position[p]]
    BY <1>2, <2>1 DEF _delete_atomic
  <2> HIDE DEF w
  <2>3. DOMAIN w.position = kept /\ \A p \in kept : w.position[p] = d.position[p]
    BY <2>2
  <2>4. QED  BY <2>3 DEF PositionsOK
<1>7. CASE op.do = "resequence"
  <2> DEFINE index(p) == CHOOSE i \in DOMAIN op.ids : op.ids[i] = p
             selected == Selected(d, env, op)
             row(p) == IF p \in selected
                       THEN [d.position[p] EXCEPT !.sequence = op.offset + index(p)]
                       ELSE d.position[p]
  <2>1. w = _resequence(d, env, op)  BY <1>7 DEF Written
  <2>2. w.position = [p \in DOMAIN d.position |-> row(p)]
    BY <1>2, <2>1 DEF _resequence
  <2>3. selected \subseteq ToSet(op.ids)
    BY <1>7 DEF Selected
  <2>4. \A p \in selected : op.offset + index(p) \in Int
    <3> SUFFICES ASSUME NEW p \in selected
                 PROVE  op.offset + index(p) \in Int
      OBVIOUS
    <3>1. \E i \in DOMAIN op.ids : op.ids[i] = p
      BY <2>3 DEF ToSet
    <3>2. index(p) \in DOMAIN op.ids
      BY <3>1
    <3> HIDE DEF index
    <3>3. QED  BY <1>7, <3>2, OpsAssumption
  <2> HIDE DEF index, selected, w
  <2>5. \A p \in DOMAIN d.position :
          /\ DOMAIN row(p) = {"budget", "category", "sequence"}
          /\ row(p).category = d.position[p].category
          /\ row(p).sequence \in Int
    BY <2>4 DEF PositionsOK
  <2> HIDE DEF row
  <2>6. DOMAIN w.position = DOMAIN d.position /\ \A p \in DOMAIN d.position : w.position[p] = row(p)
    BY <2>2
  <2>7. QED  BY <2>5, <2>6 DEF PositionsOK
<1>8. QED  BY <1>1, <1>3, <1>4, <1>5, <1>6, <1>7

LEMMA PositionsStay == Spec => []PositionsOK(db)
<1>1. Init => PositionsOK(db)
  BY RowsAssumption DEF Init, PositionsOK
<1>2. ASSUME IInv, PositionsOK(db), [Next]_vars
      PROVE  PositionsOK(db')
  <2>1. ASSUME NEW w \in Workers, Write(w)
        PROVE  PositionsOK(db')
    <3>1. PICK key : db' = Written(db, Env(req[w]), req[w].op, req[w].pks, req[w].existing, key).db
      BY <2>1 DEF Write
    <3>2. RowsOK(db) /\ req[w].op \in Ops
      BY <1>2, <2>1 DEF IInv, ShapeOK, Write
    <3>3. QED  BY <1>2, <3>1, <3>2, WrittenPositions
  <2>2. ASSUME NEW u \in Users, SetActive(u)
        PROVE  PositionsOK(db')
    <3>1. db'.position = db.position
      BY <1>2, <2>2 DEF SetActive, IInv, RowsOK
    <3>2. QED  BY <1>2, <3>1 DEF PositionsOK
  <2>3. CASE UNCHANGED db
    BY <1>2, <2>3
  <2>4. QED
    BY <1>2, <2>1, <2>2, <2>3
       DEF Next, vars, Issue, IssueElsewhere, RevokeKey, Start, get_access_roles, Resolve, Read, Tick
<1>3. IInv /\ PositionsOK(db) /\ [Next]_vars => PositionsOK(db)'
  BY <1>2
<1>4. QED  BY <1>1, <1>3, Invariance, PTL DEF Spec

\* A client that goes through the pages of a list or of a group_by, each a query of
\* its own, sees every row and every group it may read exactly once, whatever rows the
\* requests have left and whatever order the database gives equal ones: the order of
\* a list ends with the primary key, and that of the groups with the dimensions the
\* client did not name.
THEOREM PagesMissNothing == Spec => []PagesPartitionReach
<1>1. ASSUME PositionsOK(db), NEW env \in Envs, NEW budgets
      PROVE  LET rows == read(db, env, budgets)
                 lists == queryset_order_by_fields(rows, db, PrimaryKey)
                 groups == GroupsOf(db, env, budgets)
             IN  /\ \A limit \in Limits : Partition(lists, rows, limit)
                 /\ FoldLeft(LAMBDA n, g : n + g.count, 0, SetToSeq(groups)) = Cardinality(rows)
                 /\ \A ordering \in {"count", "-count", "category"}, limit \in Limits :
                      LET grouped == group_by(db, env, budgets, ordering, PrimaryKey)
                      IN  /\ Partition(grouped.results, groups, limit)
                          /\ grouped.total = Cardinality(groups)
  <2> DEFINE rows == read(db, env, budgets)
             groups == GroupsOf(db, env, budgets)
  <2>1. rows \subseteq DOMAIN db.position
    BY ReachExists DEF read, get_queryset
  <2>2. rows \subseteq DOMAIN InitialDb.position /\ IsFiniteSet(rows)
    <3>1. rows \in SUBSET DOMAIN InitialDb.position
      BY <1>1, <2>1 DEF PositionsOK
    <3>2. IsFiniteSet(DOMAIN InitialDb.position)
      BY KeysAssumption
    <3> HIDE DEF rows
    <3>3. QED  BY <3>1, <3>2, FS_Subset
  <2>3. /\ \A p \in rows : db.position[p].sequence \in Int /\ PrimaryKey[p] \in Int
        /\ \A p, q \in rows : PrimaryKey[p] = PrimaryKey[q] => p = q
    <3> HIDE DEF rows
    <3>1. QED  BY <1>1, <2>1, <2>2, KeysAssumption DEF PositionsOK
  <2>4. /\ \A p \in rows : PrimaryKey[db.position[p].category] \in Int
        /\ \A p, q \in rows :
             PrimaryKey[db.position[p].category] = PrimaryKey[db.position[q].category]
               => db.position[p].category = db.position[q].category
    <3> DEFINE categories == {InitialDb.position[p].category : p \in DOMAIN InitialDb.position}
    <3>1. \A x, y \in categories :
            PrimaryKey[x] \in Int /\ (PrimaryKey[x] = PrimaryKey[y] => x = y)
      BY KeysAssumption
    <3>2. \A p \in rows : db.position[p].category \in categories
      <4> HIDE DEF rows
      <4>1. QED  BY <1>1, <2>1, <2>2 DEF PositionsOK
    <3> HIDE DEF rows, categories
    <3>3. QED  BY <3>1, <3>2
  <2>5. \A limit \in Limits : Partition(queryset_order_by_fields(rows, db, PrimaryKey), rows, limit)
    <3> HIDE DEF rows
    <3>1. QED  BY <2>2, <2>3, ListPages, BoundsAssumption
  <2>6. \A ordering \in {"count", "-count", "category"}, limit \in Limits :
          Partition(group_by(db, env, budgets, ordering, PrimaryKey).results, groups, limit)
    BY <2>2, <2>4, GroupPages, BoundsAssumption
  <2>7. \A ordering : group_by(db, env, budgets, ordering, PrimaryKey).total = Cardinality(groups)
    BY DEF group_by
  <2>8. FoldLeft(LAMBDA n, g : n + g.count, 0, SetToSeq(groups)) = Cardinality(rows)
    BY <2>2, CountsAddUp
  <2>9. QED  BY <2>5, <2>6, <2>7, <2>8
<1>2. PositionsOK(db) => PagesPartitionReach
  BY <1>1 DEF PagesPartitionReach
<1>3. QED  BY <1>2, PositionsStay, PTL
=============================================================================
