# A verification project for totem-backend

TLA+ models of the parts of totem-backend that are hard to test, the TLC runs that check
them on small instances, and TLAPS proofs of the results that should hold for any number
of workers, rows and databases.

totem-backend is a Django and django-ninja backend. Each tenant has its own PostgreSQL
database (READ COMMITTED), chosen per request; Celery workers and a beat process run
beside the ASGI workers. Business logic is in *services*: `ServiceBase` and its mixins
turn a request into one transaction that resolves relations, validates, writes with
`bulk_create` / `queryset.update` / `queryset.delete`, and refreshes stored computed
fields before it commits. Controllers and schemas are declared as classes; routes, request
schemas and checks are derived from them when the application starts.

## Inventory

| Component | State it keeps | Operations | What makes it correct |
|---|---|---|---|
| Authentication sessions (`authentication/services.py`, `models/refresh_token.py`, `tasks.py`) | rows of refresh tokens: hash, user, session, expiry, revocation date; row locks | login, rotate, sign out, revoke on replay or deactivation, periodic purge | a session has at most one live token; each token is exchanged once; a replay stays recognisable until the token expires; every request is answered |
| Access policy and roles (`user/access_policy.py`, `access_rights.py`, `models/user_role.py`) | roles, their permissions and rules; access tokens with frozen scopes | check a scope, combine the rules of the roles into a filter, change roles | what is out of reach looks unknown; a withdrawn right is gone after one token lifetime; one role per category |
| API keys (`authentication/models`, `ApiKeyAuth`) | keys with their scopes | authenticate, revoke | a key acts for nobody, within its scopes, until it is revoked |
| Generic services (`core/services/base.py`, `mixins.py`) | the rows of a model | browse, create with defaults, update, set many-to-many, delete, resequence, display names | an update writes only what its user may update; announced defaults are the ones applied |
| Grouped reads (`core/services/group_by.py`) | none | groups with counts, order, pages | the pages partition what is in reach |
| Stored computed fields (`core/orm/fields/computed/`) | registry of dependencies built at start-up; pending refreshes of a unit of work; columns | declare created, modified and deleted rows; flush by depth | a committed stored field is what its method gives; a flush ends |
| Accounts and budgets (`account/`) | accounts, categories, movements, budgets, positions, lines, with stored totals | create, update and delete through services | totals in sync, cascades included |
| Website menus (`website/models/menu.py`, `MenuService`, `core/utils/tree.py`) | rows with a parent and a materialized path | create, move, delete (services), save (admin), `read_tree` | paths spell the ancestors; no cycle; a tree read is the subtree |
| Filestore (`base/files/storages.py`, `base/models/mixins.py`) | bytes by checksum, symbolic links in a public and a private store, reference rows | upload, delete, roll back | a record serves its own bytes; bytes go with their last reference |
| Tenant lifecycle (`saas/services.py`, `saas/api/tenants.py`) | databases of the server, applied migrations, sessions | create, migrate (hot, or after killing sessions), drop | creation is all or nothing; a created tenant is never lost; session settings do not leak into the pool |
| Tenant selection and pools (`core/db/tenancy.py`, `core/middleware.py`) | current database of the context, aliases, wrappers of a thread, pools, last use | select, nest, add, forget, evict | a statement runs on the selected database, inside its transaction; connections go back to their pool; idle pools are closed |
| Celery and beat (`core/celery/`) | one scheduler and exit hook per active tenant; a header on each message | refresh the list, tick, sync, close | a task runs on the database it was published for; one bad tenant does not stop the others |
| API layer (`core/api/controller.py`, `route.py`, `validation.py`) | routes and annotations left on shared functions; the route table | register mixins and routes, check, resolve | each promised route is served by its own controller, guarded; a sound declaration starts in every order |
| Schemas (`core/schemas/`) | the factory's cache and names | convert columns, make schemas | a body means what it documents and fits the row; a schema is the one declared |
| Contacts | rows | through the generic services only | declarations, checked with the API layer |
| System data, pages and themes, signed URLs, commands | see `PROJECT.json` | | |

How they interact: the middleware selects the database of the request; a controller, whose
routes were registered at start-up, checks the scope of the credential and calls a service;
the service applies the rules of the user's roles, writes through querysets that keep
derived data of their own (`MenuQuerySet`, `MediaQuerySet`, `BudgetLineQuerySet`) and
declares its writes to the computed-field context of its transaction; files are written by
the storage while Django saves the row; a task sent on the way carries the name of the
database. `TenantService` works outside all of this, on the server itself, and tells the
connection handler to forget a database while other threads may be using it.

Hard behaviours: concurrent transactions at READ COMMITTED that read, decide and write
without a lock; row locks and deadlocks; state that is not covered by the transaction (the
disk, the server's list of databases, the settings of a pooled session, the pools of a
process); workers that die between two such steps; refreshes that trigger refreshes; rights
that are withdrawn while a request that has them runs; declarations whose effect depends on
what was imported before. `PROJECT.json` lists each hazard at its line under `hazards`.

## Modules

| Module | Models |
|---|---|
| `RefreshTokens` | `AuthService` and the `RefreshToken` queryset, statement by statement |
| `SessionChains` | what sessions promise: an abstract specification that `RefreshTokens` implements |
| `AccessPolicy` | roles, rules, and the service operations on a database, as operators |
| `ServiceRequests` | extends `AccessPolicy`: credentials, and requests that run concurrently |
| `ComputedFields` | the dependency registry and the declarations, as operators over any schema |
| `AccountBooks` | extends `ComputedFields` with the schema of the account app and its transactions |
| `MenuTree` | menus and `read_tree` |
| `FileStore` | the storage, around the transaction of the request |
| `TenantLifecycle` | `tenant-create` and `tenant-migrate` |
| `TenantConnections` | `use_database`, the connection handler, the pools and the middleware |
| `TenantTasks` | task messages, workers, and the beat scheduler of all tenants |
| `SchemaFactory` | conversion of columns, schemas and their cache |
| `RouteTable` | extends `SchemaFactory`: class statements, routes, checks and resolution |
| `TotemApi` | extends `RouteTable`: every model, schema, service and controller of the repository |
| `...Proofs` | theorems and proofs about `RefreshTokens`, `TenantLifecycle` and `TenantTasks` (`TenancyProofs`), `TenantConnections`, `RouteTable`, `ServiceRequests`, `FileStore`, `MenuTree`, `AccountBooks` |
| `MC...` | values of constants and symmetry for TLC |

Definitions whose name ends in `_Something` and that precede the definition they vary are
plausible faults: put in its place, each must break a property.

### RefreshTokens

`row` and `rows` are the table, `lock` the row locks, `req` the request of each worker.
An `UPDATE`, `DELETE` or `SELECT FOR UPDATE` takes its snapshot when it starts
(`StartStatement`, `RotateSelect`), then waits for each row and looks at it again
(`WriteRow`, `SkipRow`, `RotateExchange`...), and nothing is visible before `Commit...`.
`Crash` rolls back at any point, `DeadlockAbort` is PostgreSQL's detector. `parent` and
`ended` are histories that only the properties read. A secret and its hash are one
name; the access token is in `ServiceRequests`.

### AccessPolicy and ServiceRequests

`AccessPolicy` has the roles of the fixtures on users and budgets, their rules, and what each
operation of a service does to a database: `Selected` (browse under the rules), the
resolution of relations, the statements that write (`Written`), the answer a client gets
(`Answer`), and the grouped and ordered reads. `ServiceRequests` runs these operations for
several workers: a request starts with a principal whose scopes suffice (`Start`), loads the
live roles of its user (`get_access_roles`), resolves relations before the transaction
(`Resolve`), reads the rows it selects (`Read`) and writes them (`Write`); other workers act
between any two of these. Tokens keep the scopes of the moment they were issued (`Issue`),
tokens of another database of the same process circulate too (`IssueElsewhere`), and the
admin deactivates users and revokes keys. `lost` is a history. A role taken away and given
back between two statements is the same row in the model.

### ComputedFields and AccountBooks

`ComputedFields` computes from a schema (foreign keys, related names, `on_delete`,
`depends_on`) the bindings, depths and cascades that `dependency.py` computes at start-up,
and from a write the pending refreshes that `context.py` collects. `AccountBooks` gives it
the account models. A transaction is `Begin` (relations resolved and validated), `Write...`,
`Declare...`, then `FlushRead` / `FlushStore` per batch of the lowest depth, then `Commit`,
which checks the foreign keys (Django declares them `INITIALLY DEFERRED`). `FlushRead` and
`FlushStore` are two steps because `bulk_refresh_fields` reads, computes in Python and
writes back. Many-to-many dependencies and virtual fields are left out.

### MenuTree

A path is the sequence of keys it spells. Services load the parent before the transaction
(`Resolved`), `ValidateMove` is the cycle guard, `RecomputeRead` / `RecomputeStore` are
the two halves of the recursive `UPDATE`: the tree as its snapshot shows it, then the
rows it waits for. `Menu.save` (the admin) recomputes only below its old path, and has no
guard. `ReadTree` inserts the rows one after the other (`HierarchyTree.insert`), in every order
they may have.

### FileStore

A content stands for the bytes, their checksum and their place on disk. Every system call
and every query of `_save` and `delete` is a step of its own; references and records become
visible at `Commit`, files and links at once. `Rollback` keeps the disk as it is. `strays`
are second copies that Django writes under another name when the file appeared after
the probe.

### TenantLifecycle

`db` is the server, `session` the session of each thread on each database, `code` the
migrations known to the deployed code. `_create` is `CheckExists`, `CreateDatabase`, `Plan`,
`ApplyMigration`*, `Populate`, `CreateAdmin`, and `Drop` after a `Fail`; `_migrate` is
`Lookup`, `KillConnections`, the same middle, and `ResetTimeout` in every case (`finally`).
A step on the database needs a live session: `DROP ... WITH (FORCE)` and
`kill_connections` take it away from other calls. Django runs the synchronous part of a
request in one thread, so a call is a thread with a connection of its own.

### TenantConnections

`ctx` is the context variable of each thread, `wrapper` the connections of its thread-local,
`pools` what the threads of the process share. `thr` has the blocks entered and not left
(`use_database` with the token to restore, `atomic`) and where an access to
`connections["default"]` is: `Lookup` (the alias resolved and added), `GetItem` (the wrapper),
`Touch` and `EvictLook` / `EvictClose` / `EvictDone` (the time of use, then idle pools, under
the lock), `OpenPool` and `GetConn` (Django looks the pool up twice), `Exec`. `forget_database`
of another thread and the eviction fall between any two of these. `forget_database` itself has no
condition but the lock. Who calls it is modelled from the services, which forget the database
their own request has selected: `ServiceForgets` before `migrate` enters its block or after
`create` has left its own, `_reset_lock_timeout` inside the block of a migration whose `RESET`
failed, after which `ReadApplied` reads the migrations through the wrapper it still holds. `Finish` is the end of the
request: the context is restored first, then `request_finished` closes the initialized
connections. A pool has a generation, so a connection of a closed pool is not one of the
pool that replaced it. `ran`, `usedAt`, `orphans` and `lost` are observations; `orphans` has the pools
that a request opened on a database which was forgotten while it used it. `drop_database` looks
the default connection up just before it forgets the database; what that lookup adds is gone a
line later, and left out.

### TenantTasks

A message has the header and the database its sender meant; a worker may die and the message
is delivered again. `selected` is the context variable of beat and `tokens` what the blocks of
`use_database` it is in will restore: each call of a scheduler enters one (`RemoveOne`, `AddOne`,
`TickOne`), its body runs on whatever is then selected (`ReadSchedule`, `SendDue`, `Save`), and it is left
when the body returned and when it raised (`LeaveBlock`). `sync` enters a block of its own, nested
in that of a tick or a removal (`SyncInside`), or with nothing selected when beat stops and at exit
(`CloseOne`, `ExitHook`). Beat refreshes its list (`RefreshStart`, `RemoveOne`, `AddOne`), ticks one
tenant after the other, and on exit closes and runs the hooks. Databases and the catalog come
and go between any two steps; `Killed` loses what beat has not saved. The schedule itself is
django_celery_beat's: a tenant has a task due or not. A save that fails raises, or is logged
by the library, which then gives the run up: the model keeps it among those not saved.

### SchemaFactory, RouteTable and TotemApi

A start executes a plan of class statements and then serves or fails. `SchemaFactory` turns a
column into a field (type, default, nullability against omission, rename) and keeps the
factory's cache and names. `RouteTable` executes the statements: each controller registers its
mixins' and its own routes in the order of its bases, marks and annotates the function objects
that all controllers share, and is checked by `validation.py`; `Resolved` is Django's first
match. `TotemApi` has the columns, schemas, services and controllers of every app, so the
model starts what the repository starts. `Validated`, `Created` and `Updated` say what a body
that sends, nulls or omits a name does to the row. A value is there, null or absent; that the
services refuse blank text is left out.

## Runs

| Run | Instance | Shows |
|---|---|---|
| `refresh_tokens` | 2 workers, 1 session, 3 tokens, clock 0..1 | single-use chains, evidence kept, thorough revocation, refinement of `SessionChains` |
| `refresh_tokens_live` | 2 workers, 2 sessions, 2 tokens | every request ends |
| `refresh_signout_race` | 2 workers | *violated*: a rotation in flight survives a sign-out |
| `account_books` | 1 worker, 1 account, 2 categories, movement, budget, position, line | totals in sync through updates, moves and cascades; flushes go deeper |
| `menu_tree` | 1 worker, 4 menus, paths of 3 keys | paths and tree reads exact |
| `menu_tree_race` | 2 workers, 3 menus | *violated*: two moves make a cycle |
| `file_store` | 1 worker, 3 records, 2 contents, 2 names | right bytes served, last reference removes them |
| `tenant_lifecycle` | 3 threads, 1 database, 2 migrations | all or nothing, no tenant lost, no timeout in the pool |
| `tenant_connections` | 2 threads, 2 databases, 6 pieces of work, clock 0..2, eviction after 2 | statements on their database and in their transaction, connections returned, idle pools closed, while a request forgets its own database or another's |
| `tenant_tasks` | 2 tenants, 1 exit of beat, 1 message waiting | tasks and runs stay home through nested and raising calls, hooks follow schedulers, a settled tenant is served |
| `startup` | every declaration in both orders; every order of two classes, and of three sound ones | routes, guards, bodies and schemas as declared; a route open only where declared so; nothing sound refused |
| `service_requests` | 2 workers, 2 users, 1 key, 3 budgets, 3 positions, 2 changes, clock 0..2 | reach, recent rights, pages of one and two, defaults |

The violated runs state what a docstring or comment of the code says; the counterexample
is a few steps long and `findings` in `PROJECT.json` quotes the line.

Bounds. Three tokens of one session are a rotation, its replay and a rotation after it,
with two workers at every step; the clock needs one tick to pass an expiry. Two sessions
are needed for a deadlock; nothing expires in that run (`MaxTime` = 0), so its purges find no row
and take no lock: purges beside rotations and revocations are in `refresh_tokens` only. The books have one row of each model and a second category,
the smallest instance in which a position can move and a cascade go through two models;
two amounts of opposite sign tell debit from credit.
Four menus make a path longer than `MaxDepth` = 3 (nine keys fit in the real column) and a
move of a subtree with a subtree. Three records with two contents and names give shared
bytes within one store and across both, with a collision of names. Three calls on one
database are two creations and a migration, or a creation and two migrations. Two threads
with six requests, blocks, accesses or forgettings between them are enough for a thread to
nest a switch in a transaction while the other forgets or evicts what it uses; two ticks make
a pool idle. Two tenants are one that fails and one that must not notice. The misdeclared
classes of `startup` are one for each refusal of the code, in pairs with every other. An
administrator and a user limited to its own budgets, with two changes in flight, take a right
away between any two statements of a request; two ticks are a token lifetime.

The passing runs of books, menus and files have one worker because with two the code does not
keep their properties (see below); they show that a single request is correct in every order,
with a rollback at every step. The hazards that need two writers there, and a crash in
`tenant_lifecycle`, are listed in `PROJECT.json` without a property.

Deadlock is checked except in `startup` (a start ends), `tenant_connections` and
`service_requests` (their bounded work runs out).

Fairness. Two runs assume any. In `refresh_tokens_live` a worker goes on with the request it
has begun (weak fairness of its steps). PostgreSQL queues the waiters of a row lock, so a
worker that can take the lock again and again takes it (strong fairness of the steps that
take one). The deadlock detector runs (weak fairness of `DeadlockAbort`). `OutOfRoom` excuses
a request that the bounds of the model, not the code, keep from going on. In `tenant_tasks`
beat's loop never stops by itself (weak fairness of `BeatStep`), and `BEAT_TENANT_REFRESH`
passes again and again, so a tick that may begin with a refresh does so infinitely often
(strong fairness of `RefreshStart`). Nothing is assumed of clients, administrators, workers,
databases, the catalog or the clock.

## Proofs

`RefreshTokensProofs` proves, for any sets of users, workers, tokens and sessions and any
lifetime, `TypeOK`, `OneLiveTokenPerSession`, `SingleUse`, `EvidenceKept`,
`RevocationReachesWhatItSaw` and the refinement `ImplementsChains`. That there is one live
token per session does not follow from itself: a transaction in flight holds a token that
will become live. The invariant `IInv` adds that what a transaction has written is locked
by it and still unrevoked (`LocksInv`, `WritesOK`), that what it found it has visited, will
visit or need not (`WritesOK`), that locals are set as far as the request has come
(`LocalsOK`), and that new secrets and sessions are new (`FreshInv`, `SpentInv`).

`TenancyProofs` proves, of `TenantLifecycle`, `TypeOK` (no migration twice), `CreatedTenantsStay` and
`TimeoutStaysOut` for any number of threads, databases and migrations, crashes included,
and `AllOrNothing` when `Crashes = FALSE`. The strengthening says that at most one call
creates a database (`OneCreator`), that a database which may be dropped exists and was
promised to nobody (`CreatorsOwn`), that a call may trust what it saw of its database
while its session lives, since dropping ends all sessions (`SeenStays`), and that only a
running migration has a timed session (`TimedByMigrations`).

Of `TenantTasks` it proves `TasksStayHome`, `RunsSavedHome` and `HooksFollowSchedulers` for any
number of tenants, messages and restarts. The strengthening says that every message in the
queue has the header its sender meant; that what beat has still to remove is scheduled and
what it has still to add is not (`TodoInv`); and what the context variable holds at each point of a
call (`SelectedInv`): the tenant of that call while one is in progress, whose block and that of a
nested `sync` restore what was selected before them, and nothing between two calls. `CallInv` and
`BeatInv` say which points a call of each kind can be at. `RunsSavedHome` is then that a save runs
inside the block of its own tenant; it does not follow from the call alone, since a `sync` that
selected nothing of its own would still be right inside a tick and wrong at exit.

`TenantConnectionsProofs` proves `OnItsOwnDatabase` and `AtomicCovers` for any number of
threads, databases and nested blocks, without using any of the bounds on time, pools and work.
Neither follows from the current state of the context variable alone, since a block that is left
restores what its token says. The invariant says that the blocks have a *history* (`StackOK`):
a value of the context variable for each prefix of them, which is the database of the innermost
`use_database` of that prefix, which each token restores, and which inside an `atomic` never
leaves its database. Entering and leaving a block keep a history (`PushUse`, `PushTx`, `Pop`).
The rest (`ThreadOK`) says that a wrapper is named after its alias and that the current
database has one while a transaction is open: that is why looking at the connection is enough
for `use_database` to see the transaction. `forget_database` could take it away, as it drops the wrapper
of the selected database whatever is open: that no `atomic` is open where the services call it
follows from the blocks they are in (`NoTransaction`), of which the first is always the one of the
middleware (`FirstInv`).

`ConnectionsReturned` and `IdlePoolsClosed` have invariants of their own. `HeldInv` says, of every
connection that a thread holds of a pool, that a wrapper of the thread has it, or will when
the access in progress ends, or that its pool is an orphan; so the end of a request, which closes
the wrappers, leaves none behind. `PoolInv` says that every open pool has a time of last use, save
the orphans and the pool that an access in progress is about to note (`AccessOK`), and that a look
of the eviction has covered what it has passed (`LookOK`): a pool that another thread opens behind
the look was used just now. `IdlePoolsClosed` is an action property: the step that ends the look
finds every pool either fresh or closed (`LookEnds`).

`RouteTableProofs` proves what a start of the API keeps for any models, schemas and controllers, in
any order of import and of bases. `SchemasKeepTheirDeclaration`: the key of the cache has all that
`create_schema` reads of a declaration, so statements with one key declare one schema
(`OneKeyOneSchema`), and of one suffix more than there are names one is free
(`UniqueNameIsFree`, by the pigeonhole). `RoutesKeepTheirController`: the invariant (`TableInv`)
says what other controllers may have left on the shared functions: the filters of a list on
`list` only, and a body only on the functions that take one (`AnnotationsOK`); whoever registers
such a function overwrites them. The class statement is a fold over its mixins, and each mixin a
fold over its functions; both are unfolded one element at a time (`OpsUnfold`, `ChainUnfolds`) with
an invariant of their own (`StateOK`): the `__dict__` has the names of the body and then those of
the registered functions, each once (`DictOK`), and each route is one of the chain with its guard
(`GeneratedRoute`). `OpenRoutesAreDeclared` rests on what a class statement refuses: a class without
the permission of an opt-in route does not start, so what may be open is a route of the five others
whose permission the declaration leaves out, or one declared without a guard; that the guard is the
one of its own class follows from `GeneratedRoute`. `PromisedRoutesServed` needs all of it: of the routes that match a path the first is the
route itself, since one by id behind which it stood would be in the wrong order for
`_check_static_route` (`NoIdBefore`), of those with its path and method it is the only one
(`OnePathOneRoute`), and an opt-in mixin that the check finds in the `__dict__` is one of the chain,
because nobody else sets its name (`PromisedRegistered`). `BodiesReachTheRow` combines the
binding of schemas with what `_check_request_schemas` accepts: a field under one name only
(`NamesOfAlias`, `OneName`).

`ServiceRequestsProofs` proves `RightsAreRecent`, `UpdatesStayInReach`, `AnnouncedDefaultsHold` and
`HiddenLooksUnknown` for any workers, users, keys, rows and lifetime of a token, and that a user has
one role per category at most, which the rules depend on. The invariant says that the tables keep
the rules of the database (`RowsOK`), that each scope of a token is one its user has or lost after
the token was issued (`TokenOK`), that a request remembers what belongs to the point it has
reached (`ShapeOK`), and that a request that gives roles has found them, and the account in the
reach of its user, before it writes (`RolesOK`). `UpdatesStayInReach` rests on a lemma about
rules: what an update writes, it may not move out of the reach of the user who owns it
(`ReachByOwner`).

`PagesPartitionReach` is proved for any rows, any order of their keys, any page sizes of one and
more (`Limits`), the list in the order of its model and the three orders of the groups
(`PagesMissNothing`). Its argument: the terms of an `ORDER BY` that end with a key that no
two elements share leave no ties (`LexicalOfNumbers`), so there is exactly one result
(`OneOrder`; that there is one is an induction on the number of elements, by the well-founded order
of the finite sets, `AnOrder`), every element is at one index of it, and so on one page
(`PagesPartition`, with the division that gives the page). That the counts of the groups add up to
the list (`CountsAddUp`) unfolds the fold over the groups, one category at a time. The invariant it
needs is that sequences remain numbers through every resequencing (`PositionsOK`). The property
itself says that a result exists: a list without one would partition nothing.

`FileStoreProofs` proves `TypeOK` for any workers, and `RecordsServed` and `LastReferenceRemoves` for
one worker without late failures, for any number of records, contents and names. The invariant
relates the disk in the middle of a save or a delete to the rows the transaction sees: which of
bytes, link and reference is already there and which is still missing at each program point.

`MenuTreeProofs` proves `TypeOK` for any number of processes, and `PathsFollowParents`,
`NoMenuIsLost` and `ReadTreeExact` for one, for any menus and any depth. Both hypotheses, one
request at a time (`Procs = {w}`) and `AdminCares`, are there because the code does not keep the
properties without them, as the run `menu_tree_race` and the missing guard of the admin form show.
The recursive query is a recursive function on numbers, and that its rows are the walks from a root
is shown by taking the least number at which a statement fails (`Least`, from the well-foundedness
of an order on finite sets: the induction theorems of the library cannot be instantiated here).
The invariant (`Sound`) says that in the view of the open transaction parents lead to a root and
paths spell them, except between the two halves of a recomputation, where the rows that the first
half has found are the walks of the tree as it stands. One lemma per write says that what it does
to the parents leaves no cycle (`Replanted`, `CreatedClimb`, `SavedElsewhere`, `DeletedClimb`).
`ReadTreeBuilds` shows, for any order of the rows, that the tree under construction has exactly the
rows inserted so far, each in its place under its parent, and empty nodes only where the parent is
still to come.

`AccountBooksProofs` proves `TypeOK` and `FlushGoesDeeper` for any rows and any number of units of
work, and `InSync` for units of work that run one at a time (`Procs = {p}`): two that overlap may
leave a total stale (Known behaviours). The schema is that of the account app
(`AccountAssumption`), the rows, amounts and names are any. The first half of the module evaluates
the registry on the schema: paths of at most two relations (`WalkTwice`, `ReachedTwice`), the
bindings of each stored field (`TheSums`, `TheNameIsBound`, `ThePracticalIsBound`), the three rounds
of a cascade (`ClosureRounds`, `CollectedRounds`). The second says what each method reads (`Source`,
`Key`, `Inputs`), that two views that agree on it give the same value (`AgreedIsSame`), and that
whenever a row a field uses appears or disappears, is rewritten, is about to move or is deleted
directly or by cascade, the declaration queues the field (`QueuedByExistence`, `QueuedByWrite`,
`QueuedByMove`, `QueuedByCategory`, `QueuedByDeletion`). The invariant (`SyncInv`) follows a unit of
work: between the write and the end of the flush a stored column of the rows it sees is what its
method gives, or queued, or about to be declared, or read and about to be stored (`Settled`), and
every position it sees has a live category and budget (`Anchored`). The depth of a field is a
recursion that is not unfolded: the proofs use `DepthAssumption`, that depths are numbers and each
field is deeper than what it reads, which `_compute_depths` checks at start-up and TLC on the
schema.

The assumptions are the named `ASSUME`s of the component modules: types of the constants,
distinctness of the null values, finiteness of the names of files (`FileAssumption`), and of the
shape of rows, keys and operations (`RowsAssumption`, `OpsAssumption`) and that the keys of two
rows, or of two categories, differ (`KeysAssumption`: they are primary keys). The proofs about one process
state it as a hypothesis (`ASSUME NEW w, Procs = {w}`); their instances are the passing runs.
The proofs of `RouteTable` assume of the declarations, the misdeclared ones included, what follows,
and TLC checks it on all those of the repository and of the run: columns have the types of the
converters (`ColumnsAssumption`); a schema statement is executed once (`SchemasAssumption`); the
bases before the base controller are mixins, a list has filters, and the schema of an update
requires nothing (`ControllersAssumption`); a controller with mixins has a model, what its body
declares has a name and a path of its own and no id, what it overrides is of its mixins and, if by
id, comes after what it declares, and only opt-in mixins and the creation stand behind the base
(`RoutesAssumption`). Nothing is assumed of the permissions a controller declares
(`ScopesAssumption` only says that "no scope" is not the name of one).

Checked by TLC only:
- liveness (`RequestsEnd`, `SettledTenantsServed`), which is out of the prover's reach;
- `AcceptedBodiesFitTheRow`, which is a fact about the columns and schemas that the repository
  declares, as nothing in the code keeps a schema from making a required column optional;
- `PermissionsAreDeclared`, an `ASSUME` about the controllers of the repository that nothing is
  proved from: none but the sign-in and the tenants leaves a permission or a scope out (the code
  starts with one left out; what it then leaves open is `OpenRoutesAreDeclared`);
- `SoundClassesStart`, which says of the declarations of the instance that they start.

## Known behaviours

What the code does at its edges, seen while modelling. The passing runs exclude these where
the text says so.

- Two writers at once leave a stored total stale until the next refresh of the row:
  `bulk_refresh_fields` reads and writes without a lock (`AccountBooks` with two workers).
- Two uploads of one name can share a link; a failure after files were removed leaves a record
  without its file (`FileStore` with two workers, or with `LateFailures`).
- A worker that dies while it creates a tenant leaves half a database
  (`TenantLifecycle` with `Crashes`).
- Two refreshes of a deactivated user can deadlock; PostgreSQL aborts one and the requests end.
- The admin form of a menu has no cycle guard (`AdminCares`).
- `_get_dirty_file_fields` compares the initial state with itself, so a replaced avatar keeps
  its old file.
- A row that leaves the reach of a user between the read and the `UPDATE` of a request is
  answered as updated although nothing was written; a delete removes rows by key, also when they
  left the reach since they were read.
- Two updates of a user's roles can combine into a set that neither asked for; a row deleted
  during a resequencing is skipped.
- Where no rule of the user's roles names a model, its rows are not filtered; an API key has no
  roles, so only its scopes limit it.
- `forget_database` closes and drops the wrapper of the selected database too, and looks at no
  transaction: inside an `atomic()` the statements after it would run on a new connection, outside
  the transaction. No caller is inside one. When the `RESET` of a migration fails, the last read of
  the migrations connects through a wrapper that the handler no longer has, so that connection is
  not given back, and its pool has no time of last use.
- A resequencing of positions selects them through a join on a budget row it does not lock. In the
  model the `UPDATE` and its commit are one step (`Write`), so a budget given away between the two
  is not among its interleavings.
- The schema of `page_size` has an upper bound and no lower one; sizes below one are not in
  `Limits`.
- `forget_database` while a request uses the database: the request may get
  `ConnectionDoesNotExist`, its connection is not given back, and the pool it makes anew has no
  time of last use until it is used again, so it is not evicted. A pool closed between Django's
  two lookups makes the request fail with `PoolClosed`.
- A comment in `validation.py` calls it legitimate to inherit the creation mixin without a
  request schema; once another controller has marked the shared functions, `controller.py`
  stops such a start with `ValueError`. No declaration of the repository does.
- A controller without a filter schema of its own lists with the annotation that the controller
  before it left on the shared function. The base class of a schema is not part of the key of
  the factory's cache. No declaration of the repository meets either.
- The checks at start-up look for the fixed paths only: a `List`, `Retrieve`, `Update` or `Delete`
  mixin put behind the base controller registers nothing, and the start goes on if no controller
  before it has marked the function. No declaration of the repository does (`RoutesAssumption`).

## Plan

1. Done: sessions, tenant lifecycle, tenant connections and tasks, each with proofs; computed
   fields on the account models, menus, filestore; start-up of the API; access policy and
   service requests.
2. Done: the safety of each of these for any instance, and of the start-up for any declarations.
3. Next to model: `topological_sort` and the order of `populate`; the merge of theme options;
   many-to-many dependencies, nested units of work and virtual fields of the computed-field
   context; `read_tree` as an actor beside the moves.

## Not modelled

Text and layout: rendering of pages and widgets, the OpenAPI document, translations, logging.
Cryptography: hashing of secrets, signatures of tokens and URLs. Settings and code generation
at build time. Maintenance scripts that an operator runs alone. `PROJECT.json` gives the reason
for each component.
