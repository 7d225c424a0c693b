----------------------------- MODULE TenantLifecycle -----------------------------
(***************************************************************************)
(* The life of the database of a tenant: TenantService creates it (CREATE  *)
(* DATABASE, migrations, system data, administrator, or DROP DATABASE when *)
(* a step fails) and migrates it later, while it serves or after killing   *)
(* its sessions.  Nothing of this is one transaction, and the operator may *)
(* send any of these calls while others run.                               *)
(***************************************************************************)
EXTENDS Integers, FiniteSets

CONSTANTS
    Procs,       \* threads of the workers, each with its session on each database
    Databases,   \* names of tenant databases
    Migrations,  \* migrations of the latest code
    Crashes      \* a worker may die while it creates a database

ASSUME TenantAssumption == Migrations \in Nat \ {0} /\ Crashes \in BOOLEAN

VARIABLES
    db,       \* the databases on the server
    session,  \* "closed", "plain", or "timed" when it has the lock_timeout of a migration
    req,      \* the call each thread serves
    code,     \* the migrations known to the code that is deployed
    answered  \* the databases whose creation was answered with 201

vars == <<db, session, req, code, answered>>

Absent == [exists |-> FALSE, schema |-> 0, populated |-> FALSE, admin |-> FALSE]

Idle == [pc |-> "idle", kind |-> "none", db |-> "none", target |-> 0, at |-> 0, kill |-> FALSE]

Init ==
    /\ db = [d \in Databases |-> Absent]
    /\ session = [x \in Procs \X Databases |-> "closed"]
    /\ req = [p \in Procs |-> Idle]
    /\ code = 1
    /\ answered = {}

\* The call of p goes on at pc, or ends.
Goto(p, pc) == req' = [req EXCEPT ![p] = [@ EXCEPT !.pc = pc]]
Answer(p)   == req' = [req EXCEPT ![p] = Idle]

\* The steps of p that query the tenant database need a live session on it.
Connected(p) == session[<<p, req[p].db>>] # "closed"

\* Every session on d is ended, those in the pool of the caller included.
EndSessions(d) ==
    session' = [x \in Procs \X Databases |-> IF x[2] = d THEN "closed" ELSE session[x]]

\* New code is deployed; calls in flight keep the code they started with.
Deploy ==
    /\ code < Migrations /\ code' = code + 1
    /\ UNCHANGED <<db, session, req, answered>>

--------------------------------------------------------------------------------
(***************************************************************************)
(* tenant-create.                                                          *)
(***************************************************************************)
Create(p, d) ==
    /\ req[p].pc = "idle"
    /\ req' = [req EXCEPT ![p] = [pc |-> "check", kind |-> "create", db |-> d,
                                  target |-> code, at |-> 0, kill |-> FALSE]]
    /\ UNCHANGED <<db, session, code, answered>>

\* database_exists in create_database: DatabaseExists, 409.
CheckExists(p) ==
    /\ req[p].pc = "check"
    /\ IF db[req[p].db].exists THEN Answer(p) ELSE Goto(p, "create")
    /\ UNCHANGED <<db, session, code, answered>>

\* Mutant of CreateDatabase: it runs inside the block that drops on an error.
CreateDatabase_InTry(p) ==
    LET d == req[p].db IN
    /\ req[p].pc = "create"
    /\ IF db[d].exists THEN Goto(p, "drop") ELSE Goto(p, "plan")
    /\ db' = [db EXCEPT ![d] = [@ EXCEPT !.exists = TRUE]]
    /\ UNCHANGED <<session, code, answered>>

\* CREATE DATABASE; one that a concurrent call has created is an error, 409.
CreateDatabase(p) ==
    LET d == req[p].db IN
    /\ req[p].pc = "create"
    /\ IF db[d].exists THEN Answer(p) ELSE Goto(p, "plan")
    /\ db' = [db EXCEPT ![d] = [@ EXCEPT !.exists = TRUE]]
    /\ UNCHANGED <<session, code, answered>>

\* The administrator and the name of the website, in one transaction; answered 201.
CreateAdmin(p) ==
    LET d == req[p].db IN
    /\ req[p].pc = "admin" /\ Connected(p) /\ ~db[d].admin
    /\ db' = [db EXCEPT ![d] = [@ EXCEPT !.admin = TRUE]]
    /\ answered' = answered \cup {d}
    /\ Answer(p)
    /\ UNCHANGED <<session, code>>

\* forget_database, then DROP DATABASE WITH (FORCE), which ends every session on it.
Drop(p) ==
    LET d == req[p].db IN
    /\ req[p].pc = "drop"
    /\ db' = [db EXCEPT ![d] = Absent]
    /\ EndSessions(d)
    /\ Answer(p)
    /\ UNCHANGED <<code, answered>>

--------------------------------------------------------------------------------
(***************************************************************************)
(* tenant-migrate.                                                         *)
(***************************************************************************)
Migrate(p, d, kill) ==
    /\ req[p].pc = "idle"
    /\ req' = [req EXCEPT ![p] = [pc |-> "lookup", kind |-> "migrate", db |-> d,
                                  target |-> code, at |-> 0, kill |-> kill]]
    /\ UNCHANGED <<db, session, code, answered>>

\* DatabaseNotFound, 404.
Lookup(p) ==
    /\ req[p].pc = "lookup"
    /\ \/ ~db[req[p].db].exists /\ Answer(p)
       \/ db[req[p].db].exists /\ req[p].kill /\ Goto(p, "kill")
       \/ db[req[p].db].exists /\ ~req[p].kill /\ Goto(p, "plan")
    /\ UNCHANGED <<db, session, code, answered>>

\* kill_connections: every session on the database, its own pool included.
KillConnections(p) ==
    /\ req[p].pc = "kill"
    /\ EndSessions(req[p].db)
    /\ Goto(p, "plan")
    /\ UNCHANGED <<db, code, answered>>

\* The finally block: RESET lock_timeout, or forget the pool when that fails.
ResetTimeout(p) ==
    /\ req[p].pc = "reset"
    /\ session' = [session EXCEPT ![<<p, req[p].db>>] = IF Connected(p) THEN "plain" ELSE "closed"]
    /\ Answer(p)
    /\ UNCHANGED <<db, code, answered>>

--------------------------------------------------------------------------------
(***************************************************************************)
(* What both calls run on the database.                                    *)
(***************************************************************************)

\* A session is taken from the pool, or opened; a migration call sets its
\* lock_timeout.  `migrate` reads what is applied, and plans the rest.
Plan(p) ==
    LET d == req[p].db IN
    /\ req[p].pc = "plan" /\ db[d].exists
    /\ session' = [session EXCEPT ![<<p, d>>] =
                     IF req[p].kind = "migrate" \/ session[<<p, d>>] = "timed"
                     THEN "timed" ELSE "plain"]
    /\ req' = [req EXCEPT ![p] = [@ EXCEPT !.pc = "migrate", !.at = db[d].schema]]
    /\ UNCHANGED <<db, code, answered>>

\* Mutant of ApplyMigration: a migration that another call applied runs again.
ApplyMigration_Twice(p) ==
    LET d == req[p].db IN
    /\ req[p].pc = "migrate" /\ req[p].at < req[p].target /\ Connected(p)
    /\ db' = [db EXCEPT ![d] = [@ EXCEPT !.schema = db[d].schema + 1]]
    /\ req' = [req EXCEPT ![p] = [@ EXCEPT !.at = req[p].at + 1]]
    /\ UNCHANGED <<session, code, answered>>

\* One migration is one transaction; one already applied by another call fails.
ApplyMigration(p) ==
    LET d == req[p].db IN
    /\ req[p].pc = "migrate" /\ req[p].at < req[p].target /\ Connected(p)
    /\ db[d].schema = req[p].at
    /\ db' = [db EXCEPT ![d] = [@ EXCEPT !.schema = db[d].schema + 1]]
    /\ req' = [req EXCEPT ![p] = [@ EXCEPT !.at = req[p].at + 1]]
    /\ UNCHANGED <<session, code, answered>>

Populate(p) ==
    LET d == req[p].db IN
    /\ req[p].pc = "migrate" /\ req[p].at >= req[p].target /\ Connected(p)
    /\ db' = [db EXCEPT ![d] = [@ EXCEPT !.populated = TRUE]]
    /\ Goto(p, IF req[p].kind = "create" THEN "admin" ELSE "reset")
    /\ UNCHANGED <<session, code, answered>>

\* Mutant of Fail: the database of a failed creation is left behind.
Fail_NoDrop(p) ==
    /\ req[p].pc \in {"plan", "migrate", "admin"}
    /\ IF req[p].kind = "create" THEN Answer(p) ELSE Goto(p, "reset")
    /\ UNCHANGED <<db, session, code, answered>>

\* Mutant of Fail: the timeout is only reset when the migration has worked.
Fail_NoFinally(p) ==
    /\ req[p].pc \in {"plan", "migrate", "admin"}
    /\ IF req[p].kind = "create" THEN Goto(p, "drop") ELSE Answer(p)
    /\ UNCHANGED <<db, session, code, answered>>

\* A step raises: it finds its session killed, a migration applied by another call,
\* a lock it waited too long for, or any other error.
Fail(p) ==
    /\ req[p].pc \in {"plan", "migrate", "admin"}
    /\ Goto(p, IF req[p].kind = "create" THEN "drop" ELSE "reset")
    /\ UNCHANGED <<db, session, code, answered>>

\* The database of p exists because of its call, and may still be dropped by it.
Creating(p) == req[p].kind = "create" /\ req[p].pc \in {"plan", "migrate", "admin", "drop"}

\* The worker dies, and its sessions with it. A DROP DATABASE that itself fails ends
\* the call in the same way: what was created stays.
Crash(p) ==
    /\ req[p].pc # "idle"
    /\ Creating(p) => Crashes
    /\ session' = [x \in Procs \X Databases |-> IF x[1] = p THEN "closed" ELSE session[x]]
    /\ Answer(p)
    /\ UNCHANGED <<db, code, answered>>

Next ==
    \/ Deploy
    \/ \E p \in Procs :
         \/ \E d \in Databases : Create(p, d) \/ \E k \in BOOLEAN : Migrate(p, d, k)
         \/ CheckExists(p) \/ CreateDatabase(p) \/ CreateAdmin(p) \/ Drop(p)
         \/ Lookup(p) \/ KillConnections(p) \/ ResetTimeout(p)
         \/ Plan(p) \/ ApplyMigration(p) \/ Populate(p)
         \/ Fail(p) \/ Crash(p)

Spec == Init /\ [][Next]_vars

--------------------------------------------------------------------------------
(***************************************************************************)
(* Properties.                                                             *)
(***************************************************************************)

DbType  == [exists : BOOLEAN, schema : 0..Migrations, populated : BOOLEAN, admin : BOOLEAN]
ReqType == [pc : {"idle", "check", "create", "plan", "migrate", "admin", "drop",
                  "lookup", "kill", "reset"},
            kind : {"none", "create", "migrate"}, db : Databases \cup {"none"},
            target : 0..Migrations, at : 0..Migrations, kill : BOOLEAN]

\* Every variable has its type; no migration is applied twice.
TypeOK ==
    /\ db \in [Databases -> DbType]
    /\ session \in [Procs \X Databases -> {"closed", "plain", "timed"}]
    /\ req \in [Procs -> ReqType]
    /\ code \in 1..Migrations
    /\ answered \subseteq Databases

Complete(d) == db[d].exists /\ db[d].schema >= 1 /\ db[d].populated /\ db[d].admin

\* A tenant whose creation was answered keeps its database, its system data and its
\* administrator: no other creation, retry, failure or migration takes them away.
CreatedTenantsStay == \A d \in answered : Complete(d)

\* All or nothing: unless a call is still creating it, a database is complete or it
\* does not exist, and then the creation can be asked for again.
AllOrNothing ==
    \A d \in Databases :
      db[d].exists => Complete(d) \/ \E p \in Procs : Creating(p) /\ req[p].db = d

\* At most one call believes it creates a database: nobody drops what another made.
OneCreator == \A p, q \in Procs : Creating(p) /\ Creating(q) /\ req[p].db = req[q].db => p = q

\* The lock_timeout of a migration never goes back to the pool with its session,
\* where it would fail the queries of later requests.
TimeoutStaysOut ==
    \A p \in Procs, d \in Databases :
      session[<<p, d>>] = "timed" => req[p].pc \in {"migrate", "reset"} /\ req[p].db = d

================================================================================
