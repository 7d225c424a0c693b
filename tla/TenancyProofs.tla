-------------------------- MODULE TenancyProofs --------------------------
(***************************************************************************)
(* Proofs about TenantLifecycle and, below, TenantTasks: for any number of *)
(* threads, tenants and migrations.  In the lifecycle of a database the    *)
(* invariants are not inductive alone: a creation may drop its database    *)
(* only because nobody else has created it and nobody was answered, and    *)
(* what it saw of its database holds only as long as its session lives.    *)
(***************************************************************************)
EXTENDS TenantLifecycle, TenantTasks, SequenceTheorems, TLAPS

CreateOnly  == {"check", "create", "admin", "drop"}
MigrateOnly == {"lookup", "kill", "reset"}

\* A call that runs is on a database, with some migration to apply.
CallsAreSet ==
    \A p \in Procs :
      /\ req[p].pc # "idle" =>
           req[p].db \in Databases /\ req[p].target >= 1 /\ req[p].kind # "none"
      /\ req[p].pc \in CreateOnly => req[p].kind = "create"
      /\ req[p].pc \in MigrateOnly => req[p].kind = "migrate"

\* The database of a call that may drop it exists, and was promised to nobody.
CreatorsOwn ==
    \A p \in Procs : Creating(p) => db[req[p].db].exists /\ req[p].db \notin answered

\* What a call saw of its database stays so while its session lives.
SeenStays ==
    \A p \in Procs :
      /\ req[p].pc = "migrate" /\ Connected(p) => req[p].at <= db[req[p].db].schema
      /\ req[p].pc = "admin" /\ Connected(p) =>
           db[req[p].db].schema >= 1 /\ db[req[p].db].populated

\* Only the sessions of running migrations have a lock_timeout.
TimedByMigrations ==
    \A p \in Procs, d \in Databases :
      session[<<p, d>>] = "timed" =>
        req[p].pc \in {"migrate", "reset"} /\ req[p].db = d /\ req[p].kind = "migrate"

IInv ==
    /\ TypeOK
    /\ CallsAreSet
    /\ OneCreator
    /\ CreatorsOwn
    /\ SeenStays
    /\ CreatedTenantsStay
    /\ TimedByMigrations

--------------------------------------------------------------------------------
(***************************************************************************)
(* Types.                                                                  *)
(***************************************************************************)

\* A call that only moves on, or ends, keeps the type of req (Goto, Answer).
LEMMA MovesTyped ==
    ASSUME TypeOK, NEW p \in Procs
    PROVE  /\ Idle \in ReqType
           /\ \A pc \in {"create", "plan", "migrate", "admin", "drop", "kill", "reset"} :
                [req EXCEPT ![p] = [req[p] EXCEPT !.pc = pc]] \in [Procs -> ReqType]
           /\ [req EXCEPT ![p] = Idle] \in [Procs -> ReqType]
<1>1. Idle \in ReqType
  BY TenantAssumption DEF Idle, ReqType
<1>2. ASSUME NEW pc \in {"create", "plan", "migrate", "admin", "drop", "kill", "reset"}
      PROVE  [req EXCEPT ![p] = [req[p] EXCEPT !.pc = pc]] \in [Procs -> ReqType]
  <2>1. req[p] \in ReqType
    BY DEF TypeOK
  <2>2. [req[p] EXCEPT !.pc = pc] \in ReqType
    BY <2>1 DEF ReqType
  <2> QED
    BY <2>2 DEF TypeOK
<1> QED
  BY <1>1, <1>2 DEF TypeOK

\* Setting a flag of a database, or dropping it, keeps the type of db.
LEMMA DatabasesTyped ==
    ASSUME TypeOK, NEW d \in Databases
    PROVE  /\ [db EXCEPT ![d] = [db[d] EXCEPT !.exists = TRUE]] \in [Databases -> DbType]
           /\ [db EXCEPT ![d] = [db[d] EXCEPT !.admin = TRUE]] \in [Databases -> DbType]
           /\ [db EXCEPT ![d] = [db[d] EXCEPT !.populated = TRUE]] \in [Databases -> DbType]
           /\ [db EXCEPT ![d] = Absent] \in [Databases -> DbType]
<1>1. db[d] \in DbType
  BY DEF TypeOK
<1>2. /\ [db[d] EXCEPT !.exists = TRUE] \in DbType
      /\ [db[d] EXCEPT !.admin = TRUE] \in DbType
      /\ [db[d] EXCEPT !.populated = TRUE] \in DbType
  BY <1>1 DEF DbType
<1>3. Absent \in DbType
  BY TenantAssumption DEF Absent, DbType
<1> QED
  BY <1>2, <1>3 DEF TypeOK

\* Every step keeps the types of the five variables.
LEMMA TypeStep == IInv /\ [Next]_vars => TypeOK'
<1> SUFFICES ASSUME IInv, [Next]_vars PROVE TypeOK'
  OBVIOUS
<1>t. TypeOK /\ CallsAreSet
  BY DEF IInv
<1>0. ASSUME UNCHANGED vars PROVE TypeOK'
  BY <1>t, <1>0 DEF TypeOK, vars
<1>1. ASSUME Deploy PROVE TypeOK'
  BY <1>t, <1>1, TenantAssumption DEF TypeOK, Deploy
<1>2. ASSUME NEW p \in Procs, NEW d \in Databases, Create(p, d) PROVE TypeOK'
  <2>1. req'[p] \in ReqType /\ req' = [req EXCEPT ![p] = req'[p]]
    BY <1>t, <1>2, TenantAssumption DEF Create, ReqType, TypeOK
  <2> QED
    BY <1>t, <1>2, <2>1 DEF Create, TypeOK
<1>3. ASSUME NEW p \in Procs, NEW d \in Databases, NEW k \in BOOLEAN, Migrate(p, d, k)
      PROVE  TypeOK'
  <2>1. req'[p] \in ReqType /\ req' = [req EXCEPT ![p] = req'[p]]
    BY <1>t, <1>3, TenantAssumption DEF Migrate, ReqType, TypeOK
  <2> QED
    BY <1>t, <1>3, <2>1 DEF Migrate, TypeOK
<1>4. ASSUME NEW p \in Procs, CheckExists(p) PROVE TypeOK'
  BY <1>t, <1>4, MovesTyped DEF CheckExists, Goto, Answer, TypeOK
<1>5. ASSUME NEW p \in Procs, CreateDatabase(p) PROVE TypeOK'
  <2>1. req[p].db \in Databases
    BY <1>t, <1>5 DEF CreateDatabase, CallsAreSet
  <2> QED
    BY <1>t, <1>5, <2>1, MovesTyped, DatabasesTyped DEF CreateDatabase, Goto, Answer, TypeOK
<1>6. ASSUME NEW p \in Procs, CreateAdmin(p) PROVE TypeOK'
  <2>1. req[p].db \in Databases
    BY <1>t, <1>6 DEF CreateAdmin, CallsAreSet
  <2> QED
    BY <1>t, <1>6, <2>1, MovesTyped, DatabasesTyped DEF CreateAdmin, Answer, TypeOK
<1>7. ASSUME NEW p \in Procs, Drop(p) PROVE TypeOK'
  <2>1. req[p].db \in Databases
    BY <1>t, <1>7 DEF Drop, CallsAreSet
  <2> QED
    BY <1>t, <1>7, <2>1, MovesTyped, DatabasesTyped DEF Drop, EndSessions, Answer, TypeOK
<1>8. ASSUME NEW p \in Procs, Lookup(p) PROVE TypeOK'
  <2>1. Answer(p) \/ Goto(p, "kill") \/ Goto(p, "plan")
    BY <1>8 DEF Lookup
  <2>2. UNCHANGED <<db, session, code, answered>>
    BY <1>8 DEF Lookup
  <2>3. CASE Answer(p)
    BY <1>t, <2>2, <2>3, MovesTyped DEF Answer, TypeOK
  <2>4. CASE Goto(p, "kill")
    BY <1>t, <2>2, <2>4, MovesTyped DEF Goto, TypeOK
  <2>5. CASE Goto(p, "plan")
    BY <1>t, <2>2, <2>5, MovesTyped DEF Goto, TypeOK
  <2> QED
    BY <2>1, <2>3, <2>4, <2>5
<1>9. ASSUME NEW p \in Procs, KillConnections(p) PROVE TypeOK'
  BY <1>t, <1>9, MovesTyped DEF KillConnections, EndSessions, Goto, TypeOK
<1>10. ASSUME NEW p \in Procs, ResetTimeout(p) PROVE TypeOK'
  BY <1>t, <1>10, MovesTyped DEF ResetTimeout, Answer, TypeOK
<1>11. ASSUME NEW p \in Procs, Plan(p) PROVE TypeOK'
  <2>1. req[p].db \in Databases /\ req[p] \in ReqType
    BY <1>t, <1>11 DEF Plan, CallsAreSet, TypeOK
  <2>2. db[req[p].db].schema \in 0..Migrations
    BY <1>t, <2>1 DEF TypeOK, DbType
  <2>3. [req[p] EXCEPT !.pc = "migrate", !.at = db[req[p].db].schema] \in ReqType
    BY <2>1, <2>2 DEF ReqType
  <2> QED
    BY <1>t, <1>11, <2>3 DEF Plan, TypeOK
<1>12. ASSUME NEW p \in Procs, ApplyMigration(p) PROVE TypeOK'
  <2>1. req[p].db \in Databases /\ req[p] \in ReqType
    BY <1>t, <1>12 DEF ApplyMigration, CallsAreSet, TypeOK
  <2>2. db[req[p].db] \in DbType
    BY <1>t, <2>1 DEF TypeOK
  <2>3. req[p].at + 1 \in 0..Migrations /\ db[req[p].db].schema = req[p].at
    BY <1>12, <2>1, TenantAssumption DEF ApplyMigration, ReqType
  <2>4. [req[p] EXCEPT !.at = req[p].at + 1] \in ReqType
    BY <2>1, <2>3 DEF ReqType
  <2>5. [db[req[p].db] EXCEPT !.schema = db[req[p].db].schema + 1] \in DbType
    BY <2>2, <2>3 DEF DbType
  <2> QED
    BY <1>t, <1>12, <2>4, <2>5 DEF ApplyMigration, TypeOK
<1>13. ASSUME NEW p \in Procs, Populate(p) PROVE TypeOK'
  <2>1. req[p].db \in Databases
    BY <1>t, <1>13 DEF Populate, CallsAreSet
  <2> QED
    BY <1>t, <1>13, <2>1, MovesTyped, DatabasesTyped DEF Populate, Goto, TypeOK
<1>14. ASSUME NEW p \in Procs, Fail(p) PROVE TypeOK'
  BY <1>t, <1>14, MovesTyped DEF Fail, Goto, TypeOK
<1>15. ASSUME NEW p \in Procs, Crash(p) PROVE TypeOK'
  BY <1>t, <1>15, MovesTyped DEF Crash, Answer, TypeOK
<1> QED
  BY <1>0, <1>1, <1>2, <1>3, <1>4, <1>5, <1>6, <1>7, <1>8, <1>9, <1>10, <1>11, <1>12,
     <1>13, <1>14, <1>15 DEF Next

--------------------------------------------------------------------------------
(***************************************************************************)
(* One lemma per part of the invariant, one step per action.               *)
(***************************************************************************)

\* Every step leaves the calls on their database, in the steps of their kind.
LEMMA CallsStep == IInv /\ TypeOK' /\ Next => CallsAreSet'
<1> SUFFICES ASSUME IInv, TypeOK', Next PROVE CallsAreSet'
  OBVIOUS
<1>i. TypeOK /\ TypeOK' /\ CallsAreSet
  BY DEF IInv
<1>1. ASSUME Deploy PROVE CallsAreSet'
  BY <1>i, <1>1, TenantAssumption
  DEF Deploy, CallsAreSet,
     CreateOnly, MigrateOnly, Idle, TypeOK, DbType, ReqType
<1>2. ASSUME NEW p \in Procs, NEW d \in Databases, Create(p, d) PROVE CallsAreSet'
  BY <1>i, <1>2, TenantAssumption
  DEF Create, CallsAreSet,
     CreateOnly, MigrateOnly, Idle, TypeOK, DbType, ReqType
<1>3. ASSUME NEW p \in Procs, NEW d \in Databases, NEW k \in BOOLEAN, Migrate(p, d, k)
      PROVE  CallsAreSet'
  BY <1>i, <1>3, TenantAssumption
  DEF Migrate, CallsAreSet,
     CreateOnly, MigrateOnly, Idle, TypeOK, DbType, ReqType
<1>4. ASSUME NEW p \in Procs, CheckExists(p) PROVE CallsAreSet'
  <2>1. /\ UNCHANGED <<db, session, code, answered>>
        /\ req[p].pc = "check"
        /\ Answer(p) \/ Goto(p, "create")
    BY <1>4 DEF CheckExists
  <2>2. CASE Answer(p)
    BY <1>i, <2>1, <2>2, TenantAssumption
    DEF Answer, CallsAreSet,
     CreateOnly, MigrateOnly, Idle, TypeOK, DbType, ReqType
  <2>3. CASE Goto(p, "create")
    BY <1>i, <2>1, <2>3, TenantAssumption
    DEF Goto, CallsAreSet,
     CreateOnly, MigrateOnly, Idle, TypeOK, DbType, ReqType
  <2> QED
    BY <2>1, <2>2, <2>3
<1>5. ASSUME NEW p \in Procs, CreateDatabase(p) PROVE CallsAreSet'
  BY <1>i, <1>5, TenantAssumption
  DEF CreateDatabase, Goto, Answer, CallsAreSet,
     CreateOnly, MigrateOnly, Idle, TypeOK, DbType, ReqType
<1>6. ASSUME NEW p \in Procs, CreateAdmin(p) PROVE CallsAreSet'
  BY <1>i, <1>6, TenantAssumption
  DEF CreateAdmin, Answer, CallsAreSet,
     CreateOnly, MigrateOnly, Idle, TypeOK, DbType, ReqType
<1>7. ASSUME NEW p \in Procs, Drop(p) PROVE CallsAreSet'
  BY <1>i, <1>7, TenantAssumption
  DEF Drop, EndSessions, Answer, CallsAreSet,
     CreateOnly, MigrateOnly, Idle, TypeOK, DbType, ReqType
<1>8. ASSUME NEW p \in Procs, Lookup(p) PROVE CallsAreSet'
  BY <1>i, <1>8, TenantAssumption
  DEF Lookup, Goto, Answer, CallsAreSet,
     CreateOnly, MigrateOnly, Idle, TypeOK, DbType, ReqType
<1>9. ASSUME NEW p \in Procs, KillConnections(p) PROVE CallsAreSet'
  BY <1>i, <1>9, TenantAssumption
  DEF KillConnections, EndSessions, Goto, CallsAreSet,
     CreateOnly, MigrateOnly, Idle, TypeOK, DbType, ReqType
<1>10. ASSUME NEW p \in Procs, ResetTimeout(p) PROVE CallsAreSet'
  BY <1>i, <1>10, TenantAssumption
  DEF ResetTimeout, Answer, CallsAreSet,
     CreateOnly, MigrateOnly, Idle, TypeOK, DbType, ReqType
<1>11. ASSUME NEW p \in Procs, Plan(p) PROVE CallsAreSet'
  BY <1>i, <1>11, TenantAssumption
  DEF Plan, CallsAreSet,
     CreateOnly, MigrateOnly, Idle, TypeOK, DbType, ReqType
<1>12. ASSUME NEW p \in Procs, ApplyMigration(p) PROVE CallsAreSet'
  BY <1>i, <1>12, TenantAssumption
  DEF ApplyMigration, CallsAreSet,
     CreateOnly, MigrateOnly, Idle, TypeOK, DbType, ReqType
<1>13. ASSUME NEW p \in Procs, Populate(p) PROVE CallsAreSet'
  <2>1. CASE req[p].kind = "create"
    BY <1>i, <1>13, <2>1, TenantAssumption
    DEF Populate, Goto, CallsAreSet,
     CreateOnly, MigrateOnly, Idle, TypeOK, DbType, ReqType
  <2>2. CASE req[p].kind # "create"
    BY <1>i, <1>13, <2>2, TenantAssumption
    DEF Populate, Goto, CallsAreSet,
     CreateOnly, MigrateOnly, Idle, TypeOK, DbType, ReqType
  <2> QED
    BY <2>1, <2>2
<1>14. ASSUME NEW p \in Procs, Fail(p) PROVE CallsAreSet'
  <2>1. CASE req[p].kind = "create"
    BY <1>i, <1>14, <2>1, TenantAssumption
    DEF Fail, Goto, CallsAreSet,
     CreateOnly, MigrateOnly, Idle, TypeOK, DbType, ReqType
  <2>2. CASE req[p].kind # "create"
    BY <1>i, <1>14, <2>2, TenantAssumption
    DEF Fail, Goto, CallsAreSet,
     CreateOnly, MigrateOnly, Idle, TypeOK, DbType, ReqType
  <2> QED
    BY <2>1, <2>2
<1>15. ASSUME NEW p \in Procs, Crash(p) PROVE CallsAreSet'
  BY <1>i, <1>15, TenantAssumption
  DEF Crash, Answer, CallsAreSet,
     CreateOnly, MigrateOnly, Idle, TypeOK, DbType, ReqType
<1> QED
  BY <1>1, <1>2, <1>3, <1>4, <1>5, <1>6, <1>7, <1>8, <1>9, <1>10, <1>11,
     <1>12, <1>13, <1>14, <1>15 DEF Next

\* CREATE DATABASE gives a database one owner, and only the owner's Drop takes it away.
LEMMA OwnersStep == IInv /\ TypeOK' /\ Next => (OneCreator /\ CreatorsOwn)'
<1> SUFFICES ASSUME IInv, TypeOK', Next PROVE (OneCreator /\ CreatorsOwn)'
  OBVIOUS
<1>i. TypeOK /\ TypeOK' /\ CallsAreSet /\ OneCreator /\ CreatorsOwn /\ CreatedTenantsStay
  BY DEF IInv
<1>1. ASSUME Deploy PROVE (OneCreator /\ CreatorsOwn)'
  BY <1>i, <1>1, TenantAssumption
  DEF Deploy, CallsAreSet, OneCreator, CreatorsOwn, CreatedTenantsStay,
     Creating, Complete, Idle, CreateOnly, MigrateOnly, Absent, TypeOK, DbType, ReqType
<1>2. ASSUME NEW p \in Procs, NEW d \in Databases, Create(p, d) PROVE (OneCreator /\ CreatorsOwn)'
  BY <1>i, <1>2, TenantAssumption
  DEF Create, CallsAreSet, OneCreator, CreatorsOwn, CreatedTenantsStay,
     Creating, Complete, Idle, CreateOnly, MigrateOnly, Absent, TypeOK, DbType, ReqType
<1>3. ASSUME NEW p \in Procs, NEW d \in Databases, NEW k \in BOOLEAN, Migrate(p, d, k)
      PROVE  (OneCreator /\ CreatorsOwn)'
  BY <1>i, <1>3, TenantAssumption
  DEF Migrate, CallsAreSet, OneCreator, CreatorsOwn, CreatedTenantsStay,
     Creating, Complete, Idle, CreateOnly, MigrateOnly, Absent, TypeOK, DbType, ReqType
<1>4. ASSUME NEW p \in Procs, CheckExists(p) PROVE (OneCreator /\ CreatorsOwn)'
  <2>1. /\ UNCHANGED <<db, session, code, answered>>
        /\ req[p].pc = "check"
        /\ Answer(p) \/ Goto(p, "create")
    BY <1>4 DEF CheckExists
  <2>2. CASE Answer(p)
    BY <1>i, <2>1, <2>2, TenantAssumption
    DEF Answer, CallsAreSet, OneCreator, CreatorsOwn, CreatedTenantsStay,
     Creating, Complete, Idle, CreateOnly, MigrateOnly, Absent, TypeOK, DbType, ReqType
  <2>3. CASE Goto(p, "create")
    BY <1>i, <2>1, <2>3, TenantAssumption
    DEF Goto, CallsAreSet, OneCreator, CreatorsOwn, CreatedTenantsStay,
     Creating, Complete, Idle, CreateOnly, MigrateOnly, Absent, TypeOK, DbType, ReqType
  <2> QED
    BY <2>1, <2>2, <2>3
<1>5. ASSUME NEW p \in Procs, CreateDatabase(p) PROVE (OneCreator /\ CreatorsOwn)'
  <2>1. CASE db[req[p].db].exists
    <3>1. Answer(p) /\ UNCHANGED answered /\ \A d \in Databases : db'[d].exists <=> db[d].exists
      BY <1>i, <1>5, <2>1 DEF CreateDatabase, TypeOK, DbType
    <3> QED
      BY <1>i, <3>1 DEF Answer, CallsAreSet, OneCreator, CreatorsOwn, CreatedTenantsStay,
     Creating, Complete, Idle, CreateOnly, MigrateOnly, Absent, TypeOK, DbType, ReqType
  <2>2. CASE ~db[req[p].db].exists
    <3>1. Goto(p, "plan") /\ UNCHANGED answered /\ req[p].pc = "create"
      BY <1>5, <2>2 DEF CreateDatabase
    <3>2. \A d \in Databases : db'[d].exists <=> db[d].exists \/ d = req[p].db
      BY <1>i, <1>5, <2>2 DEF CreateDatabase, TypeOK, DbType
    <3> QED
      BY <1>i, <2>2, <3>1, <3>2 DEF Goto, CallsAreSet, OneCreator, CreatorsOwn, CreatedTenantsStay,
     Creating, Complete, Idle, CreateOnly, MigrateOnly, Absent, TypeOK, DbType, ReqType
  <2> QED
    BY <2>1, <2>2
<1>6. ASSUME NEW p \in Procs, CreateAdmin(p) PROVE (OneCreator /\ CreatorsOwn)'
  BY <1>i, <1>6, TenantAssumption
  DEF CreateAdmin, Answer, CallsAreSet, OneCreator, CreatorsOwn, CreatedTenantsStay,
     Creating, Complete, Idle, CreateOnly, MigrateOnly, Absent, TypeOK, DbType, ReqType
<1>7. ASSUME NEW p \in Procs, Drop(p) PROVE (OneCreator /\ CreatorsOwn)'
  BY <1>i, <1>7, TenantAssumption
  DEF Drop, EndSessions, Answer, CallsAreSet, OneCreator, CreatorsOwn, CreatedTenantsStay,
     Creating, Complete, Idle, CreateOnly, MigrateOnly, Absent, TypeOK, DbType, ReqType
<1>8. ASSUME NEW p \in Procs, Lookup(p) PROVE (OneCreator /\ CreatorsOwn)'
  <2>1. CASE Answer(p)
    BY <1>i, <1>8, <2>1, TenantAssumption
    DEF Lookup, Goto, Answer, CallsAreSet, OneCreator, CreatorsOwn, CreatedTenantsStay,
     Creating, Complete, Idle, CreateOnly, MigrateOnly, Absent, TypeOK, DbType, ReqType
  <2>2. CASE Goto(p, "kill")
    BY <1>i, <1>8, <2>2, TenantAssumption
    DEF Lookup, Goto, Answer, CallsAreSet, OneCreator, CreatorsOwn, CreatedTenantsStay,
     Creating, Complete, Idle, CreateOnly, MigrateOnly, Absent, TypeOK, DbType, ReqType
  <2>3. CASE Goto(p, "plan")
    BY <1>i, <1>8, <2>3, TenantAssumption
    DEF Lookup, Goto, Answer, CallsAreSet, OneCreator, CreatorsOwn, CreatedTenantsStay,
     Creating, Complete, Idle, CreateOnly, MigrateOnly, Absent, TypeOK, DbType, ReqType
  <2> QED
    BY <1>8, <2>1, <2>2, <2>3 DEF Lookup
<1>9. ASSUME NEW p \in Procs, KillConnections(p) PROVE (OneCreator /\ CreatorsOwn)'
  BY <1>i, <1>9, TenantAssumption
  DEF KillConnections, EndSessions, Goto, CallsAreSet, OneCreator, CreatorsOwn, CreatedTenantsStay,
     Creating, Complete, Idle, CreateOnly, MigrateOnly, Absent, TypeOK, DbType, ReqType
<1>10. ASSUME NEW p \in Procs, ResetTimeout(p) PROVE (OneCreator /\ CreatorsOwn)'
  BY <1>i, <1>10, TenantAssumption
  DEF ResetTimeout, Answer, CallsAreSet, OneCreator, CreatorsOwn, CreatedTenantsStay,
     Creating, Complete, Idle, CreateOnly, MigrateOnly, Absent, TypeOK, DbType, ReqType
<1>11. ASSUME NEW p \in Procs, Plan(p) PROVE (OneCreator /\ CreatorsOwn)'
  <2>1. \A q \in Procs : req'[q].db = req[q].db /\ (Creating(q)' <=> Creating(q))
    BY <1>i, <1>11 DEF Plan, Creating, TypeOK, ReqType
  <2>2. UNCHANGED <<db, answered>>
    BY <1>11 DEF Plan
  <2> QED
    BY <1>i, <2>1, <2>2 DEF OneCreator, CreatorsOwn
<1>12. ASSUME NEW p \in Procs, ApplyMigration(p) PROVE (OneCreator /\ CreatorsOwn)'
  BY <1>i, <1>12, TenantAssumption
  DEF ApplyMigration, CallsAreSet, OneCreator, CreatorsOwn, CreatedTenantsStay,
     Creating, Complete, Idle, CreateOnly, MigrateOnly, Absent, TypeOK, DbType, ReqType
<1>13. ASSUME NEW p \in Procs, Populate(p) PROVE (OneCreator /\ CreatorsOwn)'
  BY <1>i, <1>13, TenantAssumption
  DEF Populate, Goto, CallsAreSet, OneCreator, CreatorsOwn, CreatedTenantsStay,
     Creating, Complete, Idle, CreateOnly, MigrateOnly, Absent, TypeOK, DbType, ReqType
<1>14. ASSUME NEW p \in Procs, Fail(p) PROVE (OneCreator /\ CreatorsOwn)'
  BY <1>i, <1>14, TenantAssumption
  DEF Fail, Goto, CallsAreSet, OneCreator, CreatorsOwn, CreatedTenantsStay,
     Creating, Complete, Idle, CreateOnly, MigrateOnly, Absent, TypeOK, DbType, ReqType
<1>15. ASSUME NEW p \in Procs, Crash(p) PROVE (OneCreator /\ CreatorsOwn)'
  BY <1>i, <1>15, TenantAssumption
  DEF Crash, Answer, CallsAreSet, OneCreator, CreatorsOwn, CreatedTenantsStay,
     Creating, Complete, Idle, CreateOnly, MigrateOnly, Absent, TypeOK, DbType, ReqType
<1> QED
  BY <1>1, <1>2, <1>3, <1>4, <1>5, <1>6, <1>7, <1>8, <1>9, <1>10, <1>11,
     <1>12, <1>13, <1>14, <1>15 DEF Next

\* Dropping or killing ends the sessions; every other step only adds to a database.
LEMMA SeenStep == IInv /\ TypeOK' /\ Next => SeenStays'
<1> SUFFICES ASSUME IInv, TypeOK', Next PROVE SeenStays'
  OBVIOUS
<1>i. TypeOK /\ TypeOK' /\ CallsAreSet /\ SeenStays
  BY DEF IInv
<1>1. ASSUME Deploy PROVE SeenStays'
  BY <1>i, <1>1, TenantAssumption
  DEF Deploy, CallsAreSet, SeenStays,
     Connected, Idle, Absent, TypeOK, DbType, ReqType
<1>2. ASSUME NEW p \in Procs, NEW d \in Databases, Create(p, d) PROVE SeenStays'
  BY <1>i, <1>2, TenantAssumption
  DEF Create, CallsAreSet, SeenStays,
     Connected, Idle, Absent, TypeOK, DbType, ReqType
<1>3. ASSUME NEW p \in Procs, NEW d \in Databases, NEW k \in BOOLEAN, Migrate(p, d, k)
      PROVE  SeenStays'
  BY <1>i, <1>3, TenantAssumption
  DEF Migrate, CallsAreSet, SeenStays,
     Connected, Idle, Absent, TypeOK, DbType, ReqType
<1>4. ASSUME NEW p \in Procs, CheckExists(p) PROVE SeenStays'
  BY <1>i, <1>4, TenantAssumption
  DEF CheckExists, Goto, Answer, CallsAreSet, SeenStays,
     Connected, Idle, Absent, TypeOK, DbType, ReqType
<1>5. ASSUME NEW p \in Procs, CreateDatabase(p) PROVE SeenStays'
  <2>1. /\ req'[p].pc \in {"idle", "plan"}
        /\ \A q \in Procs : q # p => req'[q] = req[q]
    BY <1>i, <1>5 DEF CreateDatabase, Goto, Answer, Idle, TypeOK, ReqType
  <2>2. /\ UNCHANGED session
        /\ \A d \in Databases : /\ db'[d].schema = db[d].schema
                               /\ db'[d].populated = db[d].populated
    BY <1>i, <1>5 DEF CreateDatabase, TypeOK, DbType
  <2> QED
    BY <1>i, <2>1, <2>2 DEF CallsAreSet, SeenStays, Connected
<1>6. ASSUME NEW p \in Procs, CreateAdmin(p) PROVE SeenStays'
  BY <1>i, <1>6, TenantAssumption
  DEF CreateAdmin, Answer, CallsAreSet, SeenStays,
     Connected, Idle, Absent, TypeOK, DbType, ReqType
<1>7. ASSUME NEW p \in Procs, Drop(p) PROVE SeenStays'
  BY <1>i, <1>7, TenantAssumption
  DEF Drop, EndSessions, Answer, CallsAreSet, SeenStays,
     Connected, Idle, Absent, TypeOK, DbType, ReqType
<1>8. ASSUME NEW p \in Procs, Lookup(p) PROVE SeenStays'
  BY <1>i, <1>8, TenantAssumption
  DEF Lookup, Goto, Answer, CallsAreSet, SeenStays,
     Connected, Idle, Absent, TypeOK, DbType, ReqType
<1>9. ASSUME NEW p \in Procs, KillConnections(p) PROVE SeenStays'
  BY <1>i, <1>9, TenantAssumption
  DEF KillConnections, EndSessions, Goto, CallsAreSet, SeenStays,
     Connected, Idle, Absent, TypeOK, DbType, ReqType
<1>10. ASSUME NEW p \in Procs, ResetTimeout(p) PROVE SeenStays'
  BY <1>i, <1>10, TenantAssumption
  DEF ResetTimeout, Answer, CallsAreSet, SeenStays,
     Connected, Idle, Absent, TypeOK, DbType, ReqType
<1>11. ASSUME NEW p \in Procs, Plan(p) PROVE SeenStays'
  BY <1>i, <1>11, TenantAssumption
  DEF Plan, CallsAreSet, SeenStays,
     Connected, Idle, Absent, TypeOK, DbType, ReqType
<1>12. ASSUME NEW p \in Procs, ApplyMigration(p) PROVE SeenStays'
  BY <1>i, <1>12, TenantAssumption
  DEF ApplyMigration, CallsAreSet, SeenStays,
     Connected, Idle, Absent, TypeOK, DbType, ReqType
<1>13. ASSUME NEW p \in Procs, Populate(p) PROVE SeenStays'
  BY <1>i, <1>13, TenantAssumption
  DEF Populate, Goto, CallsAreSet, SeenStays,
     Connected, Idle, Absent, TypeOK, DbType, ReqType
<1>14. ASSUME NEW p \in Procs, Fail(p) PROVE SeenStays'
  BY <1>i, <1>14, TenantAssumption
  DEF Fail, Goto, CallsAreSet, SeenStays,
     Connected, Idle, Absent, TypeOK, DbType, ReqType
<1>15. ASSUME NEW p \in Procs, Crash(p) PROVE SeenStays'
  BY <1>i, <1>15, TenantAssumption
  DEF Crash, Answer, CallsAreSet, SeenStays,
     Connected, Idle, Absent, TypeOK, DbType, ReqType
<1> QED
  BY <1>1, <1>2, <1>3, <1>4, <1>5, <1>6, <1>7, <1>8, <1>9, <1>10, <1>11,
     <1>12, <1>13, <1>14, <1>15 DEF Next

\* What was answered is never the database of a creation, the only one that is dropped.
LEMMA CreatedStep == IInv /\ TypeOK' /\ Next => CreatedTenantsStay'
<1> SUFFICES ASSUME IInv, TypeOK', Next PROVE CreatedTenantsStay'
  OBVIOUS
<1>i. TypeOK /\ TypeOK' /\ CallsAreSet /\ CreatorsOwn /\ SeenStays /\ CreatedTenantsStay
  BY DEF IInv
<1>1. ASSUME Deploy PROVE CreatedTenantsStay'
  BY <1>i, <1>1, TenantAssumption
  DEF Deploy, CallsAreSet, CreatorsOwn, SeenStays, CreatedTenantsStay,
     Complete, Creating, Connected, CreateOnly, TypeOK, DbType, ReqType
<1>2. ASSUME NEW p \in Procs, NEW d \in Databases, Create(p, d) PROVE CreatedTenantsStay'
  BY <1>i, <1>2, TenantAssumption
  DEF Create, CallsAreSet, CreatorsOwn, SeenStays, CreatedTenantsStay,
     Complete, Creating, Connected, CreateOnly, TypeOK, DbType, ReqType
<1>3. ASSUME NEW p \in Procs, NEW d \in Databases, NEW k \in BOOLEAN, Migrate(p, d, k)
      PROVE  CreatedTenantsStay'
  BY <1>i, <1>3, TenantAssumption
  DEF Migrate, CallsAreSet, CreatorsOwn, SeenStays, CreatedTenantsStay,
     Complete, Creating, Connected, CreateOnly, TypeOK, DbType, ReqType
<1>4. ASSUME NEW p \in Procs, CheckExists(p) PROVE CreatedTenantsStay'
  BY <1>i, <1>4, TenantAssumption
  DEF CheckExists, Goto, Answer, CallsAreSet, CreatorsOwn, SeenStays, CreatedTenantsStay,
     Complete, Creating, Connected, CreateOnly, TypeOK, DbType, ReqType
<1>5. ASSUME NEW p \in Procs, CreateDatabase(p) PROVE CreatedTenantsStay'
  BY <1>i, <1>5, TenantAssumption
  DEF CreateDatabase, Goto, Answer, CallsAreSet, CreatorsOwn, SeenStays, CreatedTenantsStay,
     Complete, Creating, Connected, CreateOnly, TypeOK, DbType, ReqType
<1>6. ASSUME NEW p \in Procs, CreateAdmin(p) PROVE CreatedTenantsStay'
  BY <1>i, <1>6, TenantAssumption
  DEF CreateAdmin, Answer, CallsAreSet, CreatorsOwn, SeenStays, CreatedTenantsStay,
     Complete, Creating, Connected, CreateOnly, TypeOK, DbType, ReqType
<1>7. ASSUME NEW p \in Procs, Drop(p) PROVE CreatedTenantsStay'
  BY <1>i, <1>7, TenantAssumption
  DEF Drop, EndSessions, Answer, CallsAreSet, CreatorsOwn, SeenStays, CreatedTenantsStay,
     Complete, Creating, Connected, CreateOnly, TypeOK, DbType, ReqType
<1>8. ASSUME NEW p \in Procs, Lookup(p) PROVE CreatedTenantsStay'
  BY <1>i, <1>8, TenantAssumption
  DEF Lookup, Goto, Answer, CallsAreSet, CreatorsOwn, SeenStays, CreatedTenantsStay,
     Complete, Creating, Connected, CreateOnly, TypeOK, DbType, ReqType
<1>9. ASSUME NEW p \in Procs, KillConnections(p) PROVE CreatedTenantsStay'
  BY <1>i, <1>9, TenantAssumption
  DEF KillConnections, EndSessions, Goto, CallsAreSet, CreatorsOwn, SeenStays, CreatedTenantsStay,
     Complete, Creating, Connected, CreateOnly, TypeOK, DbType, ReqType
<1>10. ASSUME NEW p \in Procs, ResetTimeout(p) PROVE CreatedTenantsStay'
  BY <1>i, <1>10, TenantAssumption
  DEF ResetTimeout, Answer, CallsAreSet, CreatorsOwn, SeenStays, CreatedTenantsStay,
     Complete, Creating, Connected, CreateOnly, TypeOK, DbType, ReqType
<1>11. ASSUME NEW p \in Procs, Plan(p) PROVE CreatedTenantsStay'
  BY <1>i, <1>11, TenantAssumption
  DEF Plan, CallsAreSet, CreatorsOwn, SeenStays, CreatedTenantsStay,
     Complete, Creating, Connected, CreateOnly, TypeOK, DbType, ReqType
<1>12. ASSUME NEW p \in Procs, ApplyMigration(p) PROVE CreatedTenantsStay'
  BY <1>i, <1>12, TenantAssumption
  DEF ApplyMigration, CallsAreSet, CreatorsOwn, SeenStays, CreatedTenantsStay,
     Complete, Creating, Connected, CreateOnly, TypeOK, DbType, ReqType
<1>13. ASSUME NEW p \in Procs, Populate(p) PROVE CreatedTenantsStay'
  BY <1>i, <1>13, TenantAssumption
  DEF Populate, Goto, CallsAreSet, CreatorsOwn, SeenStays, CreatedTenantsStay,
     Complete, Creating, Connected, CreateOnly, TypeOK, DbType, ReqType
<1>14. ASSUME NEW p \in Procs, Fail(p) PROVE CreatedTenantsStay'
  BY <1>i, <1>14, TenantAssumption
  DEF Fail, Goto, CallsAreSet, CreatorsOwn, SeenStays, CreatedTenantsStay,
     Complete, Creating, Connected, CreateOnly, TypeOK, DbType, ReqType
<1>15. ASSUME NEW p \in Procs, Crash(p) PROVE CreatedTenantsStay'
  BY <1>i, <1>15, TenantAssumption
  DEF Crash, Answer, CallsAreSet, CreatorsOwn, SeenStays, CreatedTenantsStay,
     Complete, Creating, Connected, CreateOnly, TypeOK, DbType, ReqType
<1> QED
  BY <1>1, <1>2, <1>3, <1>4, <1>5, <1>6, <1>7, <1>8, <1>9, <1>10, <1>11,
     <1>12, <1>13, <1>14, <1>15 DEF Next

\* A lock_timeout is set by a migration and gone, with it or with its session, at its end.
LEMMA TimedStep == IInv /\ TypeOK' /\ Next => TimedByMigrations'
<1> SUFFICES ASSUME IInv, TypeOK', Next PROVE TimedByMigrations'
  OBVIOUS
<1>i. TypeOK /\ TypeOK' /\ CallsAreSet /\ TimedByMigrations
  BY DEF IInv
<1>1. ASSUME Deploy PROVE TimedByMigrations'
  BY <1>i, <1>1, TenantAssumption
  DEF Deploy, CallsAreSet, TimedByMigrations,
     Connected, Idle, MigrateOnly, CreateOnly, TypeOK, DbType, ReqType
<1>2. ASSUME NEW p \in Procs, NEW d \in Databases, Create(p, d) PROVE TimedByMigrations'
  BY <1>i, <1>2, TenantAssumption
  DEF Create, CallsAreSet, TimedByMigrations,
     Connected, Idle, MigrateOnly, CreateOnly, TypeOK, DbType, ReqType
<1>3. ASSUME NEW p \in Procs, NEW d \in Databases, NEW k \in BOOLEAN, Migrate(p, d, k)
      PROVE  TimedByMigrations'
  BY <1>i, <1>3, TenantAssumption
  DEF Migrate, CallsAreSet, TimedByMigrations,
     Connected, Idle, MigrateOnly, CreateOnly, TypeOK, DbType, ReqType
<1>4. ASSUME NEW p \in Procs, CheckExists(p) PROVE TimedByMigrations'
  BY <1>i, <1>4, TenantAssumption
  DEF CheckExists, Goto, Answer, CallsAreSet, TimedByMigrations,
     Connected, Idle, MigrateOnly, CreateOnly, TypeOK, DbType, ReqType
<1>5. ASSUME NEW p \in Procs, CreateDatabase(p) PROVE TimedByMigrations'
  BY <1>i, <1>5, TenantAssumption
  DEF CreateDatabase, Goto, Answer, CallsAreSet, TimedByMigrations,
     Connected, Idle, MigrateOnly, CreateOnly, TypeOK, DbType, ReqType
<1>6. ASSUME NEW p \in Procs, CreateAdmin(p) PROVE TimedByMigrations'
  BY <1>i, <1>6, TenantAssumption
  DEF CreateAdmin, Answer, CallsAreSet, TimedByMigrations,
     Connected, Idle, MigrateOnly, CreateOnly, TypeOK, DbType, ReqType
<1>7. ASSUME NEW p \in Procs, Drop(p) PROVE TimedByMigrations'
  BY <1>i, <1>7, TenantAssumption
  DEF Drop, EndSessions, Answer, CallsAreSet, TimedByMigrations,
     Connected, Idle, MigrateOnly, CreateOnly, TypeOK, DbType, ReqType
<1>8. ASSUME NEW p \in Procs, Lookup(p) PROVE TimedByMigrations'
  BY <1>i, <1>8, TenantAssumption
  DEF Lookup, Goto, Answer, CallsAreSet, TimedByMigrations,
     Connected, Idle, MigrateOnly, CreateOnly, TypeOK, DbType, ReqType
<1>9. ASSUME NEW p \in Procs, KillConnections(p) PROVE TimedByMigrations'
  BY <1>i, <1>9, TenantAssumption
  DEF KillConnections, EndSessions, Goto, CallsAreSet, TimedByMigrations,
     Connected, Idle, MigrateOnly, CreateOnly, TypeOK, DbType, ReqType
<1>10. ASSUME NEW p \in Procs, ResetTimeout(p) PROVE TimedByMigrations'
  BY <1>i, <1>10, TenantAssumption
  DEF ResetTimeout, Answer, CallsAreSet, TimedByMigrations,
     Connected, Idle, MigrateOnly, CreateOnly, TypeOK, DbType, ReqType
<1>11. ASSUME NEW p \in Procs, Plan(p) PROVE TimedByMigrations'
  BY <1>i, <1>11, TenantAssumption
  DEF Plan, CallsAreSet, TimedByMigrations,
     Connected, Idle, MigrateOnly, CreateOnly, TypeOK, DbType, ReqType
<1>12. ASSUME NEW p \in Procs, ApplyMigration(p) PROVE TimedByMigrations'
  BY <1>i, <1>12, TenantAssumption
  DEF ApplyMigration, CallsAreSet, TimedByMigrations,
     Connected, Idle, MigrateOnly, CreateOnly, TypeOK, DbType, ReqType
<1>13. ASSUME NEW p \in Procs, Populate(p) PROVE TimedByMigrations'
  BY <1>i, <1>13, TenantAssumption
  DEF Populate, Goto, CallsAreSet, TimedByMigrations,
     Connected, Idle, MigrateOnly, CreateOnly, TypeOK, DbType, ReqType
<1>14. ASSUME NEW p \in Procs, Fail(p) PROVE TimedByMigrations'
  BY <1>i, <1>14, TenantAssumption
  DEF Fail, Goto, CallsAreSet, TimedByMigrations,
     Connected, Idle, MigrateOnly, CreateOnly, TypeOK, DbType, ReqType
<1>15. ASSUME NEW p \in Procs, Crash(p) PROVE TimedByMigrations'
  BY <1>i, <1>15, TenantAssumption
  DEF Crash, Answer, CallsAreSet, TimedByMigrations,
     Connected, Idle, MigrateOnly, CreateOnly, TypeOK, DbType, ReqType
<1> QED
  BY <1>1, <1>2, <1>3, <1>4, <1>5, <1>6, <1>7, <1>8, <1>9, <1>10, <1>11,
     <1>12, <1>13, <1>14, <1>15 DEF Next

--------------------------------------------------------------------------------
(***************************************************************************)
(* The theorems.                                                           *)
(***************************************************************************)

\* On a server without tenant databases, the invariant holds.
LEMMA InitIInv == Init => IInv
<1> SUFFICES ASSUME Init PROVE IInv
  OBVIOUS
<1>1. TypeOK
  <2>1. Absent \in DbType /\ Idle \in ReqType
    BY TenantAssumption DEF Absent, DbType, Idle, ReqType
  <2> QED
    BY <2>1, TenantAssumption DEF Init, TypeOK
<1>2. \A p \in Procs : req[p].pc = "idle" /\ ~Creating(p)
  BY DEF Init, Idle, Creating
<1>3. \A p \in Procs, d \in Databases : session[<<p, d>>] = "closed"
  BY DEF Init
<1>4. answered = {}
  BY DEF Init
<1> QED
  BY <1>1, <1>2, <1>3, <1>4
  DEF IInv, CallsAreSet, OneCreator, CreatorsOwn, SeenStays, CreatedTenantsStay,
      TimedByMigrations, CreateOnly, MigrateOnly

\* Every step keeps the invariant.
LEMMA NextIInv == IInv /\ [Next]_vars => IInv'
<1> SUFFICES ASSUME IInv, [Next]_vars PROVE IInv'
  OBVIOUS
<1>1. TypeOK'
  BY TypeStep
<1>2. CASE Next
  BY <1>1, <1>2, CallsStep, OwnersStep, SeenStep, CreatedStep, TimedStep DEF IInv
<1>3. CASE UNCHANGED vars
  BY <1>1, <1>3
  DEF IInv, vars, CallsAreSet, OneCreator, CreatorsOwn, SeenStays, CreatedTenantsStay,
      TimedByMigrations, Creating, Connected, Complete
<1> QED
  BY <1>2, <1>3

\* The parts of the inductive invariant hold in every reachable state: creations own the
\* databases they may drop, and a call trusts what it saw only while its session lives.
THEOREM Invariance == Spec => []IInv
  BY InitIInv, NextIInv, PTL DEF Spec

\* Every variable keeps its type: in particular no migration is applied twice to a
\* database, whatever calls of tenant-create and tenant-migrate run at the same time.
THEOREM TypeCorrect == Spec => []TypeOK
<1>1. IInv => TypeOK
  BY DEF IInv
<1> QED
  BY <1>1, Invariance, PTL

\* A tenant whose creation was answered keeps its database, its system data and its
\* administrator: no failing call of TenantService drops a database it did not create.
THEOREM TenantsStay == Spec => []CreatedTenantsStay
<1>1. IInv => CreatedTenantsStay
  BY DEF IInv
<1> QED
  BY <1>1, Invariance, PTL

\* The lock_timeout that _migrate sets never stays on a session without a migration.
THEOREM NoTimeoutInPool == Spec => []TimeoutStaysOut
<1>1. IInv => TimeoutStaysOut
  BY DEF IInv, TimedByMigrations, TimeoutStaysOut
<1> QED
  BY <1>1, Invariance, PTL

\* A step that takes nothing from a database, brings no new one, and leaves the creations
\* on theirs.
KeepsCreations ==
    /\ \A d \in Databases : db'[d].exists => db[d].exists
    /\ \A d \in Databases : Complete(d) => Complete(d)'
    /\ \A q \in Procs : Creating(q) => Creating(q)' /\ req'[q].db = req[q].db

\* Such a step keeps AllOrNothing.
LEMMA KeepsAllOrNothing == AllOrNothing /\ KeepsCreations => AllOrNothing'
  BY DEF AllOrNothing, KeepsCreations

\* A failed creation is dropped before it is answered: without a crash of the worker, a
\* database is complete or a creation is at work on it.
LEMMA AllOrNothingStep ==
    ASSUME Crashes = FALSE, IInv, IInv', AllOrNothing, Next
    PROVE  AllOrNothing'
<1>i. /\ TypeOK /\ TypeOK' /\ CallsAreSet /\ CreatorsOwn /\ OneCreator /\ SeenStays
      /\ \A p \in Procs : req[p].pc = "idle" => ~Creating(p)
  BY DEF IInv, Creating
<1>1. ASSUME Deploy PROVE KeepsCreations
  BY <1>i, <1>1 DEF Deploy, KeepsCreations, Complete, Creating
<1>2. ASSUME NEW p \in Procs, NEW d \in Databases, Create(p, d) PROVE KeepsCreations
  BY <1>i, <1>2 DEF Create, KeepsCreations, Complete, Creating, TypeOK
<1>3. ASSUME NEW p \in Procs, NEW d \in Databases, NEW k \in BOOLEAN, Migrate(p, d, k)
      PROVE  KeepsCreations
  BY <1>i, <1>3 DEF Migrate, KeepsCreations, Complete, Creating, TypeOK
<1>4. ASSUME NEW p \in Procs, CheckExists(p) PROVE KeepsCreations
  BY <1>i, <1>4 DEF CheckExists, Goto, Answer, KeepsCreations, Complete, Creating, CallsAreSet,
     CreateOnly, MigrateOnly, TypeOK, DbType, ReqType
<1>5. ASSUME NEW p \in Procs, Lookup(p) PROVE KeepsCreations
  BY <1>i, <1>5 DEF Lookup, Goto, Answer, KeepsCreations, Complete, Creating, CallsAreSet,
     CreateOnly, MigrateOnly, TypeOK, DbType, ReqType
<1>6. ASSUME NEW p \in Procs, KillConnections(p) PROVE KeepsCreations
  BY <1>i, <1>6 DEF KillConnections, Goto, KeepsCreations, Complete, Creating, CallsAreSet,
     CreateOnly, MigrateOnly, TypeOK, DbType, ReqType
<1>7. ASSUME NEW p \in Procs, ResetTimeout(p) PROVE KeepsCreations
  BY <1>i, <1>7 DEF ResetTimeout, Answer, KeepsCreations, Complete, Creating, CallsAreSet,
     CreateOnly, MigrateOnly, TypeOK, DbType, ReqType
<1>8. ASSUME NEW p \in Procs, Plan(p) PROVE KeepsCreations
  BY <1>i, <1>8 DEF Plan, KeepsCreations, Complete, Creating, CallsAreSet,
     CreateOnly, MigrateOnly, TypeOK, DbType, ReqType
<1>9. ASSUME NEW p \in Procs, ApplyMigration(p) PROVE KeepsCreations
  BY <1>i, <1>9 DEF ApplyMigration, KeepsCreations, Complete, Creating, CallsAreSet,
     CreateOnly, MigrateOnly, TypeOK, DbType, ReqType
<1>10. ASSUME NEW p \in Procs, Populate(p) PROVE KeepsCreations
  BY <1>i, <1>10 DEF Populate, Goto, KeepsCreations, Complete, Creating, CallsAreSet,
     CreateOnly, MigrateOnly, TypeOK, DbType, ReqType
<1>11. ASSUME NEW p \in Procs, Fail(p) PROVE KeepsCreations
  BY <1>i, <1>11 DEF Fail, Goto, KeepsCreations, Complete, Creating, CallsAreSet,
     CreateOnly, MigrateOnly, TypeOK, DbType, ReqType
<1>12. ASSUME NEW p \in Procs, Crash(p) PROVE KeepsCreations
  BY <1>i, <1>12 DEF Crash, Answer, KeepsCreations, Complete, Creating, CallsAreSet,
     CreateOnly, MigrateOnly, TypeOK, DbType, ReqType
<1>13. ASSUME NEW p \in Procs, CreateDatabase(p) PROVE AllOrNothing'
  <2>1. CASE db[req[p].db].exists
    <3>1. KeepsCreations
      BY <1>i, <1>13, <2>1
      DEF CreateDatabase, Answer, KeepsCreations, Complete, Creating, TypeOK, DbType, ReqType
    <3> QED
      BY <3>1, KeepsAllOrNothing
  <2>2. CASE ~db[req[p].db].exists
    <3>1. Creating(p)' /\ req'[p].db = req[p].db
      BY <1>i, <1>13, <2>2
      DEF CreateDatabase, Goto, Creating, CallsAreSet, CreateOnly, TypeOK, ReqType
    <3>2. \A d \in Databases : d # req[p].db => db'[d] = db[d]
      BY <1>i, <1>13 DEF CreateDatabase, TypeOK
    <3>3. \A q \in Procs : q # p => req'[q] = req[q]
      BY <1>i, <1>13, <2>2 DEF CreateDatabase, Goto, TypeOK
    <3>4. ~Creating(p)
      BY <1>13 DEF CreateDatabase, Creating
    <3> QED
      BY <3>1, <3>2, <3>3, <3>4 DEF AllOrNothing, Complete, Creating
  <2> QED
    BY <2>1, <2>2
<1>14. ASSUME NEW p \in Procs, CreateAdmin(p) PROVE AllOrNothing'
  <2>1. req[p].db \in Databases /\ Creating(p)
    BY <1>i, <1>14 DEF CreateAdmin, Creating, CallsAreSet, CreateOnly
  <2>2. PICK e \in Databases : e = req[p].db
    BY <2>1
  <2>3. Complete(e)'
    BY <1>i, <1>14, <2>1, <2>2
    DEF CreateAdmin, Complete, CreatorsOwn, SeenStays, TypeOK, DbType
  <2>4. \A d \in Databases : d # e => db'[d] = db[d]
    BY <1>i, <1>14, <2>2 DEF CreateAdmin, TypeOK
  <2>5. \A q \in Procs : q # p => req'[q] = req[q]
    BY <1>i, <1>14 DEF CreateAdmin, Answer, TypeOK
  <2> QED
    BY <2>2, <2>4, <2>5, <2>3 DEF AllOrNothing, Complete, Creating
<1>15. ASSUME NEW p \in Procs, Drop(p) PROVE AllOrNothing'
  <2>1. req[p].db \in Databases
    BY <1>i, <1>15 DEF Drop, CallsAreSet
  <2>2. ~db'[req[p].db].exists
    BY <1>i, <1>15, <2>1 DEF Drop, Absent, TypeOK
  <2>3. \A d \in Databases : d # req[p].db => db'[d] = db[d]
    BY <1>i, <1>15 DEF Drop, TypeOK
  <2>4. \A q \in Procs : q # p => req'[q] = req[q]
    BY <1>i, <1>15 DEF Drop, Answer, TypeOK
  <2> QED
    BY <2>1, <2>2, <2>3, <2>4 DEF AllOrNothing, Complete, Creating
<1> QED
  BY <1>1, <1>2, <1>3, <1>4, <1>5, <1>6, <1>7, <1>8, <1>9, <1>10, <1>11, <1>12, <1>13,
     <1>14, <1>15, KeepsAllOrNothing DEF Next

\* TenantService.create is all or nothing, as its docstring says, as long as no worker dies
\* between CREATE DATABASE and its answer.
THEOREM CreationAllOrNothing ==
    ASSUME Crashes = FALSE
    PROVE  Spec => []AllOrNothing
<1>1. Init => AllOrNothing
  BY DEF Init, AllOrNothing, Absent
<1>2. IInv /\ IInv' /\ AllOrNothing /\ [Next]_vars => AllOrNothing'
  <2>1. UNCHANGED vars /\ AllOrNothing => AllOrNothing'
    BY DEF vars, AllOrNothing, Complete, Creating
  <2> QED
    BY <2>1, AllOrNothingStep
<1> QED
  BY <1>1, <1>2, Invariance, PTL DEF Spec

--------------------------------------------------------------------------------
(***************************************************************************)
(* The background tasks of the tenants (TenantTasks).                      *)
(***************************************************************************)

\* A message says the database its sender meant, so it always has one.
QueueInv == \A m \in queue : m.db = m.meant /\ m.meant \in TaskDatabases

\* What beat has still to remove is scheduled, what it has still to add is not.
TodoInv ==
    /\ beat.pc = "remove" => beat.todo \subseteq schedulers
    /\ beat.pc = "add" => beat.todo \cap schedulers = {}

\* Between two calls beat has nothing selected.  In a call the tenant of the
\* scheduler is selected, and what each block restores is what the one around it set.
SelectedInv ==
    /\ beat.job = None => selected = None /\ tokens = <<>> /\ beat.at = "none"
    /\ beat.job # None =>
         /\ selected = beat.job
         /\ tokens = IF beat.at = "save" /\ beat.pc \in {"remove", "tick"}
                     THEN <<None, beat.job>> ELSE <<None>>

\* Where beat is in a call, and the exit hook of the scheduler it calls: one that
\* is removed or not yet added is not among the schedulers.
CallInv ==
    beat.job # None =>
      /\ beat.job \in Tenants /\ beat.job \notin beat.todo
      /\ \/ beat.pc \in {"remove", "tick"} /\ beat.at \in {"body", "save", "done", "raised"}
         \/ beat.pc = "add" /\ beat.at = "body"
         \/ beat.pc \in {"close", "exit"} /\ beat.at = "save"
      /\ beat.pc \in {"remove", "add"} => beat.job \notin schedulers
      /\ hooks[beat.job] = IF beat.pc = "remove" \/ beat.job \in schedulers THEN 1 ELSE 0

TasksShape ==
    /\ active \subseteq Tenants /\ schedulers \subseteq Tenants
    /\ beat \in [pc : {"boot", "idle", "remove", "add", "tick", "close", "exit"},
                 names : SUBSET Tenants, todo : SUBSET Tenants, job : Tenants \cup {None},
                 at : {"none", "body", "save", "done", "raised"}]
    /\ hooks \in [Tenants -> 0..1]

BeatInv == TodoInv /\ SelectedInv /\ CallInv /\ TasksShape /\ HooksFollowSchedulers

TasksInv == strays = {} /\ QueueInv /\ BeatInv

LEMMA SentHome ==
    ASSUME NEW h \in Tenants \cup {None}, NEW c \in TaskDatabases, NEW w \in TaskDatabases,
           w = Current(c)
    PROVE  Sent(h, c, w).db = Sent(h, c, w).meant /\ Sent(h, c, w).meant \in TaskDatabases
  BY TasksAssumption DEF Sent, Stamped, Current, TaskDatabases

\* Entering and leaving the blocks of a call.
LEMMA EnterOuter ==
    ASSUME SelectedInv, beat.job = None, NEW d, in_database(d)
    PROVE  selected' = d /\ tokens' = <<None>>
  BY DEF SelectedInv, in_database

LEMMA EnterInner ==
    ASSUME NEW d \in Tenants, selected = d, tokens = <<None>>, in_database(d)
    PROVE  selected' = d /\ tokens' = <<None, d>>
<1>1. tokens' = Append(<<None>>, d) /\ selected' = d
  BY DEF in_database
<1>2. Append(<<None>>, d) = <<None, d>>
  <2> DEFINE S == Tenants \cup {None}
             s == Append(<<None>>, d)
             t == <<None, d>>
  <2>1. <<None>> \in Seq(S) /\ d \in S
    OBVIOUS
  <2>2. Append(<<None>>, d) \in Seq(S) /\ Len(Append(<<None>>, d)) = 2
        /\ Append(<<None>>, d)[1] = None /\ Append(<<None>>, d)[2] = d
    BY <2>1
  <2>3. <<None, d>> \in Seq(S) /\ Len(<<None, d>>) = 2
    OBVIOUS
  <2>4. s \in Seq(S) /\ t \in Seq(S) /\ Len(s) = Len(t) /\ \A i \in 1..Len(s) : s[i] = t[i]
    BY <2>2, <2>3
  <2> HIDE DEF S, s, t
  <2>5. s = t
    BY <2>4, SeqEqual
  <2> USE DEF s, t
  <2>6. QED BY <2>5
<1>3. QED BY <1>1, <1>2

LEMMA LeaveOuter ==
    ASSUME tokens = <<None>>, LeaveBlock
    PROVE  selected' = None /\ tokens' = <<>>
<1>1. <<None>> \in Seq({None}) /\ Len(<<None>>) = 1
  OBVIOUS
<1>2. selected' = None /\ tokens' = SubSeq(<<None>>, 1, 0)
  BY <1>1 DEF LeaveBlock
<1>3. SubSeq(<<None>>, 1, 0) = <<>>
  BY <1>1
<1>4. QED BY <1>2, <1>3

LEMMA LeaveInner ==
    ASSUME NEW d, tokens = <<None, d>>, LeaveBlock
    PROVE  selected' = d /\ tokens' = <<None>>
<1>1. Len(<<None, d>>) = 2 /\ <<None, d>>[2] = d
  OBVIOUS
<1>2. selected' = d /\ tokens' = SubSeq(<<None, d>>, 1, 1)
  BY <1>1 DEF LeaveBlock
<1>3. SubSeq(<<None, d>>, 1, 1) = <<None>>
  <2> DEFINE S == {None}
             s == SubSeq(<<None, d>>, 1, 1)
             t == <<None>>
  <2>1. \A i \in 1..1 : <<None, d>>[i] \in S
    OBVIOUS
  <2>2. s \in Seq(S) /\ Len(s) = 1 /\ s[1] = None
    BY <2>1, SubSeqProperties
  <2>3. t \in Seq(S) /\ Len(t) = 1 /\ t[1] = None
    OBVIOUS
  <2>4. Len(s) = Len(t) /\ \A i \in 1..Len(s) : s[i] = t[i]
    BY <2>2, <2>3
  <2> HIDE DEF S, s, t
  <2>5. s = t
    BY <2>2, <2>3, <2>4, SeqEqual
  <2> USE DEF s, t
  <2>6. QED BY <2>5
<1>4. QED BY <1>2, <1>3

LEMMA TasksStart == TasksInit => TasksInv
  BY DEF TasksInit, At, TasksInv, BeatInv, QueueInv, TodoInv, SelectedInv, CallInv, TasksShape,
     HooksFollowSchedulers

\* The steps between two calls: what beat has to do next is a set of tenants.
LEMMA BetweenKeeps ==
    ASSUME TasksInv, beat.job = None,
           NEW pc \in {"boot", "idle", "remove", "add", "tick", "close", "exit"},
           NEW names \in SUBSET Tenants, NEW todo \in SUBSET Tenants,
           beat' = At(pc, names, todo), pc = "remove" => todo \subseteq schedulers,
           pc = "add" => todo \cap schedulers = {},
           UNCHANGED <<active, schedulers, hooks, selected, tokens, queue, strays>>
    PROVE  TasksInv'
<1>1. beat'.pc = pc /\ beat'.names = names /\ beat'.todo = todo /\ beat'.job = None
      /\ beat'.at = "none"
  BY DEF At
<1>2. TodoInv' /\ SelectedInv' /\ CallInv'
  BY <1>1 DEF TasksInv, BeatInv, TodoInv, SelectedInv, CallInv
<1>3. TasksShape'
  BY <1>1 DEF TasksInv, BeatInv, TasksShape, At
<1>4. HooksFollowSchedulers'
  BY <1>1 DEF TasksInv, BeatInv, HooksFollowSchedulers
<1>5. QED BY <1>2, <1>3, <1>4 DEF TasksInv, BeatInv, QueueInv

\* Beat calls a scheduler: the tenant is selected, over nothing.
LEMMA CallKeeps ==
    ASSUME TasksInv, beat.job = None, NEW d \in beat.todo, NEW at \in {"body", "save"},
           beat.pc \in {"remove", "tick"} \/ (beat.pc = "add" /\ at = "body")
             \/ (beat.pc \in {"close", "exit"} /\ at = "save"),
           beat.pc \in {"remove", "tick"} => at = "body",
           in_database(d), Calls(d, at), UNCHANGED <<active, hooks, queue, strays>>,
           schedulers' = IF beat.pc = "remove" THEN schedulers \ {d} ELSE schedulers
    PROVE  TasksInv'
<1>1. d \in Tenants /\ d # None
  BY TasksAssumption DEF TasksInv, BeatInv, TasksShape
<1>2. selected' = d /\ tokens' = <<None>>
  BY EnterOuter DEF TasksInv, BeatInv
<1>3. beat'.pc = beat.pc /\ beat'.names = beat.names /\ beat'.todo = beat.todo \ {d}
      /\ beat'.job = d /\ beat'.at = at
  BY DEF Calls, TasksInv, BeatInv, TasksShape
<1>4. TasksShape'
  BY <1>1 DEF Calls, TasksInv, BeatInv, TasksShape
<1>5. hooks[d] = IF d \in schedulers THEN 1 ELSE 0
  BY <1>1 DEF TasksInv, BeatInv, HooksFollowSchedulers
<1>6. TodoInv'
  BY <1>3 DEF TasksInv, BeatInv, TodoInv
<1>7. SelectedInv'
  BY <1>1, <1>2, <1>3 DEF SelectedInv
<1>8. CallInv'
  BY <1>1, <1>3, <1>5 DEF TasksInv, BeatInv, TodoInv, CallInv
<1>9. HooksFollowSchedulers'
  BY <1>1, <1>3, TasksAssumption DEF TasksInv, BeatInv, HooksFollowSchedulers
<1>10. QED BY <1>4, <1>6, <1>7, <1>8, <1>9 DEF TasksInv, BeatInv, QueueInv

\* A step inside a call: the blocks are as the place in the call says.
LEMMA InsideKeeps ==
    ASSUME TasksInv, beat.job # None, NEW at \in {"body", "save", "done", "raised"},
           beat' = [beat EXCEPT !.at = at], selected' = selected,
           tokens' = IF at = "save" THEN <<None, beat.job>> ELSE <<None>>,
           beat.pc \in {"remove", "tick"}, QueueInv', strays' = {},
           UNCHANGED <<active, schedulers, hooks>>
    PROVE  TasksInv'
<1>1. beat'.pc = beat.pc /\ beat'.names = beat.names /\ beat'.todo = beat.todo
      /\ beat'.job = beat.job /\ beat'.at = at
  BY DEF TasksInv, BeatInv, TasksShape
<1>2. TasksShape'
  BY DEF TasksInv, BeatInv, TasksShape
<1>3. TodoInv' /\ HooksFollowSchedulers'
  BY <1>1 DEF TasksInv, BeatInv, TodoInv, HooksFollowSchedulers
<1>4. SelectedInv'
  BY <1>1 DEF TasksInv, BeatInv, SelectedInv
<1>5. CallInv'
  BY <1>1 DEF TasksInv, BeatInv, CallInv
<1>6. QED BY <1>2, <1>3, <1>4, <1>5 DEF TasksInv, BeatInv

\* A call ends: its block is left, and the hook of its scheduler is as it should be.
LEMMA ReturnKeeps ==
    ASSUME TasksInv, beat.job # None, tokens = <<None>>, LeaveBlock,
           NEW todo \in SUBSET beat.todo, Returns(todo),
           active' = active, schedulers' \in {schedulers, schedulers \cup {beat.job}},
           beat.pc = "remove" => schedulers' = schedulers,
           NEW n \in 0..1, hooks' = [hooks EXCEPT ![beat.job] = n],
           n = IF beat.job \in schedulers' THEN 1 ELSE 0,
           QueueInv', strays' = {}
    PROVE  TasksInv'
<1>1. beat'.pc = beat.pc /\ beat'.names = beat.names /\ beat'.todo = todo
      /\ beat'.job = None /\ beat'.at = "none"
  BY DEF TasksInv, BeatInv, TasksShape, Returns
<1>2. beat.job \in Tenants /\ beat.job \notin todo
  BY DEF TasksInv, BeatInv, CallInv
<1>3. TasksShape'
  BY <1>2 DEF TasksInv, BeatInv, TasksShape, Returns
<1>4. TodoInv'
  BY <1>1, <1>2 DEF TasksInv, BeatInv, TodoInv
<1>5. SelectedInv' /\ CallInv'
  BY <1>1, LeaveOuter DEF SelectedInv, CallInv
<1>6. HooksFollowSchedulers'
  <2> SUFFICES ASSUME NEW d \in Tenants
               PROVE  hooks'[d] = IF d \in schedulers' THEN 1 ELSE 0
    BY DEF HooksFollowSchedulers
  <2>1. CASE d = beat.job
    BY <2>1, <1>2 DEF TasksInv, BeatInv, TasksShape
  <2>2. CASE d # beat.job
    BY <2>2, <1>2 DEF TasksInv, BeatInv, TasksShape, HooksFollowSchedulers
  <2>3. QED BY <2>1, <2>2
<1>7. QED BY <1>3, <1>4, <1>5, <1>6 DEF TasksInv, BeatInv

\* The hook of a scheduler that only ticks or saves does not change.
LEMMA HookStays ==
    ASSUME TasksInv, beat.job # None, beat.pc # "remove"
    PROVE  /\ hooks = [hooks EXCEPT ![beat.job] = hooks[beat.job]]
           /\ hooks[beat.job] \in 0..1
           /\ hooks[beat.job] = IF beat.job \in schedulers THEN 1 ELSE 0
  BY DEF TasksInv, BeatInv, TasksShape, CallInv

\* The steps of beat between two calls, and the calls.
LEMMA LoopKeeps ==
    ASSUME TasksInv,
           \/ RefreshStart \/ RemoveDone \/ AddDone \/ TickStart \/ TickDone \/ CloseDone
           \/ \E d \in Tenants : RemoveOne(d) \/ AddOne(d) \/ TickOne(d) \/ CloseOne(d) \/ ExitHook(d)
    PROVE  TasksInv'
<1> USE DEF catalog, context
<1>a. active \subseteq Tenants /\ schedulers \subseteq Tenants /\ beat.names \subseteq Tenants
  BY DEF TasksInv, BeatInv, TasksShape
<1>b. beat.pc \in {"boot", "idle"} => beat.job = None
  BY DEF TasksInv, BeatInv, CallInv
<1>1. CASE RefreshStart
  <2>1. CASE beat' = At("remove", active, schedulers \ active)
    BY <1>1, <2>1, <1>a, <1>b, BetweenKeeps DEF RefreshStart
  <2>2. CASE beat' = At("tick", {}, schedulers)
    BY <1>1, <2>2, <1>a, <1>b, BetweenKeeps DEF RefreshStart
  <2>3. QED BY <1>1, <2>1, <2>2 DEF RefreshStart
<1>2. CASE RemoveDone
  BY <1>2, <1>a, BetweenKeeps DEF RemoveDone
<1>3. CASE AddDone
  BY <1>3, <1>a, BetweenKeeps DEF AddDone
<1>4. CASE TickStart
  BY <1>4, <1>a, <1>b, BetweenKeeps DEF TickStart
<1>5. CASE TickDone
  BY <1>5, BetweenKeeps DEF TickDone
<1>6. CASE CloseDone
  BY <1>6, BetweenKeeps DEF CloseDone
<1>7. ASSUME NEW d \in Tenants, RemoveOne(d)
      PROVE  TasksInv'
  BY <1>7, CallKeeps DEF RemoveOne
<1>8. ASSUME NEW d \in Tenants, AddOne(d)
      PROVE  TasksInv'
  BY <1>8, CallKeeps DEF AddOne
<1>9. ASSUME NEW d \in Tenants, TickOne(d)
      PROVE  TasksInv'
  BY <1>9, CallKeeps DEF TickOne
<1>10. ASSUME NEW d \in Tenants, CloseOne(d)
       PROVE  TasksInv'
  BY <1>10, CallKeeps DEF CloseOne, sync
<1>11. ASSUME NEW d \in Tenants, ExitHook(d)
       PROVE  TasksInv'
  BY <1>11, CallKeeps DEF ExitHook, sync
<1>12. QED
  BY <1>1, <1>2, <1>3, <1>4, <1>5, <1>6, <1>7, <1>8, <1>9, <1>10, <1>11

\* The steps inside a call.
LEMMA BodyKeeps ==
    ASSUME TasksInv,
           SyncInside \/ Save \/ RemoveReturns \/ ReadSchedule \/ SendDue \/ TickFails
    PROVE  TasksInv'
<1> USE DEF catalog, context
<1>a. beat.at # "none" /\ beat.job # None /\ selected = beat.job /\ beat.job \in Tenants
  BY DEF TasksInv, BeatInv, SelectedInv, CallInv, SyncInside, Save, RemoveReturns, ReadSchedule,
     SendDue, TickFails
<1>b. beat.at # "save" \/ beat.pc \in {"close", "exit"} => tokens = <<None>>
  BY <1>a DEF TasksInv, BeatInv, SelectedInv
<1>c. Current(selected) = beat.job
  BY <1>a DEF Current
<1>d. queue' = queue => QueueInv'
  BY DEF TasksInv, QueueInv
<1>e. beat.todo \subseteq Tenants /\ hooks \in [Tenants -> 0..1]
  BY DEF TasksInv, BeatInv, TasksShape
<1>1. CASE SyncInside
  <2>1. selected' = beat.job /\ tokens' = <<None, beat.job>>
    BY <1>1, <1>a, <1>b, EnterInner DEF SyncInside, sync
  <2>2. QED BY <1>1, <1>a, <1>d, <2>1, InsideKeeps DEF SyncInside, TasksInv
<1>2. CASE Save
  <2>1. strays' = {}
    BY <1>2, <1>c DEF Save, Stray, TasksInv
  <2>2. CASE beat.pc \in {"close", "exit"}
    <3>1. Returns(beat.todo) /\ tokens = <<None>> /\ LeaveBlock /\ beat.pc # "remove"
      BY <1>2, <2>2, <1>b DEF Save
    <3>2. QED
      BY <1>2, <1>a, <1>d, <2>1, <3>1, HookStays, ReturnKeeps DEF Save
  <2>3. CASE beat.pc \in {"remove", "tick"}
    <3>1. tokens = <<None, beat.job>> /\ LeaveBlock
      BY <1>2, <1>a, <2>3 DEF Save, TasksInv, BeatInv, SelectedInv
    <3>2. selected' = selected /\ tokens' = <<None>>
      BY <3>1, <1>a, LeaveInner
    <3>3. beat' = [beat EXCEPT !.at = "done"] \/ beat' = [beat EXCEPT !.at = "raised"]
      BY <1>2, <2>3 DEF Save
    <3>4. QED
      BY <1>2, <1>a, <1>d, <2>1, <2>3, <3>2, <3>3, InsideKeeps DEF Save
  <2>4. QED BY <1>2, <2>2, <2>3 DEF Save
<1>3. CASE RemoveReturns
  <2>1. hooks[beat.job] = 1 /\ beat.job \notin schedulers
    BY <1>3, <1>a DEF RemoveReturns, TasksInv, BeatInv, CallInv
  <2>2. hooks' = [hooks EXCEPT ![beat.job] = 0]
    BY <1>3, <1>a, <1>e, <2>1 DEF RemoveReturns, HookCancelled
  <2>3. tokens = <<None>> /\ LeaveBlock /\ Returns(beat.todo)
        /\ UNCHANGED <<active, schedulers, queue, strays>>
    BY <1>3, <1>b DEF RemoveReturns
  <2>4. strays' = {} /\ QueueInv'
    BY <1>d, <2>3 DEF TasksInv
  <2>5. QED
    BY <1>a, <2>1, <2>2, <2>3, <2>4, ReturnKeeps
<1>4. CASE ReadSchedule
  <2>1. tokens = <<None>> /\ beat.pc = "add" /\ LeaveBlock /\ Returns(beat.todo)
        /\ active' = active /\ QueueInv' /\ strays' = {}
    BY <1>4, <1>b, <1>d DEF ReadSchedule, TasksInv
  <2>2. hooks[beat.job] = 0 /\ beat.job \notin schedulers
    BY <1>a, <2>1 DEF TasksInv, BeatInv, CallInv
  <2>3. CASE Reachable
    <3>1. hooks' = [hooks EXCEPT ![beat.job] = 1] /\ schedulers' = schedulers \cup {beat.job}
      BY <1>4, <1>a, <1>e, <2>2, <2>3 DEF ReadSchedule
    <3>2. QED BY <1>a, <2>1, <2>2, <3>1, ReturnKeeps
  <2>4. CASE ~Reachable
    <3>1. hooks' = hooks /\ schedulers' = schedulers
      BY <1>4, <2>4 DEF ReadSchedule
    <3>2. QED BY <1>a, <2>1, <3>1, HookStays, ReturnKeeps
  <2>5. QED BY <2>3, <2>4
<1>5. CASE SendDue
  <2>1. tokens = <<None>> /\ beat.pc = "tick" /\ LeaveBlock /\ Returns(beat.todo)
        /\ UNCHANGED <<active, schedulers, hooks, strays>>
    BY <1>5, <1>b DEF SendDue
  <2>2. QueueInv'
    <3>1. queue' \subseteq queue \cup {Sent(None, beat.job, beat.job)}
      BY <1>5, <1>a DEF SendDue
    <3>2. QED BY <3>1, <1>a, <1>c, SentHome DEF TasksInv, QueueInv, TaskDatabases
  <2>3. QED
    BY <1>a, <2>1, <2>2, HookStays, ReturnKeeps DEF TasksInv
<1>6. CASE TickFails
  <2>1. tokens = <<None>> /\ beat.pc = "tick" /\ LeaveBlock /\ Returns(beat.todo)
        /\ UNCHANGED <<active, schedulers, hooks, strays, queue>>
    BY <1>6, <1>b DEF TickFails, AfterFailedTick
  <2>2. QED
    BY <1>a, <1>d, <2>1, HookStays, ReturnKeeps DEF TasksInv
<1>7. QED BY <1>1, <1>2, <1>3, <1>4, <1>5, <1>6

\* Beat starts again from nothing.
LEMMA RestartKeeps ==
    ASSUME TasksInv, Restarted, UNCHANGED <<active, queue, strays>>
    PROVE  TasksInv'
  BY DEF Restarted, At, TasksInv, BeatInv, QueueInv, TodoInv, SelectedInv, CallInv, TasksShape,
     HooksFollowSchedulers

LEMMA BeatSame ==
    ASSUME BeatInv, UNCHANGED beatState, active' \subseteq Tenants
    PROVE  BeatInv'
  BY DEF BeatInv, TodoInv, SelectedInv, CallInv, TasksShape, HooksFollowSchedulers, beatState,
     context

LEMMA TaskKeeps ==
    ASSUME TasksInv, NEW m \in queue, NEW h \in Tenants \cup {None, NoTask}, NEW lost \in BOOLEAN,
           RunTask(m, h, lost)
    PROVE  TasksInv'
<1>1. m.db = m.meant /\ m.meant \in TaskDatabases /\ m.db # None
  BY TasksAssumption DEF TasksInv, QueueInv, TaskDatabases
<1>2. TaskContext(m, None) = m.db /\ Current(m.db) = m.meant
  BY <1>1 DEF TaskContext, Current
<1>3. strays' = {}
  BY <1>2 DEF RunTask, Stray, TasksInv
<1>4. QueueInv'
  <2>1. queue' \subseteq queue
        \/ (h # NoTask /\ queue' \subseteq queue \cup {Sent(h, m.db, m.meant)})
    BY <1>2 DEF RunTask
  <2>2. QED BY <1>1, <1>2, <2>1, SentHome DEF QueueInv, TasksInv
<1>5. UNCHANGED <<catalog, beatState>>
  BY DEF RunTask
<1>6. QED BY <1>3, <1>4, <1>5, BeatSame DEF TasksInv, BeatInv, TasksShape, catalog

LEMMA TasksInductive == TasksInv /\ [TasksNext]_tasksVars => TasksInv'
<1> SUFFICES ASSUME TasksInv, [TasksNext]_tasksVars PROVE TasksInv'
  OBVIOUS
<1>a. active \subseteq Tenants /\ schedulers \subseteq Tenants
  BY DEF TasksInv, BeatInv, TasksShape
<1>1. CASE Environment
  <2>1. active' \subseteq Tenants
    BY <1>1, <1>a DEF Environment, TenantAdded, TenantRemoved, DatabaseChanges, CatalogChanges
  <2>2. QED BY <1>1, <2>1, BeatSame DEF Environment, TasksInv, QueueInv
<1>2. CASE BeatStep
  <2>1. CASE ExitDone
    BY <2>1, RestartKeeps DEF ExitDone, catalog
  <2>2. QED BY <1>2, <2>1, LoopKeeps, BodyKeeps DEF BeatStep
<1>3. CASE CloseStart
  <2>1. beat.job = None
    BY <1>3 DEF CloseStart, TasksInv, BeatInv, CallInv
  <2>2. QED BY <1>3, <1>a, <2>1, BetweenKeeps DEF CloseStart, catalog, context
<1>4. CASE Killed
  BY <1>4, RestartKeeps DEF Killed, catalog
<1>5. ASSUME NEW d \in Tenants, BecomesDue(d)
      PROVE  TasksInv'
  BY <1>5, <1>a, BeatSame DEF BecomesDue, TasksInv, QueueInv, catalog
<1>6. ASSUME NEW d \in Tenants, NEW h \in Tenants \cup {None}, RequestSends(d, h)
      PROVE  TasksInv'
  <2>1. d \in TaskDatabases /\ Current(d) = d
    BY TasksAssumption DEF TaskDatabases, Current
  <2>2. QueueInv'
    BY <1>6, <2>1, SentHome DEF RequestSends, TasksInv, QueueInv
  <2>3. QED BY <1>6, <1>a, <2>2, BeatSame DEF RequestSends, TasksInv, catalog
<1>7. ASSUME NEW m \in queue, NEW h \in Tenants \cup {None, NoTask}, NEW lost \in BOOLEAN,
             RunTask(m, h, lost)
      PROVE  TasksInv'
  BY <1>7, TaskKeeps
<1>8. CASE UNCHANGED tasksVars
  BY <1>8, <1>a, BeatSame DEF tasksVars, TasksInv, QueueInv, catalog
<1>9. QED
  BY <1>1, <1>2, <1>3, <1>4, <1>5, <1>6, <1>7, <1>8 DEF TasksNext

LEMMA TasksInvariance == TasksSpec => []TasksInv
  BY TasksStart, TasksInductive, PTL DEF TasksSpec

\* A task runs on the database its sender meant, however many tasks send each
\* other and however often the broker delivers: the header and TenantTask.
THEOREM TasksAtHome == TasksSpec => []TasksStayHome
<1>1. TasksInv => TasksStayHome
  BY DEF TasksInv, TasksStayHome
<1>2. QED BY <1>1, TasksInvariance, PTL

\* The runs of periodic tasks are saved in the database of their tenant, by sync,
\* close and the exit hooks of the schedulers.
THEOREM RunsAtHome == TasksSpec => []RunsSavedHome
<1>1. TasksInv => RunsSavedHome
  BY DEF TasksInv, RunsSavedHome
<1>2. QED BY <1>1, TasksInvariance, PTL

\* Beat has exactly one exit hook for each scheduler it runs, through removals
\* that fail, unreadable schedules and restarts.
THEOREM OneHookEach == TasksSpec => []HooksFollowSchedulers
<1>1. TasksInv => HooksFollowSchedulers
  BY DEF TasksInv, BeatInv
<1>2. QED BY <1>1, TasksInvariance, PTL
=============================================================================
