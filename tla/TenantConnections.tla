-------------------------- MODULE TenantConnections --------------------------
(***************************************************************************)
(* core/db/tenancy.py and core/middleware.py: one PostgreSQL database per  *)
(* tenant behind the alias `default`.                                      *)
(*                                                                         *)
(* Threads serve requests.  A context variable holds the database a unit   *)
(* of work selected; connections["default"] resolves it at every access,   *)
(* adds the alias of a database on first use, and creates the wrapper of   *)
(* the thread.  A wrapper borrows its connection from the pool of its      *)
(* alias.  Pools are shared by the threads of the process, evicted when    *)
(* idle, and closed by forget_database, which the tenant services call     *)
(* while other threads may be using the database.                          *)
(*                                                                         *)
(* Under ASGI every request runs its synchronous code in a thread of its   *)
(* own, so a unit of work starts with no wrapper and leaves none behind.   *)
(***************************************************************************)
EXTENDS Naturals, Sequences, FiniteSets

CONSTANTS
    Threads,        \* the threads that serve requests
    Dbs,            \* names that are acceptable as tenant databases
    DefaultDb,      \* settings.DATABASES["default"]["NAME"]
    Refused,        \* header values validate_database_name refuses
    NoHeader,       \* the request has no X-Tenant-Db header
    EvictAfter,     \* DB_POOL_EVICT_AFTER
    CheckInterval,  \* EVICTION_CHECK_INTERVAL
    StepBound,      \* longest time from the lookup of a connection to its use
    MaxTime, MaxDepth, MaxPools, MaxWork,      \* bounds of an instance
    None

ASSUME TenancyAssumption ==
    /\ DefaultDb \in Dbs
    /\ None \notin Dbs \cup Threads \cup Nat
    /\ NoHeader \notin Refused /\ Refused \cap Dbs = {}
    /\ EvictAfter \in Nat /\ CheckInterval \in Nat /\ StepBound \in Nat
    /\ StepBound < EvictAfter
    /\ MaxTime \in Nat /\ MaxDepth \in Nat /\ MaxPools \in Nat /\ MaxWork \in Nat

VARIABLES
    now,            \* time.monotonic()
    settings,       \* alias -> NAME of its entry in connections.settings, or None
    lastUsed,       \* connections._last_used
    lastCheck,      \* connections._last_eviction_check
    lock,           \* holder of connections._lock, or None
    pools,          \* DatabaseWrapper._connection_pools, with a generation
    ctx,            \* thread -> value of _current_database
    wrapper,        \* thread -> alias -> wrapper in connections._connections
    thr,            \* thread -> control state of its unit of work
    \* Observation only: never read by an action's guard.
    ran,            \* thread -> the last statement it ran
    usedAt,         \* alias -> time of the last access through the handler
    orphans,        \* pools opened by a unit of work their database was forgotten under
    lost,           \* connections dropped without going back to their pool
    work            \* requests, blocks, accesses and forgettings so far (bounded)

handler == <<settings, lastUsed, lastCheck, lock, pools>>
ghosts == <<ran, usedAt, orphans, lost, work>>
vars == <<now, handler, ctx, wrapper, thr, ghosts>>

Times == 0..MaxTime

\* A block entered and not left: use_database() with the token to restore, or
\* an atomic() opened on the connection of a database.
Frame == [k : {"use", "tx"}, db : Dbs, token : Dbs \cup {None}]

\* What a thread forgets of an access that ended.
Ended(r, pc) == [r EXCEPT !.pc = pc, !.since = 0, !.alias = DefaultDb, !.kind = "query"]

NoWrapper == [name |-> None, conn |-> 0]

NoPool == [st |-> "none", gen |-> 0]

Stopped == [pc |-> "idle", header |-> NoHeader, frames |-> <<>>, kind |-> "query",
            alias |-> DefaultDb, since |-> 0, todo |-> {}, victim |-> None,
            forgot |-> {}]

NotRun == [meant |-> DefaultDb, on |-> DefaultDb, tx |-> None]

TypeOK ==
    /\ now \in Times
    /\ settings \in [Dbs -> Dbs \cup {None}]
    /\ lastUsed \in [Dbs -> Times \cup {None}]
    /\ lastCheck \in Times
    /\ lock \in Threads \cup {None}
    /\ pools \in [Dbs -> [st : {"none", "new", "open"}, gen : 0..MaxPools]]
    /\ ctx \in [Threads -> Dbs \cup {None}]
    /\ wrapper \in [Threads -> [Dbs -> [name : Dbs \cup {None}, conn : 0..MaxPools]]]
    /\ \A t \in Threads :
         /\ thr[t].pc \in {"idle", "work", "lookup", "touch", "evict", "close",
                           "open", "getconn", "exec", "applied", "fail"}
         /\ thr[t].header \in Dbs \cup {NoHeader}
         /\ thr[t].frames \in Seq(Frame) /\ Len(thr[t].frames) <= MaxDepth
         /\ thr[t].kind \in {"query", "atomic"}
         /\ thr[t].alias \in Dbs /\ thr[t].since \in Times
         /\ thr[t].todo \subseteq Dbs /\ thr[t].victim \in Dbs \cup {None}
         /\ thr[t].forgot \subseteq Dbs
    /\ ran \in [Threads -> [meant : Dbs, on : Dbs, tx : Dbs \cup {None}]]
    /\ usedAt \in [Dbs -> Times]
    /\ orphans \subseteq Dbs \X (1..MaxPools)
    /\ lost \subseteq [db : Dbs, gen : 1..MaxPools, forgotten : BOOLEAN]
    /\ work \in 0..MaxWork

Init ==
    /\ now = 0
    /\ settings = [d \in Dbs |-> None]
    /\ lastUsed = [d \in Dbs |-> None]
    /\ lastCheck = 0
    /\ lock = None
    /\ pools = [d \in Dbs |-> NoPool]
    /\ ctx = [t \in Threads |-> None]
    /\ wrapper = [t \in Threads |-> [d \in Dbs |-> NoWrapper]]
    /\ thr = [t \in Threads |-> Stopped]
    /\ ran = [t \in Threads |-> NotRun]
    /\ usedAt = [d \in Dbs |-> 0]
    /\ orphans = {}
    /\ lost = {}
    /\ work = 0

-----------------------------------------------------------------------------
(* The current database *)

\* current_database() in thread t.
current_database(t) == IF ctx[t] = None THEN DefaultDb ELSE ctx[t]

\* connection.in_atomic_block of the connection get_initialized(d) of thread t.
InAtomicBlock(t, d) ==
    /\ wrapper[t][d] # NoWrapper
    /\ \E i \in DOMAIN thr[t].frames : thr[t].frames[i].k = "tx" /\ thr[t].frames[i].db = d

\* What use_database() raises before it selects the database.
SwitchAllowed_NoTransactionCheck(t, d) == TRUE

SwitchAllowed(t, d) == d = current_database(t) \/ ~InAtomicBlock(t, current_database(t))

Top(t) == thr[t].frames[Len(thr[t].frames)]

\* Entering the block: the token keeps the value to restore.
Enter(t, d) ==
    /\ ctx' = [ctx EXCEPT ![t] = d]
    /\ thr' = [thr EXCEPT ![t].frames = Append(@, [k |-> "use", db |-> d, token |-> ctx[t]])]

use_database(t, d) ==
    /\ thr[t].pc = "work"
    /\ Len(thr[t].frames) < MaxDepth /\ work < MaxWork
    /\ work' = work + 1
    /\ IF SwitchAllowed(t, d)
       THEN Enter(t, d)
       ELSE /\ thr' = [thr EXCEPT ![t].pc = "fail"]     \* DatabaseSwitchError
            /\ UNCHANGED ctx
    /\ UNCHANGED <<now, handler, wrapper, ran, usedAt, orphans, lost>>

\* The blocks a unit of work entered itself, inside the one of the middleware.
OwnFrames(t) == IF thr[t].header = NoHeader THEN Len(thr[t].frames) ELSE Len(thr[t].frames) - 1

\* Leaving a block, normally or because an exception goes through it.
Leave(t) ==
    /\ thr[t].pc \in {"work", "fail"}
    /\ OwnFrames(t) > 0 /\ Top(t).k = "use"
    /\ ctx' = [ctx EXCEPT ![t] = Top(t).token]
    /\ thr' = [thr EXCEPT ![t].frames = SubSeq(@, 1, Len(@) - 1)]
    /\ UNCHANGED <<now, handler, wrapper, ghosts>>

-----------------------------------------------------------------------------
(* TenantMiddleware *)

\* select_database: no header is the default database, a refused name is
\* answered 404 and nothing runs.
Request(t, h) ==
    /\ thr[t].pc = "idle" /\ work < MaxWork
    /\ work' = work + 1
    /\ \/ /\ h \in Refused
          /\ UNCHANGED <<ctx, thr>>
       \/ /\ h = NoHeader
          /\ ctx' = [ctx EXCEPT ![t] = None]
          /\ thr' = [thr EXCEPT ![t] = [Stopped EXCEPT !.pc = "work"]]
       \/ /\ h \in Dbs
          /\ ctx' = [ctx EXCEPT ![t] = h]
          /\ thr' = [thr EXCEPT ![t] =
                [Stopped EXCEPT !.pc = "work", !.header = h,
                                !.frames = <<[k |-> "use", db |-> h, token |-> None]>>]]
    /\ UNCHANGED <<now, handler, wrapper, ran, usedAt, orphans, lost>>

\* _add_database: the entry of `default` with another NAME.
AddedEntry_NameOfDefault(d) == DefaultDb

AddedEntry(d) == d

\* TenantConnectionHandler.all(initialized_only=True): the aliases whose wrapper
\* exists in this thread; `default` stands for the current database, which the
\* iteration leaves out under its own name.
Initialized_DefaultNotResolved(t, current) ==
    {d \in Dbs \ {current} : settings[d] # None /\ wrapper[t][d] # NoWrapper}

Initialized(t, current) ==
    {d \in Dbs \ {current} : settings[d] # None /\ wrapper[t][d] # NoWrapper}
      \cup {d \in {current} : wrapper[t][d] # NoWrapper}

\* End of the request: the middleware restores the context, then the
\* request_finished signal of Django closes the initialized connections, back
\* to their pools (each is looked up, so touched), and the thread goes away.
Finish(t) ==
    /\ thr[t].pc \in {"work", "fail"}
    /\ OwnFrames(t) = 0
    /\ LET closed == Initialized(t, DefaultDb)
           left == {d \in Dbs \ closed : wrapper[t][d].conn > 0}
       IN /\ lastUsed' = [d \in Dbs |-> IF d \in closed THEN now ELSE lastUsed[d]]
          /\ settings' = [d \in Dbs |-> IF d \in closed /\ settings[d] = None
                                        THEN AddedEntry(d) ELSE settings[d]]
          /\ usedAt' = [d \in Dbs |-> IF d \in closed THEN now ELSE usedAt[d]]
          /\ lost' = lost \cup {[db |-> d, gen |-> wrapper[t][d].conn,
                                  forgotten |-> d \in thr[t].forgot] : d \in left}
    /\ wrapper' = [wrapper EXCEPT ![t] = [d \in Dbs |-> NoWrapper]]
    /\ ctx' = [ctx EXCEPT ![t] = None]
    /\ thr' = [thr EXCEPT ![t] = Stopped]
    /\ ran' = [ran EXCEPT ![t] = NotRun]
    /\ UNCHANGED <<now, lastCheck, lock, pools, orphans, work>>

-----------------------------------------------------------------------------
(* TenantConnectionHandler.__getitem__("default"), then the connection *)

\* The alias is resolved and added when missing (under the lock).
Lookup(t, kind) ==
    LET d == current_database(t) IN
    /\ thr[t].pc = "work" /\ work < MaxWork
    /\ work' = work + 1
    /\ kind = "query" \/ Len(thr[t].frames) < MaxDepth
    /\ settings[d] = None => lock = None
    /\ settings' = [settings EXCEPT ![d] = IF @ = None THEN AddedEntry(d) ELSE @]
    /\ thr' = [thr EXCEPT ![t].pc = "lookup", ![t].kind = kind, ![t].alias = d,
                          ![t].since = now]
    /\ UNCHANGED <<now, lastUsed, lastCheck, lock, pools, ctx, wrapper, ran, usedAt, orphans, lost>>

\* super().__getitem__: the wrapper of this thread, created from the settings;
\* an alias forgotten since the lookup does not exist any more.
GetItem(t) ==
    LET d == thr[t].alias IN
    /\ thr[t].pc = "lookup"
    /\ IF wrapper[t][d] = NoWrapper /\ settings[d] = None
       THEN /\ thr' = [thr EXCEPT ![t] = Ended(@, "fail")]     \* ConnectionDoesNotExist
            /\ UNCHANGED wrapper
       ELSE /\ thr' = [thr EXCEPT ![t].pc = "touch"]
            /\ wrapper' = [wrapper EXCEPT ![t][d] =
                            IF @ = NoWrapper THEN [name |-> settings[d], conn |-> 0] ELSE @]
    /\ UNCHANGED <<now, handler, ctx, ghosts>>

Connected(t) == wrapper[t][thr[t].alias].conn > 0

\* _touch: records the use; every CheckInterval it looks for pools to evict.
Touch(t) ==
    LET d == thr[t].alias IN
    /\ thr[t].pc = "touch"
    /\ lastUsed' = [lastUsed EXCEPT ![d] = now]
    /\ usedAt' = [usedAt EXCEPT ![d] = now]
    /\ IF now - lastCheck >= CheckInterval
       THEN /\ lock = None
            /\ lock' = t
            /\ lastCheck' = now
            /\ thr' = [thr EXCEPT ![t].pc = "evict",
                          ![t].todo = {p \in Dbs : pools[p].st # "none"}]
       ELSE /\ UNCHANGED <<lock, lastCheck>>
            /\ thr' = [thr EXCEPT ![t].pc = IF Connected(t) THEN "exec" ELSE "open"]
    /\ UNCHANGED <<now, settings, pools, ctx, wrapper, ran, orphans, lost, work>>

\* pool_size - pool_available of the pool of d: the connections borrowed and
\* those lost, which are never given back.
Borrowed(d) ==
    \/ \E t \in Threads : wrapper[t][d].conn = pools[d].gen
    \/ \E x \in lost : x.db = d /\ x.gen = pools[d].gen

\* evict_idle_pools, one alias: an unknown time of last use counts as now.
Evictable(t, d) ==
    /\ lastUsed[d] # None /\ lastCheck - lastUsed[d] >= EvictAfter
    /\ ~Borrowed(d)

EvictNext_StopAtBusyPool(t, d) ==
    IF Evictable(t, d)
    THEN thr' = [thr EXCEPT ![t].pc = "close", ![t].victim = d]
    ELSE thr' = [thr EXCEPT ![t].todo = {}]

EvictNext(t, d) ==
    IF Evictable(t, d)
    THEN thr' = [thr EXCEPT ![t].pc = "close", ![t].victim = d]
    ELSE thr' = [thr EXCEPT ![t].todo = @ \ {d}]

EvictLook(t) ==
    /\ thr[t].pc = "evict"
    /\ \E d \in thr[t].todo : EvictNext(t, d)
    /\ UNCHANGED <<now, handler, ctx, wrapper, ghosts>>

EvictClose(t) ==
    LET d == thr[t].victim IN
    /\ thr[t].pc = "close"
    /\ pools' = [pools EXCEPT ![d].st = "none"]
    /\ thr' = [thr EXCEPT ![t].pc = "evict", ![t].todo = @ \ {d}, ![t].victim = None]
    /\ UNCHANGED <<now, settings, lastUsed, lastCheck, lock, ctx, wrapper, ghosts>>

EvictDone(t) ==
    /\ thr[t].pc = "evict" /\ thr[t].todo = {}
    /\ lock' = None
    /\ thr' = [thr EXCEPT ![t].pc = IF Connected(t) THEN "exec" ELSE "open"]
    /\ UNCHANGED <<now, settings, lastUsed, lastCheck, pools, ctx, wrapper, ghosts>>

\* Django opens the pool of the alias, created when it is missing ...
OpenPool(t) ==
    LET d == thr[t].alias IN
    /\ thr[t].pc = "open"
    /\ pools[d].st = "none" => pools[d].gen < MaxPools
    /\ pools' = [pools EXCEPT ![d] =
                    [st |-> "open", gen |-> IF @.st = "none" THEN @.gen + 1 ELSE @.gen]]
    /\ orphans' = IF d \in thr[t].forgot /\ pools[d].st # "open"
                  THEN orphans \cup {<<d, pools'[d].gen>>} ELSE orphans
    /\ thr' = [thr EXCEPT ![t].pc = "getconn"]
    /\ UNCHANGED <<now, settings, lastUsed, lastCheck, lock, ctx, wrapper, ran, usedAt, lost, work>>

\* ... and looks it up again to borrow: a pool closed in between is replaced by
\* one nobody opened, which refuses.
GetConn(t) ==
    LET d == thr[t].alias IN
    /\ thr[t].pc = "getconn"
    /\ \/ /\ pools[d].st = "open"
          /\ wrapper' = [wrapper EXCEPT ![t][d].conn = pools[d].gen]
          /\ thr' = [thr EXCEPT ![t].pc = "exec"]
          /\ UNCHANGED pools
       \/ /\ pools[d].st = "none" => pools[d].gen < MaxPools
          /\ pools' = [pools EXCEPT ![d] =
                          IF @.st = "none" THEN [st |-> "new", gen |-> @.gen + 1] ELSE @]
          /\ thr' = [thr EXCEPT ![t] = Ended(@, "fail")]     \* PoolClosed, or PoolTimeout
          /\ UNCHANGED wrapper
    /\ UNCHANGED <<now, settings, lastUsed, lastCheck, lock, ctx, ghosts>>

\* The database the code of the unit of work means: the innermost block.
Meant(t) ==
    LET use == {i \in DOMAIN thr[t].frames : thr[t].frames[i].k = "use"}
    IN IF use = {} THEN DefaultDb
       ELSE thr[t].frames[CHOOSE i \in use : \A j \in use : j <= i].db

\* The database whose transaction is open around the statement.
OpenTx(t) ==
    LET tx == {i \in DOMAIN thr[t].frames : thr[t].frames[i].k = "tx"}
    IN IF tx = {} THEN None
       ELSE thr[t].frames[CHOOSE i \in tx : \A j \in tx : j <= i].db

\* The statement: a query, or the BEGIN of an atomic() block.
Exec(t) ==
    LET d == thr[t].alias IN
    /\ thr[t].pc = "exec"
    /\ ran' = [ran EXCEPT ![t] = [meant |-> Meant(t), on |-> wrapper[t][d].name, tx |-> OpenTx(t)]]
    /\ thr' = [thr EXCEPT ![t] =
                 [Ended(thr[t], "work") EXCEPT !.frames =
                    IF thr[t].kind = "query" THEN thr[t].frames
                    ELSE Append(thr[t].frames, [k |-> "tx", db |-> d, token |-> None])]]
    /\ UNCHANGED <<now, handler, ctx, wrapper, usedAt, orphans, lost, work>>

\* The exit of atomic(): `default` is resolved again, so the commit or the
\* rollback goes to the connection of the database current at that point.
EndAtomic(t) ==
    LET d == current_database(t) IN
    /\ thr[t].pc \in {"work", "fail"}
    /\ OwnFrames(t) > 0 /\ Top(t).k = "tx"
    /\ settings[d] = None => lock = None
    /\ settings' = [settings EXCEPT ![d] = IF @ = None THEN AddedEntry(d) ELSE @]
    /\ lastUsed' = [lastUsed EXCEPT ![d] = now]
    /\ usedAt' = [usedAt EXCEPT ![d] = now]
    /\ ran' = [ran EXCEPT ![t] = [meant |-> Meant(t), on |-> d, tx |-> Top(t).db]]
    /\ thr' = [thr EXCEPT ![t].frames = SubSeq(@, 1, Len(@) - 1)]
    /\ UNCHANGED <<now, lastCheck, lock, pools, ctx, wrapper, orphans, lost, work>>

\* Application code raises: the blocks are left one by one, the request ends.
Raise(t) ==
    /\ thr[t].pc = "work" /\ ran[t] # NotRun
    /\ thr' = [thr EXCEPT ![t].pc = "fail"]
    /\ UNCHANGED <<now, handler, ctx, wrapper, ghosts>>

-----------------------------------------------------------------------------
(* forget_database, and the tenant services that call it *)

\* forget_database(d) in thread t: whatever database is selected, and whether or
\* not a transaction is open, the wrapper of the thread, the pool and the alias
\* are gone.  Its own connection goes back to the pool first.
forget_database(t, d) ==
    /\ lock = None
    /\ wrapper' = [wrapper EXCEPT ![t][d] = NoWrapper]
    /\ pools' = [pools EXCEPT ![d].st = "none"]
    /\ settings' = [settings EXCEPT ![d] = None]
    /\ lastUsed' = [lastUsed EXCEPT ![d] = None]

\* The threads after it: the units of work the database was forgotten under, and
\* the one that called it, which goes on at pc.
Forgotten(t, d, pc) ==
    [u \in Threads |->
        IF u = t THEN [thr[u] EXCEPT !.pc = pc]
        ELSE IF thr[u].pc # "idle" THEN [thr[u] EXCEPT !.forgot = @ \cup {d}]
        ELSE thr[u]]

\* The services forget the database their request selected (the controller
\* passes selected_database() or current_database()).  kill_connections does
\* before migrate() selects anything; drop_database after the block of create()
\* was left by an exception, which goes on.
ServiceForgets(t) ==
    LET d == current_database(t) IN
    /\ thr[t].pc \in {"work", "fail"} /\ OwnFrames(t) = 0 /\ work < MaxWork
    /\ work' = work + 1
    /\ forget_database(t, d)
    /\ thr' = Forgotten(t, d, thr[t].pc)
    /\ UNCHANGED <<now, lastCheck, lock, ctx, ran, usedAt, orphans, lost>>

\* _reset_lock_timeout, inside the block of migrate(), when RESET failed: the
\* exception it swallowed leaves the migration to its end ("applied"), or the
\* exception of the migration goes on.
_reset_lock_timeout(t) ==
    LET d == current_database(t) IN
    /\ thr[t].pc \in {"work", "fail"} /\ work < MaxWork
    /\ OwnFrames(t) = 1 /\ Top(t).k = "use" /\ wrapper[t][d] # NoWrapper
    /\ work' = work + 1
    /\ forget_database(t, d)
    /\ thr' = Forgotten(t, d, IF thr[t].pc = "work" THEN "applied" ELSE "fail")
    /\ UNCHANGED <<now, lastCheck, lock, ctx, ran, usedAt, orphans, lost>>

\* The end of migrate() reads the migrations again through the wrapper it still
\* holds, which is no longer one of connections: it connects by opening the pool
\* of its alias, without an access through the handler, and no end of a request
\* gives that connection back.  The pool or the server may refuse.
ReadApplied(t) ==
    LET d == current_database(t) IN
    /\ thr[t].pc = "applied"
    /\ pools[d].st = "none" => pools[d].gen < MaxPools
    /\ pools' = [pools EXCEPT ![d] =
                    [st |-> "open", gen |-> IF @.st = "none" THEN @.gen + 1 ELSE @.gen]]
    /\ orphans' = IF pools[d].st # "open" THEN orphans \cup {<<d, pools'[d].gen>>} ELSE orphans
    /\ \/ /\ thr' = [thr EXCEPT ![t].pc = "work"]
          /\ lost' = lost \cup {[db |-> d, gen |-> pools'[d].gen, forgotten |-> TRUE]}
          /\ ran' = [ran EXCEPT ![t] = [meant |-> Meant(t), on |-> d, tx |-> OpenTx(t)]]
       \/ /\ thr' = [thr EXCEPT ![t].pc = "fail"]
          /\ UNCHANGED <<lost, ran>>
    /\ UNCHANGED <<now, settings, lastUsed, lastCheck, lock, ctx, wrapper, usedAt, work>>

\* Where a thread is not getting a connection through the handler.
Outside == {"idle", "work", "applied", "fail"}

\* Time: a thread gets its connection within StepBound of looking it up (the
\* timeout of the pool is 10 s, DB_POOL_EVICT_AFTER 600 s).
Tick ==
    /\ now < MaxTime
    /\ \A t \in Threads : thr[t].pc \notin Outside => now < thr[t].since + StepBound
    /\ now' = now + 1
    /\ UNCHANGED <<handler, ctx, wrapper, thr, ghosts>>

Next ==
    \/ Tick
    \/ \E t \in Threads :
         \/ \E h \in Dbs \cup Refused \cup {NoHeader} : Request(t, h)
         \/ \E d \in Dbs : use_database(t, d)
         \/ \E kind \in {"query", "atomic"} : Lookup(t, kind)
         \/ Leave(t) \/ Finish(t) \/ GetItem(t) \/ Touch(t)
         \/ EvictLook(t) \/ EvictClose(t) \/ EvictDone(t)
         \/ OpenPool(t) \/ GetConn(t) \/ Exec(t) \/ EndAtomic(t) \/ Raise(t)
         \/ ServiceForgets(t) \/ _reset_lock_timeout(t) \/ ReadApplied(t)

Spec == Init /\ [][Next]_vars

-----------------------------------------------------------------------------
(* Properties *)

\* Every statement, and every commit or rollback, runs on the database of the
\* innermost use_database() block around it (the header of the request, the
\* default database without one), whatever was nested, raised, added and
\* forgotten before: __getitem__, use_database and _add_database together.
OnItsOwnDatabase == \A t \in Threads : ran[t].on = ran[t].meant

\* A statement inside atomic() runs on the connection that holds the open
\* transaction, and the thread keeps that connection until the block is left:
\* use_database() refuses a switch inside one, and the services forget the
\* selected database, which forget_database does not refuse, only where no
\* atomic() is open (a new connection would run later statements outside of it).
AtomicCovers ==
    \A t \in Threads :
        /\ ran[t].tx # None => ran[t].on = ran[t].tx
        /\ \A i \in DOMAIN thr[t].frames :
             thr[t].frames[i].k = "tx" => wrapper[t][thr[t].frames[i].db] # NoWrapper

\* The end of a request gives every connection of its thread back to its pool,
\* although it runs outside of the tenant database; the only exceptions are on a
\* database that forget_database removed: under another request that was using
\* it, or under a migrate() that reads once more through the wrapper it kept.
ConnectionsReturned == \A x \in lost : x.forgotten

\* A look of evict_idle_pools leaves no pool unused for EvictAfter, unless a
\* connection of it is borrowed or the pool was opened again by a unit of work
\* whose database was forgotten under it (its time of last use is gone, so it
\* counts as just used until the next access through the handler).
IdlePoolsClosed ==
    [][\A t \in Threads : (thr[t].pc = "evict" /\ thr'[t].pc \in {"exec", "open"}) =>
         \A d \in Dbs : pools[d].st = "open" =>
            \/ lastCheck - usedAt[d] < EvictAfter
            \/ Borrowed(d)
            \/ <<d, pools[d].gen>> \in orphans]_vars

=============================================================================
