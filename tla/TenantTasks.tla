----------------------------- MODULE TenantTasks -----------------------------
(***************************************************************************)
(* core/celery: background jobs run on the database of the unit of work    *)
(* that sent them, and one beat runs the periodic tasks of every tenant    *)
(* (core/celery/__init__.py, core/celery/scheduler.py, the list of tenants *)
(* of core/db/tenancy.py).                                                 *)
(*                                                                         *)
(* The environment makes tenants appear, disappear and become unreachable  *)
(* between any two steps of beat; the broker may deliver a message twice.  *)
(***************************************************************************)
EXTENDS Naturals, Sequences, FiniteSets

CONSTANTS
    Tenants,        \* databases the catalog may name
    DefaultDb,      \* the database of the settings, selected when none is
    MaxExits,       \* bound: times beat stops or is killed
    MaxQueue,       \* bound: messages waiting when a request or a task sends one
    NoTask,         \* a task that sends no other
    None

ASSUME TasksAssumption ==
    /\ DefaultDb \notin Tenants /\ None \notin Tenants \cup {DefaultDb}
    /\ NoTask \notin Tenants \cup {None}
    /\ MaxExits \in Nat /\ MaxQueue \in Nat

VARIABLES
    active,         \* names the catalog holds for active tenants
    catalogUp,      \* the catalog can be read
    up,             \* databases that are reachable and migrated
    due,            \* tenants with a periodic task due in their schedule
    schedulers,     \* keys of TenantDatabaseScheduler.schedulers
    dirty,          \* schedulers with a run they have not saved yet
    hooks,          \* tenant -> exit hooks (Finalize) registered for it
    beat,           \* control state of beat: pc, the names read, what is left to do,
                    \* the tenant whose scheduler it is calling and where in that call
    selected,       \* _current_database in the beat process
    tokens,         \* what the blocks of use_database() entered there restore
    queue,          \* messages sent and not taken by a worker
    \* Observation only: strays is never read by a guard.
    strays,         \* writes that went to another database than the one meant
    exits           \* times beat ended, bounded

catalog == <<active, catalogUp, up>>
context == <<selected, tokens>>
beatState == <<schedulers, dirty, hooks, beat, context>>
tasksVars == <<catalog, due, beatState, queue, strays, exits>>

TaskDatabases == Tenants \cup {DefaultDb}

\* A task message: its db_name header (None when it has none), and the database
\* its sender meant.
Message == [db : TaskDatabases \cup {None}, meant : TaskDatabases]

TasksTypeOK ==
    /\ active \subseteq Tenants /\ catalogUp \in BOOLEAN /\ up \subseteq Tenants
    /\ due \subseteq Tenants /\ schedulers \subseteq Tenants /\ dirty \subseteq Tenants
    /\ hooks \in [Tenants -> 0..2]
    /\ beat \in [pc : {"boot", "idle", "remove", "add", "tick", "close", "exit"},
                 names : SUBSET Tenants, todo : SUBSET Tenants, job : Tenants \cup {None},
                 at : {"none", "body", "save", "done", "raised"}]
    /\ selected \in Tenants \cup {None}
    /\ tokens \in Seq(Tenants \cup {None}) /\ Len(tokens) <= 2
    /\ queue \subseteq Message
    /\ strays \subseteq [what : {"run", "task"}, of : TaskDatabases, on : TaskDatabases]
    /\ exits \in 0..MaxExits

\* Beat at pc, between two calls of a scheduler.
At(pc, names, todo) == [pc |-> pc, names |-> names, todo |-> todo, job |-> None, at |-> "none"]

TasksInit ==
    /\ active = {} /\ catalogUp = TRUE /\ up = {}
    /\ due = {}
    /\ schedulers = {} /\ dirty = {} /\ hooks = [d \in Tenants |-> 0]
    /\ beat = At("boot", {}, {})
    /\ selected = None /\ tokens = <<>>
    /\ queue = {}
    /\ strays = {} /\ exits = 0

\* A write noted when it went astray.
Stray(what, of, on) == IF of = on THEN {} ELSE {[what |-> what, of |-> of, on |-> on]}

-----------------------------------------------------------------------------
(* Sending and running a task *)

\* current_database() where the context variable holds c.
Current(c) == IF c = None THEN DefaultDb ELSE c

\* add_db_name_header: stamped from the current database unless already set.
Stamped_Overwritten(h, c) == Current(c)

Stamped(h, c) == IF h = None THEN Current(c) ELSE h

\* A message sent where c is selected, by a sender who works for the database of
\* work, or for another one when it passed the header h itself.
Sent(h, c, work) == [db |-> Stamped(h, c), meant |-> IF h = None THEN work ELSE h]

\* A request of tenant d sends a task.
RequestSends(d, h) ==
    /\ Cardinality(queue) < MaxQueue
    /\ queue' = queue \cup {Sent(h, d, d)}
    /\ UNCHANGED <<catalog, due, beatState, strays, exits>>

\* TenantTask.__call__: the database of the message is selected around the
\* task; without one it runs where it was called.
TaskContext(m, c) == IF m.db = None THEN c ELSE m.db

\* A worker runs a task: its statements go to the selected database, it may send
\* a further task, to its own database or with the header h to another one.
\* Messages are acknowledged late and rejected when the worker is lost, so a
\* task may run again.
RunTask(m, h, lost) ==
    LET c == TaskContext(m, None)
        sent == IF h # NoTask /\ Cardinality(queue) <= MaxQueue THEN {Sent(h, c, m.meant)} ELSE {}
    IN /\ m \in queue
       /\ strays' = strays \cup Stray("task", m.meant, Current(c))
       /\ queue' = (IF lost THEN queue ELSE queue \ {m}) \cup sent
       /\ UNCHANGED <<catalog, due, beatState, exits>>

-----------------------------------------------------------------------------
(* TenantScheduler: the schedule of one tenant, always inside its database *)

\* in_database(): use_database() selects the tenant and keeps what to restore.
in_database(d) == selected' = d /\ tokens' = Append(tokens, selected)

\* sync() enters a block of its own, also inside the one of tick() or close():
\* it is what the exit hook calls, where nothing is selected.
sync_Unselected(d) == selected' = selected /\ tokens' = Append(tokens, selected)

sync(d) == in_database(d)

\* Leaving the innermost block, whether its body returned or raised.  The step
\* that runs the last statement of a block also leaves it.
LeaveBlock ==
    /\ selected' = tokens[Len(tokens)]
    /\ tokens' = SubSeq(tokens, 1, Len(tokens) - 1)

\* The selected database answers.
Reachable == Current(selected) \in up \cup {DefaultDb}

\* Beat calls the scheduler of d, and is at `at` of that call.
Calls(d, at) == beat' = [beat EXCEPT !.todo = @ \ {d}, !.job = d, !.at = at]

\* The call ended: what is left to do is todo.
Returns(todo) == beat' = [beat EXCEPT !.todo = todo, !.job = None, !.at = "none"]

\* tick() and close() save the runs noted with sync().
SyncInside ==
    /\ beat.pc \in {"tick", "remove"} /\ beat.at = "body"
    /\ sync(beat.job)
    /\ beat' = [beat EXCEPT !.at = "save"]
    /\ UNCHANGED <<catalog, due, schedulers, dirty, hooks, queue, strays, exits>>

\* The body of sync(): the runs of this scheduler are written to whatever
\* database is selected.  A save that fails raises, or the library logs it and
\* goes on.  Its block is left in every case; where sync() is all beat called, to
\* stop or at exit, a failure ends there too.
Save ==
    /\ beat.at = "save"
    /\ IF Reachable
       THEN /\ strays' = IF beat.job \in dirty
                         THEN strays \cup Stray("run", beat.job, Current(selected)) ELSE strays
            /\ dirty' = dirty \ {beat.job}
       ELSE UNCHANGED <<strays, dirty>>
    /\ LeaveBlock
    /\ \/ beat.pc \in {"close", "exit"} /\ Returns(beat.todo)
       \/ /\ beat.pc \in {"remove", "tick"}
          /\ \E at \in IF Reachable THEN {"done"} ELSE {"done", "raised"} :
               beat' = [beat EXCEPT !.at = at]
    /\ UNCHANGED <<catalog, due, schedulers, hooks, queue, exits>>

-----------------------------------------------------------------------------
(* TenantDatabaseScheduler *)

\* A tick after BEAT_TENANT_REFRESH seconds begins with refresh_databases (time
\* itself is left out: any tick may).  Without the list of tenants the current one is kept.
RefreshStart ==
    /\ beat.pc \in {"boot", "idle"}
    /\ \/ /\ catalogUp
          /\ beat' = At("remove", active, schedulers \ active)
       \/ /\ ~catalogUp
          /\ beat' = At("tick", {}, schedulers)
    /\ UNCHANGED <<catalog, due, schedulers, dirty, hooks, context, queue, strays, exits>>

\* The exit hook of a removed scheduler is cancelled, also when its close()
\* failed because the database is gone.
HookCancelled_OnlyOnSuccess(at) == at # "raised"

HookCancelled(at) == TRUE

\* _remove_scheduler: the scheduler is taken out, then closed ...
RemoveOne(d) ==
    /\ beat.pc = "remove" /\ beat.job = None /\ d \in beat.todo
    /\ schedulers' = schedulers \ {d}
    /\ in_database(d)
    /\ Calls(d, "body")
    /\ UNCHANGED <<catalog, due, dirty, hooks, queue, strays, exits>>

\* ... and its exit hook is cancelled, when close() raised too.
RemoveReturns ==
    /\ beat.pc = "remove" /\ beat.at \in {"done", "raised"}
    /\ LeaveBlock
    /\ hooks' = [hooks EXCEPT ![beat.job] = IF HookCancelled(beat.at) THEN @ - 1 ELSE @]
    /\ dirty' = dirty \ {beat.job}
    /\ Returns(beat.todo)
    /\ UNCHANGED <<catalog, due, schedulers, queue, strays, exits>>

RemoveDone ==
    /\ beat.pc = "remove" /\ beat.job = None /\ beat.todo = {}
    /\ beat' = At("add", beat.names, beat.names \ schedulers)
    /\ UNCHANGED <<catalog, due, schedulers, dirty, hooks, context, queue, strays, exits>>

\* _add_scheduler: __init__ selects the database ...
AddOne(d) ==
    /\ beat.pc = "add" /\ beat.job = None /\ d \in beat.todo
    /\ in_database(d)
    /\ Calls(d, "body")
    /\ UNCHANGED <<catalog, due, schedulers, dirty, hooks, queue, strays, exits>>

\* ... reads the schedule and registers the exit hook.  A schedule that cannot be
\* read is left for the next refresh.
ReadSchedule ==
    /\ beat.pc = "add" /\ beat.at = "body"
    /\ IF Reachable
       THEN /\ hooks' = [hooks EXCEPT ![beat.job] = @ + 1]
            /\ schedulers' = schedulers \cup {beat.job}
       ELSE UNCHANGED <<hooks, schedulers>>
    /\ LeaveBlock
    /\ Returns(beat.todo)
    /\ UNCHANGED <<catalog, due, dirty, queue, strays, exits>>

AddDone ==
    /\ beat.pc = "add" /\ beat.job = None /\ beat.todo = {}
    /\ beat' = At("tick", {}, schedulers)
    /\ UNCHANGED <<catalog, due, schedulers, dirty, hooks, context, queue, strays, exits>>

TickStart ==
    /\ beat.pc = "idle"
    /\ beat' = At("tick", {}, schedulers)
    /\ UNCHANGED <<catalog, due, schedulers, dirty, hooks, context, queue, strays, exits>>

\* TenantScheduler.tick() of one tenant: the runs noted are saved, when it is
\* time to, then at most one due task is sent.
TickOne(d) ==
    /\ beat.pc = "tick" /\ beat.job = None /\ d \in beat.todo
    /\ in_database(d)
    /\ Calls(d, "body")
    /\ UNCHANGED <<catalog, due, schedulers, dirty, hooks, queue, strays, exits>>

\* The tenants left to tick once one of them raised.
AfterFailedTick_Stops(todo) == {}

AfterFailedTick(todo) == todo

\* The schedule is read from the selected database, and the message stamped with it.
SendDue ==
    /\ beat.pc = "tick" /\ beat.at \in {"body", "done"} /\ Reachable
    /\ due' = due \ {beat.job}
    /\ IF beat.job \in due
       THEN /\ dirty' = dirty \cup {beat.job}
            /\ queue' = queue \cup {Sent(None, selected, beat.job)}
       ELSE UNCHANGED <<dirty, queue>>
    /\ LeaveBlock
    /\ Returns(beat.todo)
    /\ UNCHANGED <<catalog, schedulers, hooks, strays, exits>>

\* The failure of one tenant, to save or to read its schedule, is logged.
TickFails ==
    /\ beat.pc = "tick"
    /\ beat.at = "raised" \/ (beat.at \in {"body", "done"} /\ ~Reachable)
    /\ LeaveBlock
    /\ Returns(AfterFailedTick(beat.todo))
    /\ UNCHANGED <<catalog, due, schedulers, dirty, hooks, queue, strays, exits>>

TickDone ==
    /\ beat.pc = "tick" /\ beat.job = None /\ beat.todo = {}
    /\ beat' = At("idle", {}, {})
    /\ UNCHANGED <<catalog, due, schedulers, dirty, hooks, context, queue, strays, exits>>

\* Beat is stopped: close() syncs each scheduler in turn, the failure of one is
\* logged; then the exit hooks run, one after the other.
CloseStart ==
    /\ beat.pc = "idle" /\ exits < MaxExits
    /\ exits' = exits + 1
    /\ beat' = At("close", {}, schedulers)
    /\ UNCHANGED <<catalog, due, schedulers, dirty, hooks, context, queue, strays>>

CloseOne(d) ==
    /\ beat.pc = "close" /\ beat.job = None /\ d \in beat.todo
    /\ sync(d)
    /\ Calls(d, "save")
    /\ UNCHANGED <<catalog, due, schedulers, dirty, hooks, queue, strays, exits>>

CloseDone ==
    /\ beat.pc = "close" /\ beat.job = None /\ beat.todo = {}
    /\ beat' = At("exit", {}, {d \in Tenants : hooks[d] > 0})
    /\ UNCHANGED <<catalog, due, schedulers, dirty, hooks, context, queue, strays, exits>>

ExitHook(d) ==
    /\ beat.pc = "exit" /\ beat.job = None /\ d \in beat.todo
    /\ sync(d)
    /\ Calls(d, "save")
    /\ UNCHANGED <<catalog, due, schedulers, dirty, hooks, queue, strays, exits>>

\* Beat is started again, by another process.
Restarted ==
    /\ schedulers' = {} /\ dirty' = {}
    /\ hooks' = [d \in Tenants |-> 0]
    /\ beat' = At("boot", {}, {})
    /\ selected' = None /\ tokens' = <<>>

ExitDone ==
    /\ beat.pc = "exit" /\ beat.job = None /\ beat.todo = {}
    /\ Restarted
    /\ UNCHANGED <<catalog, due, queue, strays, exits>>

\* Beat is killed at any point: the runs it did not save are lost, so their
\* tasks are due again.
Killed ==
    /\ beat.pc # "boot" /\ exits < MaxExits
    /\ exits' = exits + 1
    /\ due' = due \cup dirty
    /\ Restarted
    /\ UNCHANGED <<catalog, queue, strays>>

-----------------------------------------------------------------------------
(* The environment *)

TenantAdded(d) == d \notin active /\ active' = active \cup {d} /\ UNCHANGED <<catalogUp, up>>
TenantRemoved(d) == d \in active /\ active' = active \ {d} /\ UNCHANGED <<catalogUp, up>>
DatabaseChanges(d) ==
    /\ up' = IF d \in up THEN up \ {d} ELSE up \cup {d}
    /\ UNCHANGED <<active, catalogUp>>
CatalogChanges == catalogUp' = ~catalogUp /\ UNCHANGED <<active, up>>

Environment ==
    /\ \/ \E d \in Tenants : TenantAdded(d) \/ TenantRemoved(d) \/ DatabaseChanges(d)
       \/ CatalogChanges
    /\ UNCHANGED <<due, beatState, queue, strays, exits>>

BecomesDue(d) ==
    /\ d \in up /\ d \notin due
    /\ due' = due \cup {d}
    /\ UNCHANGED <<catalog, beatState, queue, strays, exits>>

BeatStep ==
    \/ RefreshStart \/ RemoveDone \/ AddDone \/ TickStart \/ TickDone
    \/ CloseDone \/ ExitDone
    \/ SyncInside \/ Save \/ RemoveReturns \/ ReadSchedule \/ SendDue \/ TickFails
    \/ \E d \in Tenants : RemoveOne(d) \/ AddOne(d) \/ TickOne(d) \/ CloseOne(d) \/ ExitHook(d)

TasksNext ==
    \/ Environment \/ BeatStep \/ CloseStart \/ Killed
    \/ \E d \in Tenants : BecomesDue(d)
    \/ \E d \in Tenants, h \in Tenants \cup {None} : RequestSends(d, h)
    \/ \E m \in queue, h \in Tenants \cup {None, NoTask}, lost \in BOOLEAN : RunTask(m, h, lost)

TasksSpec == TasksInit /\ [][TasksNext]_tasksVars

\* Beat's loop never stops by itself, and BEAT_TENANT_REFRESH seconds pass again
\* and again, so that a tick begins with a refresh infinitely often.
FairTasksSpec == TasksSpec /\ WF_tasksVars(BeatStep) /\ SF_tasksVars(RefreshStart)

-----------------------------------------------------------------------------
(* Properties *)

\* A task runs on the database its sender works for, a tenant's periodic task on
\* that tenant's, however many tasks are chained and whichever worker runs them:
\* what beat selects, the stamping of the message and TenantTask.
TasksStayHome == \A x \in strays : x.what # "task"

\* The runs of a tenant's periodic tasks are saved in that tenant's database,
\* whatever was selected before: by a sync() inside tick() or close(), by the
\* one that stops beat and by the exit hooks, and after calls that raised.
RunsSavedHome == \A x \in strays : x.what # "run"

\* Between two calls beat keeps exactly one exit hook for each scheduler it runs,
\* so a scheduler that was removed, even because its database is gone, never
\* writes at exit.
HooksFollowSchedulers ==
    \A d \in Tenants \ {beat.job} : hooks[d] = IF d \in schedulers THEN 1 ELSE 0

\* A tenant that is active and reachable from some point on is scheduled for
\* good, and its due tasks are sent, whatever the other tenants do: a failing
\* tenant or an unreadable catalog only delays it.
Settled(d) == d \in active /\ d \in up /\ catalogUp
SettledTenantsServed ==
    \A d \in Tenants :
        <>[]Settled(d) => /\ <>[](d \in schedulers)
                          /\ [](d \in due => <>(d \notin due))

=============================================================================
