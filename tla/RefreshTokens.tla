----------------------------- MODULE RefreshTokens -----------------------------
(***************************************************************************)
(* The refresh tokens of one tenant database: AuthService (login, refresh, *)
(* revoke), the RefreshToken queryset it writes through, and the periodic  *)
(* purge, as run by concurrent requests on PostgreSQL at READ COMMITTED.   *)
(*                                                                         *)
(* A row lock is held until its transaction ends.  An UPDATE, a DELETE and *)
(* a SELECT FOR UPDATE find their rows in the snapshot taken when the      *)
(* statement starts, wait for the lock of each one, and look at it again   *)
(* once they hold it; a row committed after the snapshot is never seen.    *)
(* A secret and the row its hash finds are both named by the token.        *)
(***************************************************************************)
EXTENDS Naturals, FiniteSets

CONSTANTS Users, Procs, Tokens, Sessions,
          RefreshTTL,            \* JWT_REFRESH_TOKEN_LIFETIME
          MaxTime,               \* bound on the clock
          Null, NoProc, NoToken, NoUser

ASSUME ConstantsAssumption ==
    /\ RefreshTTL \in Nat /\ MaxTime \in Nat
    /\ Null \notin Nat
    /\ NoProc \notin Procs
    /\ NoToken \notin Tokens
    /\ NoUser \notin Users
    /\ Users # {} /\ Sessions # {}

VARIABLES
    clock,     \* timezone.now()
    isActive,  \* User.is_active, as committed
    rows,      \* the committed RefreshToken rows
    row,       \* their columns
    lock,      \* the transaction holding each row lock
    req,       \* the request each process serves
    issued,    \* history: every secret ever minted
    opened,    \* history: every session id ever generated
    parent,    \* history: the token each token was issued in exchange of
    ended      \* history: <<session, why>> for each sign-out or replay committed

dbVars   == <<rows, row, lock>>
histVars == <<issued, opened, parent, ended>>
vars     == <<clock, isActive, dbVars, req, histVars>>

Row == [user: Users, session: Sessions, expires_at: Nat, revoked_at: Nat \cup {Null}]

(***************************************************************************)
(* A request: where it is, its locals, and what its open transaction has   *)
(* written so far.  `targets` are the rows the statement under way has yet *)
(* to visit, `marked` the rows it has updated or deleted, `fresh` the row  *)
(* it has inserted, `seen` the rows its statement found (history).         *)
(***************************************************************************)
Verdicts == {"none", "exchanged", "replayed", "expired", "inactive", "signout", "purged"}

PCs == {"idle", "login", "select", "wait", "replayed", "inactive", "signout",
        "update", "commit"}

Request == [pc: PCs, user: Users \cup {NoUser}, tok: Tokens \cup {NoToken},
            now: Nat, sawActive: BOOLEAN,
            targets: SUBSET Tokens, marked: SUBSET Tokens, seen: SUBSET Tokens,
            fresh: Tokens \cup {NoToken}, verdict: Verdicts]

IdleRequest == [pc |-> "idle", user |-> NoUser, tok |-> NoToken, now |-> 0,
                sawActive |-> FALSE, targets |-> {}, marked |-> {}, seen |-> {},
                fresh |-> NoToken, verdict |-> "none"]

\* Every variable has its type.
TypeOK ==
    /\ clock \in Nat
    /\ isActive \in [Users -> BOOLEAN]
    /\ rows \subseteq Tokens
    /\ row \in [Tokens -> Row]
    /\ lock \in [Tokens -> Procs \cup {NoProc}]
    /\ req \in [Procs -> Request]
    /\ issued \subseteq Tokens
    /\ opened \subseteq Sessions
    /\ parent \in [Tokens -> Tokens \cup {NoToken}]
    /\ ended \subseteq Sessions \X {"replayed", "signout"}

Init ==
    /\ clock = 0
    /\ isActive = [u \in Users |-> TRUE]
    /\ rows = {}
    /\ row = [t \in Tokens |-> [user |-> CHOOSE u \in Users : TRUE,
                                session |-> CHOOSE s \in Sessions : TRUE,
                                expires_at |-> 0, revoked_at |-> Null]]
    /\ lock = [t \in Tokens |-> NoProc]
    /\ req = [p \in Procs |-> IdleRequest]
    /\ issued = {} /\ opened = {} /\ ended = {}
    /\ parent = [t \in Tokens |-> NoToken]

--------------------------------------------------------------------------------
(***************************************************************************)
(* The queryset: what its methods select and write.                        *)
(***************************************************************************)

\* The rows `revoke` updates: those of the queryset not revoked yet.
Unrevoked(t) == t \in rows /\ row[t].revoked_at = Null

\* The queryset of `revoke_session`.
OfSession(s) == {t \in rows : row[t].session = s}

\* The queryset of `revoke_for_users`.
OfUser(u) == {t \in rows : row[t].user = u}

\* The queryset of `purge_expired`.
ExpiredAt(n) == {t \in rows : row[t].expires_at <= n}

\* Mutant of NewRow: `issue` leaves the expiry out.
NewRow_NoExpiry(u, s, n) ==
    [user |-> u, session |-> s, expires_at |-> Null, revoked_at |-> Null]

\* The row `issue` inserts.
NewRow(u, s, n) ==
    [user |-> u, session |-> s, expires_at |-> n + RefreshTTL, revoked_at |-> Null]

\* Mutant of Release: a transaction that ends keeps its row locks.
Release_KeepsLocks(p) ==
    /\ req' = [req EXCEPT ![p] = IdleRequest]
    /\ UNCHANGED lock

\* End of a transaction, committed or not: its locks and the locals go.
Release(p) ==
    /\ req' = [req EXCEPT ![p] = IdleRequest]
    /\ lock' = [t \in Tokens |-> IF lock[t] = p THEN NoProc ELSE lock[t]]

--------------------------------------------------------------------------------
(***************************************************************************)
(* _login: the credentials are checked before the transaction, which then  *)
(* inserts the first row of a session.                                     *)
(***************************************************************************)
Authenticate(p, u) ==
    /\ req[p].pc = "idle"
    /\ isActive[u]
    /\ req' = [req EXCEPT ![p] = [@ EXCEPT !.pc = "login", !.user = u, !.now = clock]]
    /\ UNCHANGED <<clock, isActive, dbVars, histVars>>

Login(p, t, s) ==
    /\ req[p].pc = "login"
    /\ t \notin issued
    /\ s \notin opened
    /\ rows' = rows \cup {t}
    /\ row' = [row EXCEPT ![t] = NewRow(req[p].user, s, req[p].now)]
    /\ issued' = issued \cup {t}
    /\ opened' = opened \cup {s}
    /\ Release(p)
    /\ UNCHANGED <<clock, isActive, parent, ended>>

(***************************************************************************)
(* _refresh and _rotate.  `now` is read first, outside the transaction.    *)
(***************************************************************************)
Refresh(p, t) ==
    /\ req[p].pc = "idle"
    /\ req' = [req EXCEPT ![p] = [@ EXCEPT !.pc = "select", !.tok = t, !.now = clock]]
    /\ UNCHANGED <<clock, isActive, dbVars, histVars>>

\* SELECT ... FOR UPDATE OF self: the statement finds the row and its user.
RotateSelect(p) ==
    LET t == req[p].tok IN
    /\ req[p].pc = "select"
    /\ req' = [req EXCEPT ![p] =
                 IF t \in rows
                   THEN [@ EXCEPT !.pc = "wait", !.sawActive = isActive[row[t].user]]
                   ELSE IdleRequest]                    \* "Unknown refresh token"
    /\ UNCHANGED <<clock, isActive, dbVars, histVars>>

\* The row went away while the statement waited for its lock.
RotateGone(p) ==
    /\ req[p].pc = "wait"
    /\ req[p].tok \notin rows
    /\ req' = [req EXCEPT ![p] = IdleRequest]           \* "Unknown refresh token"
    /\ UNCHANGED <<clock, isActive, dbVars, histVars>>

\* Mutant of LockRow: a plain SELECT, without FOR UPDATE.
LockRow_PlainSelect(p) ==
    /\ req[p].pc = "wait"
    /\ req[p].tok \in rows
    /\ UNCHANGED lock

\* The lock is obtained: the verdict falls on the row as it is now, and on the
\* user as the statement's snapshot had it.
LockRow(p) ==
    /\ req[p].pc = "wait"
    /\ req[p].tok \in rows
    /\ lock[req[p].tok] = NoProc
    /\ lock' = [lock EXCEPT ![req[p].tok] = p]

RotateReplayed(p) ==
    /\ LockRow(p)
    /\ row[req[p].tok].revoked_at # Null
    /\ req' = [req EXCEPT ![p] = [@ EXCEPT !.pc = "replayed", !.verdict = "replayed"]]
    /\ UNCHANGED <<clock, isActive, rows, row, histVars>>

RotateExpired(p) ==
    /\ LockRow(p)
    /\ row[req[p].tok].revoked_at = Null
    /\ row[req[p].tok].expires_at <= req[p].now
    /\ req' = [req EXCEPT ![p] = [@ EXCEPT
                 !.pc = "commit", !.marked = {req[p].tok}, !.verdict = "expired"]]
    /\ UNCHANGED <<clock, isActive, rows, row, histVars>>

RotateInactive(p) ==
    /\ LockRow(p)
    /\ row[req[p].tok].revoked_at = Null
    /\ row[req[p].tok].expires_at > req[p].now
    /\ ~req[p].sawActive
    /\ req' = [req EXCEPT ![p] = [@ EXCEPT !.pc = "inactive", !.verdict = "inactive"]]
    /\ UNCHANGED <<clock, isActive, rows, row, histVars>>

RotateExchange(p, t) ==
    /\ LockRow(p)
    /\ row[req[p].tok].revoked_at = Null
    /\ row[req[p].tok].expires_at > req[p].now
    /\ req[p].sawActive
    /\ t \notin issued
    /\ issued' = issued \cup {t}
    /\ req' = [req EXCEPT ![p] = [@ EXCEPT
                 !.pc = "commit", !.marked = {req[p].tok}, !.fresh = t,
                 !.verdict = "exchanged"]]
    /\ UNCHANGED <<clock, isActive, rows, row, opened, parent, ended>>

--------------------------------------------------------------------------------
(***************************************************************************)
(* _revoke: two statements and no transaction around them.                 *)
(***************************************************************************)
Revoke(p, t) ==
    /\ req[p].pc = "idle"
    /\ t \in rows
    /\ req' = [req EXCEPT ![p] = [@ EXCEPT
                 !.pc = "signout", !.tok = t, !.verdict = "signout"]]
    /\ UNCHANGED <<clock, isActive, dbVars, histVars>>

(***************************************************************************)
(* The statements that write more than one row.  Starting one fixes the    *)
(* rows it found; it then visits them one by one.                          *)
(***************************************************************************)
StartStatement(p, S, n) ==
    req' = [req EXCEPT ![p] = [@ EXCEPT
                 !.pc = "update", !.targets = S, !.seen = S, !.now = n]]

\* Mutant of RevokeSession: only the presented token is revoked, not its chain.
RevokeSession_TokenOnly(p) ==
    /\ req[p].pc \in {"replayed", "signout"}
    /\ StartStatement(p, {t \in {req[p].tok} : Unrevoked(t)},
                      IF req[p].pc = "signout" THEN clock ELSE req[p].now)
    /\ UNCHANGED <<clock, isActive, dbVars, histVars>>

RevokeSession(p) ==
    /\ req[p].pc \in {"replayed", "signout"}
    /\ StartStatement(p, {t \in OfSession(row[req[p].tok].session) : Unrevoked(t)},
                      IF req[p].pc = "signout" THEN clock ELSE req[p].now)
    /\ UNCHANGED <<clock, isActive, dbVars, histVars>>

RevokeForUsers(p) ==
    /\ req[p].pc = "inactive"
    /\ StartStatement(p, {t \in OfUser(row[req[p].tok].user) : Unrevoked(t)}, req[p].now)
    /\ UNCHANGED <<clock, isActive, dbVars, histVars>>

\* clear_tokens: the periodic purge_expired.
Purge(p) ==
    /\ req[p].pc = "idle"
    /\ req' = [req EXCEPT ![p] = [@ EXCEPT
                 !.pc = "update", !.targets = ExpiredAt(clock),
                 !.seen = ExpiredAt(clock), !.now = clock, !.verdict = "purged"]]
    /\ UNCHANGED <<clock, isActive, dbVars, histVars>>

\* Mutant of StillMatches: `revoke` without its filter on revoked_at.
StillMatches_AnyRow(p, t) == t \in rows

\* The row a statement visits still meets its WHERE clause.
StillMatches(p, t) ==
    IF req[p].verdict = "purged" THEN t \in rows ELSE Unrevoked(t)

WriteRow(p, t) ==
    /\ req[p].pc = "update"
    /\ t \in req[p].targets
    /\ lock[t] \in {NoProc, p}
    /\ StillMatches(p, t)
    /\ lock' = [lock EXCEPT ![t] = p]
    /\ req' = [req EXCEPT ![p] = [@ EXCEPT !.targets = req[p].targets \ {t},
                                           !.marked = req[p].marked \cup {t}]]
    /\ UNCHANGED <<clock, isActive, rows, row, histVars>>

\* Mutant of SkipRow: rows locked by others are skipped instead of waited for.
SkipRow_SkipLocked(p, t) ==
    /\ req[p].pc = "update"
    /\ t \in req[p].targets
    /\ lock[t] \notin {NoProc, p}
    /\ req' = [req EXCEPT ![p] = [@ EXCEPT !.targets = req[p].targets \ {t}]]
    /\ UNCHANGED <<clock, isActive, dbVars, histVars>>

SkipRow(p, t) ==
    /\ req[p].pc = "update"
    /\ t \in req[p].targets
    /\ lock[t] \in {NoProc, p}
    /\ ~StillMatches(p, t)
    /\ req' = [req EXCEPT ![p] = [@ EXCEPT !.targets = req[p].targets \ {t}]]
    /\ UNCHANGED <<clock, isActive, dbVars, histVars>>

EndStatement(p) ==
    /\ req[p].pc = "update"
    /\ req[p].targets = {}
    /\ req' = [req EXCEPT ![p] = [@ EXCEPT !.pc = "commit"]]
    /\ UNCHANGED <<clock, isActive, dbVars, histVars>>

(***************************************************************************)
(* COMMIT: what the transaction wrote becomes visible at once.             *)
(***************************************************************************)
CommitRevocations(p) ==
    /\ req[p].pc = "commit"
    /\ req[p].verdict \notin {"exchanged", "purged"}
    /\ row' = [t \in Tokens |-> IF t \in req[p].marked
                                  THEN [row[t] EXCEPT !.revoked_at = req[p].now]
                                  ELSE row[t]]
    /\ ended' = IF req[p].verdict \in {"replayed", "signout"}
                  THEN ended \cup {<<row[req[p].tok].session, req[p].verdict>>}
                  ELSE ended
    /\ Release(p)
    /\ UNCHANGED <<clock, isActive, rows, issued, opened, parent>>

\* Mutant of CommitExchange: the presented token is not spent.
CommitExchange_KeepsOld(p) ==
    LET t == req[p].tok IN
    /\ req[p].pc = "commit"
    /\ req[p].verdict = "exchanged"
    /\ rows' = rows \cup {req[p].fresh}
    /\ row' = [row EXCEPT ![req[p].fresh] = NewRow(row[t].user, row[t].session, req[p].now)]
    /\ parent' = [parent EXCEPT ![req[p].fresh] = t]
    /\ Release(p)
    /\ UNCHANGED <<clock, isActive, issued, opened, ended>>

CommitExchange(p) ==
    LET t == req[p].tok IN
    /\ req[p].pc = "commit"
    /\ req[p].verdict = "exchanged"
    /\ rows' = rows \cup {req[p].fresh}
    /\ row' = [row EXCEPT ![t].revoked_at = req[p].now,
                          ![req[p].fresh] = NewRow(row[t].user, row[t].session, req[p].now)]
    /\ parent' = [parent EXCEPT ![req[p].fresh] = t]
    /\ Release(p)
    /\ UNCHANGED <<clock, isActive, issued, opened, ended>>

CommitPurge(p) ==
    /\ req[p].pc = "commit"
    /\ req[p].verdict = "purged"
    /\ rows' = rows \ req[p].marked
    /\ Release(p)
    /\ UNCHANGED <<clock, isActive, row, histVars>>

--------------------------------------------------------------------------------
(***************************************************************************)
(* What happens to a request from outside.                                 *)
(***************************************************************************)

\* p waits for a row that q has locked.
WaitsFor(p, q) == q # p /\ \E t \in req[p].targets : lock[t] = q

\* p is on a cycle of waits: PostgreSQL's deadlock detector aborts it.
Deadlocked(p) ==
    \E S \in SUBSET Procs : p \in S /\ \A q \in S : \E r \in S : WaitsFor(q, r)

DeadlockAbort(p) ==
    /\ Deadlocked(p)
    /\ Release(p)
    /\ UNCHANGED <<clock, isActive, rows, row, histVars>>

\* The worker dies, or its connection does: the server rolls back.
Crash(p) ==
    /\ req[p].pc # "idle"
    /\ Release(p)
    /\ UNCHANGED <<clock, isActive, rows, row, histVars>>

\* An administrator writes User.is_active.
SetActive(u) ==
    /\ isActive' = [isActive EXCEPT ![u] = ~@]
    /\ UNCHANGED <<clock, dbVars, req, histVars>>

Tick ==
    /\ clock < MaxTime
    /\ clock' = clock + 1
    /\ UNCHANGED <<isActive, dbVars, req, histVars>>

Step(p) ==
    \/ \E t \in Tokens, s \in Sessions : Login(p, t, s)
    \/ RotateSelect(p) \/ RotateGone(p)
    \/ RotateReplayed(p) \/ RotateExpired(p) \/ RotateInactive(p)
    \/ \E t \in Tokens : RotateExchange(p, t)
    \/ RevokeSession(p) \/ RevokeForUsers(p)
    \/ \E t \in Tokens : WriteRow(p, t) \/ SkipRow(p, t)
    \/ EndStatement(p)
    \/ CommitRevocations(p) \/ CommitExchange(p) \/ CommitPurge(p)

Next ==
    \/ \E p \in Procs :
         \/ \E u \in Users : Authenticate(p, u)
         \/ \E t \in Tokens : Refresh(p, t) \/ Revoke(p, t)
         \/ Purge(p)
         \/ Step(p)
         \/ DeadlockAbort(p)
         \/ Crash(p)
    \/ \E u \in Users : SetActive(u)
    \/ Tick

Spec == Init /\ [][Next]_vars

(***************************************************************************)
(* A request that has started is carried on by its worker; PostgreSQL      *)
(* queues the waiters of a row lock, hence strong fairness for the steps   *)
(* that take one, and its deadlock detector always runs.                   *)
(***************************************************************************)
TakesLock(p) ==
    \/ RotateReplayed(p) \/ RotateExpired(p) \/ RotateInactive(p)
    \/ \E t \in Tokens : RotateExchange(p, t) \/ WriteRow(p, t) \/ SkipRow(p, t)

FairSpec ==
    /\ Spec
    /\ \A p \in Procs : /\ WF_vars(Step(p))
                        /\ SF_vars(TakesLock(p))
                        /\ WF_vars(DeadlockAbort(p))

--------------------------------------------------------------------------------
(***************************************************************************)
(* Properties.                                                             *)
(***************************************************************************)

\* A rotation chain never has two tokens that can be exchanged: the row lock
\* of _rotate makes spending the old token and issuing the new one exclusive.
OneLiveTokenPerSession ==
    \A t1, t2 \in rows :
        Unrevoked(t1) /\ Unrevoked(t2) /\ row[t1].session = row[t2].session => t1 = t2

\* Rotation is single-use: two tokens are never issued in exchange of the same
\* one, however many requests present it at the same time.
SingleUse ==
    \A t1, t2 \in Tokens :
        parent[t1] = parent[t2] /\ parent[t1] # NoToken => t1 = t2

\* The evidence a replay is recognised by is kept: a revoked row keeps its
\* first revoked_at, and goes away only once the token has expired.
EvidenceKept ==
    [][\A t \in rows :
         /\ t \notin rows' => row[t].expires_at <= clock
         /\ t \in rows' /\ row[t].revoked_at # Null
              => row'[t].revoked_at = row[t].revoked_at]_vars

\* A sign-out, a replay or a refresh by an inactive user leaves no token alive
\* that its UPDATE statement found, whatever runs at the same time: rows locked
\* by others are waited for, not skipped.
RevocationReachesWhatItSaw ==
    [][\A p \in Procs : CommitRevocations(p) =>
         \A t \in req[p].seen : ~Unrevoked(t)']_vars

\* "Sign out" means the session: none of its tokens can be exchanged afterwards.
SignOutEndsSession ==
    \A t \in rows : Unrevoked(t) => <<row[t].session, "signout">> \notin ended

(***************************************************************************)
(* The abstract view: the tokens of each session that may be exchanged, and *)
(* the secrets that are no longer only in an open transaction.              *)
(***************************************************************************)
LiveTokens == [s \in Sessions |-> {t \in OfSession(s) : Unrevoked(t)}]

InFlight == {req[p].fresh : p \in Procs}

Chains == INSTANCE SessionChains
            WITH live <- LiveTokens, used <- issued \ InFlight, begun <- opened

\* The rows, locks and transactions implement single-use chains: every step
\* opens, rotates or ends sessions, or is invisible to clients.
ImplementsChains == Chains!ChainSpec

(***************************************************************************)
(* The inductive invariant behind the properties above.                    *)
(***************************************************************************)

\* Tokens whose row has been committed, or whose transaction is gone.
Settled == issued \ InFlight

\* How far a request is decides which of its locals are set.
LocalsOK(r) ==
    /\ r.now <= clock
    /\ r.pc = "login" => r.user \in Users
    /\ r.pc \in {"select", "wait"} => r.tok \in Tokens
    /\ r.pc \in {"idle", "login", "select", "wait"} <=> r.verdict = "none"
    /\ r.pc \in {"replayed", "inactive", "signout"} => r.verdict = r.pc
    /\ r.verdict \notin {"none", "purged"} => r.tok \in Settled
    /\ r.pc \notin {"update", "commit"} => r.marked = {} /\ r.seen = {}
    /\ r.pc # "update" => r.targets = {}
    /\ r.fresh # NoToken <=> r.verdict = "exchanged"
    /\ r.verdict = "exchanged"
         => r.pc = "commit" /\ r.marked = {r.tok} /\ r.fresh \in issued

\* What a transaction has written is as it found it; what it found and has not
\* written it still has to visit, or needs no visit.
WritesOK(r) ==
    /\ r.marked \subseteq rows
    /\ r.verdict # "purged" => \A t \in r.marked : Unrevoked(t)
    /\ r.targets \subseteq Settled /\ r.seen \subseteq Settled
    /\ r.verdict = "purged" =>
         \A t \in r.targets \cup r.marked : row[t].expires_at <= r.now
    /\ r.verdict # "purged" =>
         \A t \in r.seen : t \in r.targets \cup r.marked \/ ~Unrevoked(t)

\* Rows written by an open transaction are locked by it.
LocksInv == \A p \in Procs : \A t \in req[p].marked : lock[t] = p

\* A token that was exchanged is settled and can no longer be.
SpentInv ==
    \A t \in Tokens : parent[t] # NoToken =>
        t \in Settled /\ parent[t] \in Settled /\ ~Unrevoked(parent[t])

\* The sessions and secrets in the table are not new, and no two open
\* transactions insert the same secret.
FreshInv ==
    /\ rows \subseteq Settled
    /\ \A t \in rows : row[t].session \in opened
    /\ \A p, q \in Procs : req[p].fresh = req[q].fresh /\ p # q => req[p].fresh = NoToken

\* Everything the proofs need of a reachable state.
IInv ==
    /\ TypeOK
    /\ \A p \in Procs : LocalsOK(req[p]) /\ WritesOK(req[p])
    /\ LocksInv
    /\ FreshInv
    /\ SpentInv
    /\ OneLiveTokenPerSession
    /\ SingleUse

\* The bounds of the model, not the code, keep this request from going on.
OutOfRoom(p) ==
    \/ req[p].pc = "login" /\ (issued = Tokens \/ opened = Sessions)
    \/ req[p].pc = "wait" /\ issued = Tokens

\* Every request is answered, or its worker dies: no wait for a row lock lasts
\* for ever, deadlocks between revocations included.
RequestsEnd ==
    \A p \in Procs :
        req[p].pc # "idle" ~> (req[p].pc = "idle" \/ OutOfRoom(p))

================================================================================
