-------------------------- MODULE RefreshTokensProofs --------------------------
(***************************************************************************)
(* Proofs about RefreshTokens, for any sets of users, processes, tokens and *)
(* sessions and any lifetimes.                                              *)
(***************************************************************************)
EXTENDS RefreshTokens, TLAPS

\* Replacing one process's request leaves the others' alone.
LEMMA RequestUpdate ==
  ASSUME req \in [Procs -> Request], NEW p \in Procs, NEW r \in Request,
         req' = [req EXCEPT ![p] = r]
  PROVE  /\ req' \in [Procs -> Request]
         /\ req'[p] = r
         /\ \A q \in Procs : q # p => req'[q] = req[q]
OBVIOUS

\* The request of a process that serves none.
LEMMA IdleRequestType == IdleRequest \in Request
BY DEF IdleRequest, Request, PCs, Verdicts

\* The end of a transaction keeps the types of the locks and the requests.
LEMMA ReleaseType ==
  ASSUME TypeOK, NEW p \in Procs, Release(p)
  PROVE  req' \in [Procs -> Request] /\ lock' \in [Tokens -> Procs \cup {NoProc}]
BY IdleRequestType DEF TypeOK, Release

\* A row minted by `issue`.
LEMMA NewRowType ==
  ASSUME NEW u \in Users, NEW s \in Sessions, NEW n \in Nat
  PROVE  NewRow(u, s, n) \in Row
BY ConstantsAssumption DEF NewRow, Row

\* A row stamped by `revoke`.
LEMMA RevokedRowType ==
  ASSUME NEW r \in Row, NEW n \in Nat
  PROVE  [r EXCEPT !.revoked_at = n] \in Row
BY DEF Row

\* The fields of a request have their types.
LEMMA RequestFields ==
  ASSUME TypeOK, NEW p \in Procs
  PROVE  /\ req[p] \in Request
         /\ req[p].tok \in Tokens \cup {NoToken} /\ req[p].fresh \in Tokens \cup {NoToken}
         /\ req[p].now \in Nat /\ req[p].user \in Users \cup {NoUser}
         /\ req[p].targets \subseteq Tokens /\ req[p].marked \subseteq Tokens
         /\ req[p].seen \subseteq Tokens
BY DEF TypeOK, Request

--------------------------------------------------------------------------------
\* A step that writes no row, and only moves p's request on or has it take a lock
\* that nobody else holds, keeps the invariant if p's new request fits it.
LEMMA QuietStep ==
  ASSUME IInv, NEW p \in Procs, NEW r \in Request,
         UNCHANGED <<clock, isActive, rows, row, histVars>>,
         req' = [req EXCEPT ![p] = r],
         r.fresh = req[p].fresh,
         lock' \in [Tokens -> Procs \cup {NoProc}],
         \A t \in Tokens : lock'[t] = lock[t] \/ (lock[t] = NoProc /\ lock'[t] = p),
         LocalsOK(r), WritesOK(r), \A t \in r.marked : lock'[t] = p
  PROVE  IInv'
<1>1. /\ req' \in [Procs -> Request] /\ req'[p] = r
      /\ \A q \in Procs : q # p => req'[q] = req[q]
  BY DEF IInv, TypeOK
<1>2. TypeOK'
  BY <1>1 DEF IInv, TypeOK, histVars
<1>3. \A q \in Procs : req'[q].fresh = req[q].fresh
  BY <1>1
<1>4. InFlight' = InFlight /\ Settled' = Settled
  BY <1>3 DEF InFlight, Settled, histVars
<1>5. \A t : Unrevoked(t)' <=> Unrevoked(t)
  BY DEF Unrevoked
<1>6. ASSUME NEW q \in Procs PROVE (LocalsOK(req[q]) /\ WritesOK(req[q]))'
  <2>1. LocalsOK(req'[q]) /\ WritesOK(req'[q])
    BY <1>1 DEF IInv
  <2> QED
    BY <2>1, <1>4, <1>5 DEF LocalsOK, WritesOK, histVars
<1>7. LocksInv'
  BY <1>1, ConstantsAssumption, RequestFields DEF IInv, LocksInv
<1>8. FreshInv'
  BY <1>3, <1>4 DEF FreshInv, IInv, histVars
<1>9. SpentInv' /\ SingleUse' /\ OneLiveTokenPerSession'
  BY <1>4, <1>5 DEF SpentInv, SingleUse, OneLiveTokenPerSession, IInv, histVars
<1> QED
  BY <1>2, <1>6, <1>7, <1>8, <1>9 DEF IInv

\* The steps of a request up to its verdict, RotateExchange excepted.
LEMMA RequestStep ==
  ASSUME IInv, NEW p \in Procs,
         \/ \E u \in Users : Authenticate(p, u)
         \/ \E t \in Tokens : Refresh(p, t) \/ Revoke(p, t)
         \/ RotateSelect(p) \/ RotateGone(p)
         \/ RotateReplayed(p) \/ RotateExpired(p) \/ RotateInactive(p)
  PROVE  IInv'
<1>0. /\ LocalsOK(req[p]) /\ WritesOK(req[p]) /\ TypeOK /\ req[p] \in Request
      /\ LocksInv /\ rows \subseteq Settled /\ clock \in Nat /\ clock <= clock
  BY RequestFields DEF IInv, FreshInv, TypeOK
<1> USE <1>0, ConstantsAssumption DEF dbVars
<1>1. ASSUME NEW u \in Users, Authenticate(p, u) PROVE IInv'
  <2> DEFINE r == [req[p] EXCEPT !.pc = "login", !.user = u, !.now = clock]
  <2>1. r \in Request
    BY <1>1 DEF Authenticate, Request, PCs, Verdicts, TypeOK
  <2>2. /\ UNCHANGED <<clock, isActive, rows, row, histVars>> /\ req' = [req EXCEPT ![p] = r]
        /\ lock' = lock
    BY <1>1 DEF Authenticate
  <2>3. r.fresh = req[p].fresh /\ LocalsOK(r)
    BY <1>1 DEF Authenticate, LocalsOK, Request, TypeOK
  <2>4. WritesOK(r)
    BY <1>1 DEF Authenticate, LocalsOK, WritesOK, Request, TypeOK
  <2>5. \A x \in r.marked : lock'[x] = p
    BY <1>1, <2>2 DEF Authenticate, LocalsOK, LocksInv, Request, TypeOK
  <2>6. /\ lock' \in [Tokens -> Procs \cup {NoProc}]
        /\ \A x \in Tokens : lock'[x] = lock[x] \/ (lock[x] = NoProc /\ lock'[x] = p)
    BY <1>1, <2>2 DEF Authenticate, TypeOK
  <2> HIDE DEF r
  <2> QED
    BY <2>1, <2>2, <2>3, <2>4, <2>5, <2>6, QuietStep
<1>2. ASSUME NEW t \in Tokens, Refresh(p, t) PROVE IInv'
  <2> DEFINE r == [req[p] EXCEPT !.pc = "select", !.tok = t, !.now = clock]
  <2>1. r \in Request
    BY <1>2 DEF Refresh, Request, PCs, Verdicts, TypeOK
  <2>2. /\ UNCHANGED <<clock, isActive, rows, row, histVars>> /\ req' = [req EXCEPT ![p] = r]
        /\ lock' = lock
    BY <1>2 DEF Refresh
  <2>3. r.fresh = req[p].fresh /\ LocalsOK(r)
    BY <1>2 DEF Refresh, LocalsOK, Request, TypeOK
  <2>4. WritesOK(r)
    BY <1>2 DEF Refresh, LocalsOK, WritesOK, Request, TypeOK
  <2>5. \A x \in r.marked : lock'[x] = p
    BY <1>2, <2>2 DEF Refresh, LocalsOK, LocksInv, Request, TypeOK
  <2>6. /\ lock' \in [Tokens -> Procs \cup {NoProc}]
        /\ \A x \in Tokens : lock'[x] = lock[x] \/ (lock[x] = NoProc /\ lock'[x] = p)
    BY <1>2, <2>2 DEF Refresh, TypeOK
  <2> HIDE DEF r
  <2> QED
    BY <2>1, <2>2, <2>3, <2>4, <2>5, <2>6, QuietStep
<1>3. ASSUME NEW t \in Tokens, Revoke(p, t) PROVE IInv'
  <2> DEFINE r == [req[p] EXCEPT !.pc = "signout", !.tok = t, !.verdict = "signout"]
  <2>1. r \in Request
    BY <1>3 DEF Revoke, Request, PCs, Verdicts, TypeOK
  <2>2. /\ UNCHANGED <<clock, isActive, rows, row, histVars>> /\ req' = [req EXCEPT ![p] = r]
        /\ lock' = lock
    BY <1>3 DEF Revoke
  <2>3. r.fresh = req[p].fresh /\ LocalsOK(r)
    BY <1>3 DEF Revoke, LocalsOK, Request, TypeOK
  <2>4. WritesOK(r)
    BY <1>3 DEF Revoke, LocalsOK, WritesOK, Request, TypeOK
  <2>5. \A x \in r.marked : lock'[x] = p
    BY <1>3, <2>2 DEF Revoke, LocalsOK, LocksInv, Request, TypeOK
  <2>6. /\ lock' \in [Tokens -> Procs \cup {NoProc}]
        /\ \A x \in Tokens : lock'[x] = lock[x] \/ (lock[x] = NoProc /\ lock'[x] = p)
    BY <1>3, <2>2 DEF Revoke, TypeOK
  <2> HIDE DEF r
  <2> QED
    BY <2>1, <2>2, <2>3, <2>4, <2>5, <2>6, QuietStep
<1>4. ASSUME RotateGone(p) \/ RotateSelect(p), req[p].tok \notin rows PROVE IInv'
  <2>1. /\ UNCHANGED <<clock, isActive, rows, row, lock, histVars>>
        /\ req' = [req EXCEPT ![p] = IdleRequest]
    BY <1>4 DEF RotateGone, RotateSelect
  <2>2. /\ LocalsOK(IdleRequest) /\ WritesOK(IdleRequest) /\ IdleRequest.marked = {}
        /\ IdleRequest.fresh = req[p].fresh
    BY <1>4 DEF LocalsOK, WritesOK, IdleRequest, TypeOK, RotateGone, RotateSelect
  <2> QED
    BY <2>1, <2>2, IdleRequestType, QuietStep DEF TypeOK
<1>5. ASSUME RotateSelect(p), req[p].tok \in rows PROVE IInv'
  <2> DEFINE r == [req[p] EXCEPT !.pc = "wait", !.sawActive = isActive[row[req[p].tok].user]]
  <2>1. r \in Request
    BY <1>5 DEF RotateSelect, Request, PCs, Verdicts, TypeOK, Row
  <2>2. /\ UNCHANGED <<clock, isActive, rows, row, histVars>> /\ req' = [req EXCEPT ![p] = r]
        /\ lock' = lock
    BY <1>5 DEF RotateSelect
  <2>3. r.fresh = req[p].fresh /\ LocalsOK(r)
    BY <1>5 DEF RotateSelect, LocalsOK, Request, TypeOK
  <2>4. WritesOK(r)
    BY <1>5 DEF RotateSelect, LocalsOK, WritesOK, Request, TypeOK
  <2>5. \A x \in r.marked : lock'[x] = p
    BY <1>5, <2>2 DEF RotateSelect, LocalsOK, LocksInv, Request, TypeOK
  <2>6. /\ lock' \in [Tokens -> Procs \cup {NoProc}]
        /\ \A x \in Tokens : lock'[x] = lock[x] \/ (lock[x] = NoProc /\ lock'[x] = p)
    BY <1>5, <2>2 DEF RotateSelect, TypeOK
  <2> HIDE DEF r
  <2> QED
    BY <2>1, <2>2, <2>3, <2>4, <2>5, <2>6, QuietStep
<1>6. ASSUME RotateReplayed(p) PROVE IInv'
  <2> DEFINE r == [req[p] EXCEPT !.pc = "replayed", !.verdict = "replayed"]
  <2>1. r \in Request
    BY <1>6 DEF RotateReplayed, LockRow, Request, PCs, Verdicts, TypeOK
  <2>2. /\ UNCHANGED <<clock, isActive, rows, row, histVars>> /\ req' = [req EXCEPT ![p] = r]
        /\ lock' = [lock EXCEPT ![req[p].tok] = p] /\ req[p].tok \in Tokens
    BY <1>6 DEF RotateReplayed, LockRow, LocalsOK
  <2>3. r.fresh = req[p].fresh /\ LocalsOK(r)
    BY <1>6 DEF RotateReplayed, LockRow, LocalsOK, Request, TypeOK
  <2>4. WritesOK(r)
    BY <1>6 DEF RotateReplayed, LockRow, LocalsOK, WritesOK, Request, TypeOK
  <2>5. \A x \in r.marked : lock'[x] = p
    BY <1>6, <2>2 DEF RotateReplayed, LockRow, LocalsOK, LocksInv, Request, TypeOK
  <2>6. /\ lock' \in [Tokens -> Procs \cup {NoProc}]
        /\ \A x \in Tokens : lock'[x] = lock[x] \/ (lock[x] = NoProc /\ lock'[x] = p)
    BY <1>6, <2>2 DEF RotateReplayed, LockRow, TypeOK
  <2> HIDE DEF r
  <2> QED
    BY <2>1, <2>2, <2>3, <2>4, <2>5, <2>6, QuietStep
<1>7. ASSUME RotateExpired(p) PROVE IInv'
  <2> DEFINE r == [req[p] EXCEPT !.pc = "commit", !.marked = {req[p].tok},
                           !.verdict = "expired"]
  <2>1. r \in Request
    BY <1>7 DEF RotateExpired, LockRow, Request, PCs, Verdicts, TypeOK
  <2>2. /\ UNCHANGED <<clock, isActive, rows, row, histVars>> /\ req' = [req EXCEPT ![p] = r]
        /\ lock' = [lock EXCEPT ![req[p].tok] = p] /\ req[p].tok \in Tokens
    BY <1>7 DEF RotateExpired, LockRow, LocalsOK
  <2>3. r.fresh = req[p].fresh /\ LocalsOK(r)
    BY <1>7 DEF RotateExpired, LockRow, LocalsOK, Request, TypeOK, Unrevoked
  <2>4. WritesOK(r)
    BY <1>7 DEF RotateExpired, LockRow, LocalsOK, WritesOK, Request, TypeOK, Unrevoked
  <2>5. \A x \in r.marked : lock'[x] = p
    BY <1>7, <2>2 DEF RotateExpired, LockRow, LocalsOK, LocksInv, Request, TypeOK
  <2>6. /\ lock' \in [Tokens -> Procs \cup {NoProc}]
        /\ \A x \in Tokens : lock'[x] = lock[x] \/ (lock[x] = NoProc /\ lock'[x] = p)
    BY <1>7, <2>2 DEF RotateExpired, LockRow, TypeOK
  <2> HIDE DEF r
  <2> QED
    BY <2>1, <2>2, <2>3, <2>4, <2>5, <2>6, QuietStep
<1>8. ASSUME RotateInactive(p) PROVE IInv'
  <2> DEFINE r == [req[p] EXCEPT !.pc = "inactive", !.verdict = "inactive"]
  <2>1. r \in Request
    BY <1>8 DEF RotateInactive, LockRow, Request, PCs, Verdicts, TypeOK
  <2>2. /\ UNCHANGED <<clock, isActive, rows, row, histVars>> /\ req' = [req EXCEPT ![p] = r]
        /\ lock' = [lock EXCEPT ![req[p].tok] = p] /\ req[p].tok \in Tokens
    BY <1>8 DEF RotateInactive, LockRow, LocalsOK
  <2>3. r.fresh = req[p].fresh /\ LocalsOK(r)
    BY <1>8 DEF RotateInactive, LockRow, LocalsOK, Request, TypeOK
  <2>4. WritesOK(r)
    BY <1>8 DEF RotateInactive, LockRow, LocalsOK, WritesOK, Request, TypeOK
  <2>5. \A x \in r.marked : lock'[x] = p
    BY <1>8, <2>2 DEF RotateInactive, LockRow, LocalsOK, LocksInv, Request, TypeOK
  <2>6. /\ lock' \in [Tokens -> Procs \cup {NoProc}]
        /\ \A x \in Tokens : lock'[x] = lock[x] \/ (lock[x] = NoProc /\ lock'[x] = p)
    BY <1>8, <2>2 DEF RotateInactive, LockRow, TypeOK
  <2> HIDE DEF r
  <2> QED
    BY <2>1, <2>2, <2>3, <2>4, <2>5, <2>6, QuietStep
<1> QED
  BY <1>1, <1>2, <1>3, <1>4, <1>5, <1>6, <1>7, <1>8 DEF RotateGone

\* The steps of the statements that revoke or purge several rows.
LEMMA StatementStep ==
  ASSUME IInv, NEW p \in Procs,
         \/ RevokeSession(p) \/ RevokeForUsers(p) \/ Purge(p) \/ EndStatement(p)
         \/ \E t \in Tokens : WriteRow(p, t) \/ SkipRow(p, t)
  PROVE  IInv'
<1>0. /\ LocalsOK(req[p]) /\ WritesOK(req[p]) /\ TypeOK /\ req[p] \in Request
      /\ LocksInv /\ rows \subseteq Settled /\ clock \in Nat /\ clock <= clock
      /\ rows \subseteq Tokens
  BY RequestFields DEF IInv, FreshInv, TypeOK
<1> USE <1>0, ConstantsAssumption DEF dbVars
<1>1. ASSUME RevokeSession(p) PROVE IInv'
  <2> DEFINE S == {t \in OfSession(row[req[p].tok].session) : Unrevoked(t)}
             n == IF req[p].pc = "signout" THEN clock ELSE req[p].now
             r == [req[p] EXCEPT !.pc = "update", !.targets = S, !.seen = S, !.now = n]
  <2>0. /\ S \subseteq Settled /\ S \subseteq Tokens /\ n \in Nat /\ n <= clock
        /\ req[p].marked = {} /\ req[p].verdict \notin {"none", "purged", "exchanged"}
    BY <1>1 DEF RevokeSession, OfSession, Unrevoked, LocalsOK, Request, TypeOK
  <2>2. /\ UNCHANGED <<clock, isActive, rows, row, lock, histVars>>
        /\ req' = [req EXCEPT ![p] = r]
    BY <1>1 DEF RevokeSession, StartStatement
  <2> HIDE DEF S, n
  <2>1. r \in Request
    BY <2>0 DEF Request, PCs
  <2>3. r.fresh = req[p].fresh /\ r.marked = {} /\ LocalsOK(r)
    BY <2>0 DEF LocalsOK, Request
  <2>4. WritesOK(r)
    BY <2>0 DEF WritesOK, Request
  <2> HIDE DEF r
  <2> QED
    BY <2>1, <2>2, <2>3, <2>4, QuietStep DEF TypeOK
<1>2. ASSUME RevokeForUsers(p) PROVE IInv'
  <2> DEFINE S == {t \in OfUser(row[req[p].tok].user) : Unrevoked(t)}
             n == req[p].now
             r == [req[p] EXCEPT !.pc = "update", !.targets = S, !.seen = S, !.now = n]
  <2>0. /\ S \subseteq Settled /\ S \subseteq Tokens /\ n \in Nat /\ n <= clock
        /\ req[p].marked = {} /\ req[p].verdict \notin {"none", "purged", "exchanged"}
    BY <1>2 DEF RevokeForUsers, OfUser, Unrevoked, LocalsOK, Request, TypeOK
  <2>2. /\ UNCHANGED <<clock, isActive, rows, row, lock, histVars>>
        /\ req' = [req EXCEPT ![p] = r]
    BY <1>2 DEF RevokeForUsers, StartStatement
  <2> HIDE DEF S, n
  <2>1. r \in Request
    BY <2>0 DEF Request, PCs
  <2>3. r.fresh = req[p].fresh /\ r.marked = {} /\ LocalsOK(r)
    BY <2>0 DEF LocalsOK, Request
  <2>4. WritesOK(r)
    BY <2>0 DEF WritesOK, Request
  <2> HIDE DEF r
  <2> QED
    BY <2>1, <2>2, <2>3, <2>4, QuietStep DEF TypeOK
<1>3. ASSUME Purge(p) PROVE IInv'
  <2> DEFINE S == ExpiredAt(clock)
             r == [req[p] EXCEPT !.pc = "update", !.targets = S, !.seen = S,
                                 !.now = clock, !.verdict = "purged"]
  <2>0. /\ S \subseteq Settled /\ S \subseteq Tokens /\ \A t \in S : row[t].expires_at <= clock
        /\ req[p].marked = {} /\ req[p].fresh = NoToken
    BY <1>3 DEF Purge, ExpiredAt, LocalsOK
  <2>2. /\ UNCHANGED <<clock, isActive, rows, row, lock, histVars>>
        /\ req' = [req EXCEPT ![p] = r]
    BY <1>3 DEF Purge
  <2> HIDE DEF S
  <2>1. r \in Request
    BY <2>0 DEF Request, PCs, Verdicts
  <2>3. r.fresh = req[p].fresh /\ r.marked = {} /\ LocalsOK(r)
    BY <2>0 DEF LocalsOK, Request
  <2>4. WritesOK(r)
    BY <2>0 DEF WritesOK, Request
  <2> HIDE DEF r
  <2> QED
    BY <2>1, <2>2, <2>3, <2>4, QuietStep DEF TypeOK
<1>4. ASSUME EndStatement(p) PROVE IInv'
  <2> DEFINE r == [req[p] EXCEPT !.pc = "commit"]
  <2>1. r \in Request
    BY <1>4 DEF EndStatement, Request, PCs, Verdicts, TypeOK
  <2>2. /\ UNCHANGED <<clock, isActive, rows, row, histVars>> /\ req' = [req EXCEPT ![p] = r]
        /\ lock' = lock
    BY <1>4 DEF EndStatement
  <2>3. r.fresh = req[p].fresh /\ LocalsOK(r)
    BY <1>4 DEF EndStatement, LocalsOK, Request, TypeOK
  <2>4. WritesOK(r)
    BY <1>4 DEF EndStatement, LocalsOK, WritesOK, Request, TypeOK
  <2>5. \A x \in r.marked : lock'[x] = p
    BY <1>4, <2>2 DEF EndStatement, LocalsOK, LocksInv, Request, TypeOK
  <2>6. /\ lock' \in [Tokens -> Procs \cup {NoProc}]
        /\ \A x \in Tokens : lock'[x] = lock[x] \/ (lock[x] = NoProc /\ lock'[x] = p)
    BY <1>4, <2>2 DEF EndStatement, TypeOK
  <2> HIDE DEF r
  <2> QED
    BY <2>1, <2>2, <2>3, <2>4, <2>5, <2>6, QuietStep
<1>5. ASSUME NEW t \in Tokens, WriteRow(p, t) PROVE IInv'
  <2> DEFINE r == [req[p] EXCEPT !.targets = req[p].targets \ {t}, !.marked = req[p].marked \cup {t}]
  <2>1. r \in Request
    BY <1>5 DEF WriteRow, StillMatches, Unrevoked, Request, PCs, Verdicts, TypeOK
  <2>2. /\ UNCHANGED <<clock, isActive, rows, row, histVars>> /\ req' = [req EXCEPT ![p] = r]
        /\ lock' = [lock EXCEPT ![t] = p] /\ t \in Tokens
    BY <1>5 DEF WriteRow
  <2>3. r.fresh = req[p].fresh /\ LocalsOK(r)
    BY <1>5 DEF WriteRow, StillMatches, Unrevoked, LocalsOK, Request, TypeOK
  <2>4. WritesOK(r)
    BY <1>5 DEF WriteRow, StillMatches, Unrevoked, LocalsOK, WritesOK, Request, TypeOK
  <2>5. \A x \in r.marked : lock'[x] = p
    BY <2>2, WritesOK(req[p]) DEF LocksInv, WritesOK, Request, TypeOK
  <2>6. /\ lock' \in [Tokens -> Procs \cup {NoProc}]
        /\ \A x \in Tokens : lock'[x] = lock[x] \/ (lock[x] = NoProc /\ lock'[x] = p)
    BY <1>5, <2>2 DEF WriteRow, StillMatches, Unrevoked, TypeOK
  <2> HIDE DEF r
  <2> QED
    BY <2>1, <2>2, <2>3, <2>4, <2>5, <2>6, QuietStep
<1>6. ASSUME NEW t \in Tokens, SkipRow(p, t) PROVE IInv'
  <2> DEFINE r == [req[p] EXCEPT !.targets = req[p].targets \ {t}]
  <2>1. r \in Request
    BY <1>6 DEF SkipRow, StillMatches, Unrevoked, Request, PCs, Verdicts, TypeOK
  <2>2. /\ UNCHANGED <<clock, isActive, rows, row, histVars>> /\ req' = [req EXCEPT ![p] = r]
        /\ lock' = lock
    BY <1>6 DEF SkipRow, StillMatches, Unrevoked
  <2>3. r.fresh = req[p].fresh /\ LocalsOK(r)
    BY <1>6 DEF SkipRow, StillMatches, Unrevoked, LocalsOK, Request, TypeOK
  <2>4. WritesOK(r)
    BY <1>6 DEF SkipRow, StillMatches, Unrevoked, LocalsOK, WritesOK, Request, TypeOK
  <2>5. \A x \in r.marked : lock'[x] = p
    BY <1>6, <2>2 DEF SkipRow, StillMatches, Unrevoked, LocalsOK, LocksInv, Request, TypeOK
  <2>6. /\ lock' \in [Tokens -> Procs \cup {NoProc}]
        /\ \A x \in Tokens : lock'[x] = lock[x] \/ (lock[x] = NoProc /\ lock'[x] = p)
    BY <1>6, <2>2 DEF SkipRow, StillMatches, Unrevoked, TypeOK
  <2> HIDE DEF r
  <2> QED
    BY <2>1, <2>2, <2>3, <2>4, <2>5, <2>6, QuietStep
<1> QED
  BY <1>1, <1>2, <1>3, <1>4, <1>5, <1>6

\* The invariant of a request that a step leaves alone: the step revives no
\* settled token, and touches none of the rows the request has written.
LEMMA Undisturbed ==
  ASSUME IInv, TypeOK', NEW q \in Procs, req'[q] = req[q],
         Settled \subseteq Settled', issued \subseteq issued', clock <= clock',
         \A t \in Settled : /\ Unrevoked(t)' => Unrevoked(t)
                            /\ row'[t].expires_at = row[t].expires_at,
         \A t \in req[q].marked : t \in rows' /\ (Unrevoked(t) => Unrevoked(t)')
  PROVE  (LocalsOK(req[q]) /\ WritesOK(req[q]))'
<1>1. LocalsOK(req[q]) /\ WritesOK(req[q]) /\ req[q].now \in Nat /\ rows \subseteq Settled
  BY RequestFields DEF IInv, FreshInv
<1>2. LocalsOK(req[q])'
  BY <1>1 DEF LocalsOK, IInv, TypeOK
<1>3. req[q].marked \subseteq Settled
  BY <1>1 DEF WritesOK
<1>4. WritesOK(req[q])'
  BY <1>1, <1>3 DEF WritesOK
<1> QED
  BY <1>2, <1>4

\* A process that serves no request has nothing written.
LEMMA IdleOK ==
  ASSUME TypeOK PROVE LocalsOK(IdleRequest) /\ WritesOK(IdleRequest)
BY DEF LocalsOK, WritesOK, IdleRequest, TypeOK

\* The end of a transaction: p is idle, the others keep their requests and locks.
LEMMA ReleaseFacts ==
  ASSUME IInv, NEW p \in Procs, Release(p)
  PROVE  /\ req' \in [Procs -> Request] /\ lock' \in [Tokens -> Procs \cup {NoProc}]
         /\ req'[p] = IdleRequest
         /\ \A q \in Procs : q # p => req'[q] = req[q]
         /\ \A x : x \in InFlight' <=> x = NoToken \/ \E q \in Procs : q # p /\ x = req[q].fresh
         /\ LocksInv'
<1>1. /\ req' \in [Procs -> Request] /\ lock' \in [Tokens -> Procs \cup {NoProc}]
      /\ req'[p] = IdleRequest
      /\ \A q \in Procs : q # p => req'[q] = req[q]
  BY ReleaseType DEF IInv, Release, TypeOK
<1>2. IdleRequest.fresh = NoToken /\ IdleRequest.marked = {}
  BY DEF IdleRequest
<1>3. \A x : x \in InFlight' <=> x = NoToken \/ \E q \in Procs : q # p /\ x = req[q].fresh
  BY <1>1, <1>2 DEF InFlight
<1>4. LocksInv'
  <2> SUFFICES ASSUME NEW q \in Procs, NEW t \in req'[q].marked PROVE lock'[t] = q
    BY DEF LocksInv
  <2>1. q # p /\ t \in req[q].marked
    BY <1>1, <1>2
  <2>2. t \in Tokens /\ lock[t] = q
    BY <2>1, RequestFields DEF IInv, LocksInv
  <2> QED
    BY <2>1, <2>2 DEF Release
<1> QED
  BY <1>1, <1>3, <1>4

\* A lost transaction settles the token it minted.
LEMMA AbortStep ==
  ASSUME IInv, NEW p \in Procs, DeadlockAbort(p) \/ Crash(p)
  PROVE  IInv'
<1>1. Release(p) /\ UNCHANGED <<clock, isActive, rows, row, histVars>>
  BY DEF DeadlockAbort, Crash
<1>2. TypeOK'
  BY <1>1, ReleaseFacts DEF IInv, TypeOK, histVars
<1>3. Settled \subseteq Settled' /\ issued' = issued
  <2>1. issued' = issued /\ issued \subseteq Tokens
    BY <1>1 DEF histVars, IInv, TypeOK
  <2>2. ASSUME NEW t \in Settled PROVE t \notin InFlight'
    <3>1. t \in Tokens /\ \A q \in Procs : t # req[q].fresh
      BY <2>1 DEF Settled, InFlight
    <3> QED
      BY <3>1, <1>1, ReleaseFacts, ConstantsAssumption
  <2> QED
    BY <2>1, <2>2 DEF Settled
<1>4. \A t : Unrevoked(t)' <=> Unrevoked(t)
  BY <1>1 DEF Unrevoked
<1>5. ASSUME NEW q \in Procs PROVE (LocalsOK(req[q]) /\ WritesOK(req[q]))'
  <2>1. CASE q = p
    BY <2>1, <1>1, <1>2, ReleaseFacts, IdleOK DEF LocalsOK, WritesOK, IdleRequest, TypeOK
  <2>2. CASE q # p
    <3>1. req'[q] = req[q] /\ clock <= clock' /\ req[q].marked \subseteq rows
      BY <2>2, <1>1, ReleaseFacts DEF IInv, TypeOK, WritesOK
    <3> QED
      BY <3>1, <1>1, <1>2, <1>3, <1>4, Undisturbed
  <2> QED
    BY <2>1, <2>2
<1>6. FreshInv'
  BY <1>1, <1>3, ReleaseFacts DEF FreshInv, IInv, histVars, IdleRequest
<1>7. SpentInv' /\ SingleUse' /\ OneLiveTokenPerSession'
  BY <1>1, <1>3, <1>4 DEF SpentInv, SingleUse, OneLiveTokenPerSession, IInv, histVars
<1> QED
  BY <1>1, <1>2, <1>5, <1>6, <1>7, ReleaseFacts DEF IInv

\* A login: the new row is alone in a session that did not exist.
LEMMA LoginStep ==
  ASSUME IInv, NEW p \in Procs, NEW t \in Tokens, NEW s \in Sessions, Login(p, t, s)
  PROVE  IInv'
<1>0. /\ TypeOK /\ LocalsOK(req[p]) /\ rows \subseteq Settled /\ Settled \subseteq issued
      /\ issued \subseteq Tokens
  BY DEF IInv, FreshInv, Settled, TypeOK
<1>1. /\ Release(p) /\ UNCHANGED <<clock, isActive, parent, ended>>
      /\ t \notin issued /\ s \notin opened /\ req[p].pc = "login"
      /\ rows' = rows \cup {t} /\ issued' = issued \cup {t} /\ opened' = opened \cup {s}
      /\ row' = [row EXCEPT ![t] = NewRow(req[p].user, s, req[p].now)]
  BY DEF Login
<1>2. NewRow(req[p].user, s, req[p].now) \in Row
  BY <1>0, <1>1, RequestFields, NewRowType DEF LocalsOK
<1>3. /\ row' \in [Tokens -> Row] /\ row'[t].session = s /\ row'[t].revoked_at = Null
      /\ \A x \in Tokens : x # t => row'[x] = row[x]
  BY <1>0, <1>1, <1>2 DEF TypeOK, NewRow
<1>4. TypeOK'
  BY <1>0, <1>1, <1>3, ReleaseFacts DEF TypeOK
<1>5. req[p].fresh = NoToken /\ \A q \in Procs : req[q].fresh \in issued \cup {NoToken}
  BY <1>0, <1>1, ConstantsAssumption DEF LocalsOK, IInv
<1>6. Settled' = Settled \cup {t}
  <2>0. \A x : x \in InFlight <=> \E q \in Procs : x = req[q].fresh
    BY DEF InFlight
  <2>1. \A x \in issued : x \in InFlight' <=> x \in InFlight
    BY <2>0, <1>0, <1>1, <1>5, ReleaseFacts, ConstantsAssumption
  <2>2. t \notin InFlight'
    BY <1>0, <1>1, <1>5, ReleaseFacts, ConstantsAssumption
  <2> QED
    BY <2>1, <2>2, <1>1 DEF Settled
<1>7. /\ \A x \in Tokens : x # t => (Unrevoked(x)' <=> Unrevoked(x))
      /\ t \notin Settled /\ t \notin rows
  BY <1>0, <1>1, <1>3 DEF Unrevoked
<1>8. ASSUME NEW q \in Procs PROVE (LocalsOK(req[q]) /\ WritesOK(req[q]))'
  <2>1. CASE q = p
    BY <2>1, <1>1, <1>4, ReleaseFacts, IdleOK DEF LocalsOK, WritesOK, IdleRequest, TypeOK
  <2>2. CASE q # p
    <3>1. req'[q] = req[q] /\ clock <= clock' /\ req[q].marked \subseteq rows
      BY <2>2, <1>1, ReleaseFacts DEF IInv, TypeOK, WritesOK
    <3> QED
      BY <3>1, <1>0, <1>1, <1>3, <1>4, <1>6, <1>7, Undisturbed
  <2> QED
    BY <2>1, <2>2
<1>9. FreshInv'
  BY <1>0, <1>1, <1>3, <1>6, ReleaseFacts DEF FreshInv, IInv, IdleRequest
<1>10. SpentInv'
  BY <1>0, <1>1, <1>6, <1>7 DEF SpentInv, IInv
<1>11. OneLiveTokenPerSession'
  <2>1. \A x \in rows : row[x].session # s /\ x # t /\ row'[x] = row[x]
    BY <1>0, <1>1, <1>3, <1>7 DEF IInv, FreshInv
  <2> QED
    BY <2>1, <1>0, <1>1, <1>3, <1>7 DEF OneLiveTokenPerSession, IInv, Unrevoked
<1>12. SingleUse'
  BY <1>1 DEF SingleUse, IInv
<1> QED
  BY <1>1, <1>4, <1>8, <1>9, <1>10, <1>11, <1>12, ReleaseFacts DEF IInv

\* A rotation spends the token it has locked and mints its successor; neither is
\* visible yet.
LEMMA ExchangeStep ==
  ASSUME IInv, NEW p \in Procs, NEW t \in Tokens, RotateExchange(p, t)
  PROVE  IInv'
<1> DEFINE r == [req[p] EXCEPT !.pc = "commit", !.marked = {req[p].tok},
                               !.fresh = t, !.verdict = "exchanged"]
<1>0. /\ TypeOK /\ LocalsOK(req[p]) /\ WritesOK(req[p]) /\ rows \subseteq Settled
      /\ Settled \subseteq issued /\ issued \subseteq Tokens /\ req[p] \in Request
  BY RequestFields DEF IInv, FreshInv, Settled, TypeOK
<1>1. /\ UNCHANGED <<clock, isActive, rows, row, opened, parent, ended>>
      /\ req' = [req EXCEPT ![p] = r] /\ issued' = issued \cup {t} /\ t \notin issued
      /\ lock' = [lock EXCEPT ![req[p].tok] = p] /\ lock[req[p].tok] = NoProc
      /\ req[p].tok \in rows /\ row[req[p].tok].revoked_at = Null
      /\ req[p].pc = "wait"
  BY DEF RotateExchange, LockRow
<1>2. r \in Request
  BY <1>0, <1>1 DEF Request, PCs, Verdicts, TypeOK
<1>3. /\ req' \in [Procs -> Request] /\ req'[p] = r
      /\ \A q \in Procs : q # p => req'[q] = req[q]
  BY <1>0, <1>1, <1>2 DEF TypeOK
<1>4. TypeOK'
  BY <1>0, <1>1, <1>3 DEF TypeOK
<1>5. req[p].fresh = NoToken /\ r.fresh = t
  BY <1>0, <1>1 DEF LocalsOK, Request
<1>6. Settled' = Settled
  <2>1. \A x : x \in InFlight <=> \E q \in Procs : x = req[q].fresh
    BY DEF InFlight
  <2>2. \A x : x \in InFlight' <=> \E q \in Procs : x = req'[q].fresh
    BY DEF InFlight
  <2>3. \A x \in issued : x \in InFlight' <=> x \in InFlight
    BY <2>1, <2>2, <1>0, <1>1, <1>3, <1>5, ConstantsAssumption
  <2>4. t \in InFlight'
    BY <2>2, <1>3, <1>5
  <2> QED
    BY <2>3, <2>4, <1>1 DEF Settled
<1>7. \A x : Unrevoked(x)' <=> Unrevoked(x)
  BY <1>1 DEF Unrevoked
<1>8. ASSUME NEW q \in Procs PROVE (LocalsOK(req[q]) /\ WritesOK(req[q]))'
  <2>1. CASE q = p
    <3>1. /\ r.pc = "commit" /\ r.marked = {req[p].tok} /\ r.fresh = t
          /\ r.verdict = "exchanged" /\ r.tok = req[p].tok /\ r.now = req[p].now
          /\ r.targets = {} /\ r.seen = {}
      BY <1>0, <1>1 DEF Request, LocalsOK
    <3>2. t # NoToken /\ r.tok \in Settled' /\ r.now <= clock' /\ t \in issued'
      BY <3>1, <1>0, <1>1, <1>6, ConstantsAssumption DEF LocalsOK
    <3>3. r.marked \subseteq rows' /\ \A x \in r.marked : Unrevoked(x)'
      BY <3>1, <1>1, <1>7 DEF Unrevoked
    <3> HIDE DEF r
    <3>4. LocalsOK(req[p])'
      BY <3>1, <3>2, <1>3 DEF LocalsOK
    <3>5. WritesOK(req[p])'
      BY <3>1, <3>3, <1>3 DEF WritesOK
    <3> QED
      BY <3>4, <3>5, <2>1
  <2>2. CASE q # p
    <3>1. req'[q] = req[q] /\ clock <= clock' /\ req[q].marked \subseteq rows
      BY <2>2, <1>1, <1>3 DEF IInv, TypeOK, WritesOK
    <3> QED
      BY <3>1, <1>1, <1>4, <1>6, <1>7, Undisturbed
  <2> QED
    BY <2>1, <2>2
<1>9. LocksInv'
  <2> SUFFICES ASSUME NEW q \in Procs, NEW x \in req'[q].marked PROVE lock'[x] = q
    BY DEF LocksInv
  <2>1. CASE q = p
    <3>1. x = req[p].tok
      BY <2>1, <1>3, <1>0 DEF Request
    <3> QED
      BY <3>1, <2>1, <1>0, <1>1 DEF TypeOK
  <2>2. CASE q # p
    <3>1. x \in req[q].marked /\ x \in Tokens /\ lock[x] = q
      BY <2>2, <1>3, RequestFields DEF IInv, LocksInv
    <3> QED
      BY <3>1, <1>0, <1>1, ConstantsAssumption DEF TypeOK
  <2> QED
    BY <2>1, <2>2
<1>10. FreshInv'
  <2>1. \A q \in Procs : q # p => req'[q].fresh # t
    BY <1>3, <1>0, <1>1, ConstantsAssumption DEF IInv, LocalsOK
  <2> QED
    BY <2>1, <1>1, <1>3, <1>5, <1>6 DEF FreshInv, IInv
<1>11. SpentInv' /\ SingleUse' /\ OneLiveTokenPerSession'
  BY <1>1, <1>6, <1>7 DEF SpentInv, SingleUse, OneLiveTokenPerSession, IInv
<1> QED
  BY <1>4, <1>8, <1>9, <1>10, <1>11 DEF IInv

\* Revocations become visible: rows locked by p are revoked, and no other.
LEMMA CommitRevocationsStep ==
  ASSUME IInv, NEW p \in Procs, CommitRevocations(p)
  PROVE  IInv'
<1>0. /\ TypeOK /\ LocalsOK(req[p]) /\ WritesOK(req[p]) /\ rows \subseteq Settled
      /\ req[p].marked \subseteq Tokens /\ req[p].now \in Nat
      /\ issued \subseteq Tokens
  BY RequestFields DEF IInv, FreshInv, TypeOK
<1>1. /\ Release(p) /\ UNCHANGED <<clock, isActive, rows, issued, opened, parent>>
      /\ req[p].pc = "commit" /\ req[p].verdict \notin {"exchanged", "purged"}
      /\ \A x \in Tokens : row'[x] = IF x \in req[p].marked
                                       THEN [row[x] EXCEPT !.revoked_at = req[p].now]
                                       ELSE row[x]
      /\ row' \in [Tokens -> Row]
  BY <1>0, RevokedRowType DEF CommitRevocations, TypeOK
<1>2. TypeOK'
  <2>1. req[p].verdict \in {"replayed", "signout"} => req[p].tok \in Tokens
    BY <1>0 DEF LocalsOK, Settled
  <2>2. ended' \subseteq Sessions \X {"replayed", "signout"}
    <3>1. CASE req[p].verdict \in {"replayed", "signout"}
      <4>1. row[req[p].tok].session \in Sessions
        BY <2>1, <3>1, <1>0 DEF TypeOK, Row
      <4> QED
        BY <4>1, <3>1, <1>0 DEF CommitRevocations, TypeOK
    <3>2. CASE req[p].verdict \notin {"replayed", "signout"}
      BY <3>2, <1>0 DEF CommitRevocations, TypeOK
    <3> QED
      BY <3>1, <3>2
  <2> QED
    BY <2>2, <1>0, <1>1, ReleaseFacts DEF TypeOK
<1>3. Settled' = Settled
  <2>1. req[p].fresh = NoToken
    BY <1>0, <1>1 DEF LocalsOK
  <2>2. \A x : x \in InFlight <=> \E q \in Procs : x = req[q].fresh
    BY DEF InFlight
  <2>3. \A x \in issued : x \in InFlight' <=> x \in InFlight
    BY <2>1, <2>2, <1>0, <1>1, ReleaseFacts, ConstantsAssumption
  <2> QED
    BY <2>3, <1>1 DEF Settled
<1>4. \A x \in Tokens : /\ row'[x].session = row[x].session
                        /\ row'[x].expires_at = row[x].expires_at
                        /\ Unrevoked(x)' <=> Unrevoked(x) /\ x \notin req[p].marked
  BY <1>0, <1>1, ConstantsAssumption DEF TypeOK, Row, Unrevoked
<1>5. ASSUME NEW q \in Procs PROVE (LocalsOK(req[q]) /\ WritesOK(req[q]))'
  <2>1. CASE q = p
    BY <2>1, <1>1, <1>2, ReleaseFacts, IdleOK DEF LocalsOK, WritesOK, IdleRequest, TypeOK
  <2>2. CASE q # p
    <3>1. req'[q] = req[q] /\ clock <= clock' /\ req[q].marked \subseteq rows
      BY <2>2, <1>1, ReleaseFacts DEF IInv, TypeOK, WritesOK
    <3>2. \A x \in req[q].marked : x \in Tokens /\ x \notin req[p].marked
      BY <2>2, RequestFields DEF IInv, LocksInv
    <3>3. Settled \subseteq Tokens
      BY <1>0 DEF Settled
    <3> QED
      BY <3>1, <3>2, <3>3, <1>1, <1>2, <1>3, <1>4, Undisturbed
  <2> QED
    BY <2>1, <2>2
<1>6. FreshInv'
  BY <1>0, <1>1, <1>3, <1>4, ReleaseFacts DEF FreshInv, IInv, IdleRequest, TypeOK
<1>7. SpentInv' /\ SingleUse' /\ OneLiveTokenPerSession'
  BY <1>0, <1>1, <1>3, <1>4 DEF SpentInv, SingleUse, OneLiveTokenPerSession, IInv, Settled, TypeOK
<1> QED
  BY <1>1, <1>2, <1>5, <1>6, <1>7, ReleaseFacts DEF IInv

\* The purge becomes visible: rows locked by p go, and no other.
LEMMA CommitPurgeStep ==
  ASSUME IInv, NEW p \in Procs, CommitPurge(p)
  PROVE  IInv'
<1>0. /\ TypeOK /\ LocalsOK(req[p]) /\ WritesOK(req[p]) /\ rows \subseteq Settled
      /\ issued \subseteq Tokens /\ rows \subseteq Tokens
  BY DEF IInv, FreshInv, TypeOK
<1>1. /\ Release(p) /\ UNCHANGED <<clock, isActive, row, issued, opened, parent, ended>>
      /\ req[p].pc = "commit" /\ req[p].verdict = "purged"
      /\ rows' = rows \ req[p].marked
  BY DEF CommitPurge, histVars
<1>2. TypeOK'
  BY <1>0, <1>1, ReleaseFacts DEF TypeOK
<1>3. Settled' = Settled
  <2>1. req[p].fresh = NoToken
    BY <1>0, <1>1 DEF LocalsOK
  <2>2. \A x : x \in InFlight <=> \E q \in Procs : x = req[q].fresh
    BY DEF InFlight
  <2>3. \A x \in issued : x \in InFlight' <=> x \in InFlight
    BY <2>1, <2>2, <1>0, <1>1, ReleaseFacts, ConstantsAssumption
  <2> QED
    BY <2>3, <1>1 DEF Settled
<1>4. \A x : Unrevoked(x)' <=> Unrevoked(x) /\ x \notin req[p].marked
  BY <1>1 DEF Unrevoked
<1>5. ASSUME NEW q \in Procs PROVE (LocalsOK(req[q]) /\ WritesOK(req[q]))'
  <2>1. CASE q = p
    BY <2>1, <1>1, <1>2, ReleaseFacts, IdleOK DEF LocalsOK, WritesOK, IdleRequest, TypeOK
  <2>2. CASE q # p
    <3>1. req'[q] = req[q] /\ clock <= clock' /\ req[q].marked \subseteq rows
      BY <2>2, <1>1, ReleaseFacts DEF IInv, TypeOK, WritesOK
    <3>2. \A x \in req[q].marked : x \notin req[p].marked
      BY <2>2 DEF IInv, LocksInv
    <3> QED
      BY <3>1, <3>2, <1>1, <1>2, <1>3, <1>4, Undisturbed
  <2> QED
    BY <2>1, <2>2
<1>6. FreshInv'
  BY <1>0, <1>1, <1>3, ReleaseFacts DEF FreshInv, IInv, IdleRequest
<1>7. SpentInv' /\ SingleUse' /\ OneLiveTokenPerSession'
  BY <1>0, <1>1, <1>3, <1>4 DEF SpentInv, SingleUse, OneLiveTokenPerSession, IInv
<1> QED
  BY <1>1, <1>2, <1>5, <1>6, <1>7, ReleaseFacts DEF IInv

\* What COMMIT does to a rotation, row by row.
LEMMA CommitExchangeFacts ==
  ASSUME IInv, NEW p \in Procs, CommitExchange(p)
  PROVE  /\ Release(p) /\ UNCHANGED <<clock, isActive, issued, opened, ended>>
         /\ req[p].pc = "commit" /\ req[p].verdict = "exchanged"
         /\ req[p].tok \in rows /\ req[p].tok \in Tokens /\ req[p].fresh \in issued
         /\ req[p].fresh # NoToken /\ req[p].fresh \notin Settled
         /\ req[p].marked = {req[p].tok}
         /\ Unrevoked(req[p].tok)
         /\ rows' = rows \cup {req[p].fresh}
         /\ parent' = [parent EXCEPT ![req[p].fresh] = req[p].tok]
         /\ row' \in [Tokens -> Row]
         /\ row'[req[p].fresh].session = row[req[p].tok].session
         /\ row'[req[p].fresh].revoked_at = Null
         /\ row'[req[p].tok].revoked_at = req[p].now
         /\ \A x \in Tokens : x # req[p].fresh =>
              /\ row'[x].session = row[x].session
              /\ row'[x].expires_at = row[x].expires_at
              /\ x # req[p].tok => row'[x] = row[x]
         /\ Settled' = Settled \cup {req[p].fresh}
<1> DEFINE f == req[p].fresh
           k == req[p].tok
<1>0. /\ TypeOK /\ LocalsOK(req[p]) /\ WritesOK(req[p]) /\ rows \subseteq Settled
      /\ issued \subseteq Tokens /\ req[p].now \in Nat
  BY RequestFields DEF IInv, FreshInv, TypeOK
<1>1. /\ Release(p) /\ UNCHANGED <<clock, isActive, issued, opened, ended>>
      /\ req[p].pc = "commit" /\ req[p].verdict = "exchanged"
      /\ rows' = rows \cup {f} /\ parent' = [parent EXCEPT ![f] = k]
      /\ row' = [row EXCEPT ![k].revoked_at = req[p].now,
                            ![f] = NewRow(row[k].user, row[k].session, req[p].now)]
  BY DEF CommitExchange
<1>2. /\ req[p].marked = {k} /\ f \in issued /\ f # NoToken /\ k \in Settled
      /\ k \in rows /\ Unrevoked(k) /\ k \in Tokens /\ f \in Tokens
  BY <1>0, <1>1 DEF LocalsOK, WritesOK, Settled
<1>3. f \notin Settled /\ f # k
  BY <1>2 DEF Settled, InFlight
<1>4. /\ row[k] \in Row /\ row[k].user \in Users /\ row[k].session \in Sessions
      /\ NewRow(row[k].user, row[k].session, req[p].now) \in Row
      /\ [row[k] EXCEPT !.revoked_at = req[p].now] \in Row
  BY <1>0, <1>2, NewRowType, RevokedRowType DEF TypeOK, Row
<1>5. /\ row'[f] = NewRow(row[k].user, row[k].session, req[p].now)
      /\ row'[k] = [row[k] EXCEPT !.revoked_at = req[p].now]
      /\ \A x \in Tokens : x # f /\ x # k => row'[x] = row[x]
      /\ DOMAIN row' = Tokens /\ row' = [x \in Tokens |-> row'[x]]
  BY <1>0, <1>1, <1>2, <1>3 DEF TypeOK
<1>6. row' \in [Tokens -> Row]
  BY <1>0, <1>4, <1>5 DEF TypeOK
<1>7. /\ row'[f].session = row[k].session /\ row'[f].revoked_at = Null
      /\ row'[k].revoked_at = req[p].now /\ row'[k].session = row[k].session
      /\ row'[k].expires_at = row[k].expires_at
  BY <1>4, <1>5 DEF NewRow, Row
<1>8. Settled' = Settled \cup {f}
  <2>1. \A x : x \in InFlight <=> \E q \in Procs : x = req[q].fresh
    BY DEF InFlight
  <2>2. \A q \in Procs : q # p => req[q].fresh # f
    BY <1>2 DEF IInv, FreshInv
  <2>3. \A x \in issued : x \in InFlight' <=> x \in InFlight /\ x # f
    BY <2>1, <2>2, <1>0, <1>1, <1>2, ReleaseFacts, ConstantsAssumption
  <2> QED
    BY <2>3, <1>1, <1>2 DEF Settled
<1> QED
  BY <1>1, <1>2, <1>3, <1>5, <1>6, <1>7, <1>8

\* A rotation becomes visible: the old token is spent and the new one live in
\* the same step.
LEMMA CommitExchangeStep ==
  ASSUME IInv, NEW p \in Procs, CommitExchange(p)
  PROVE  IInv'
<1> DEFINE f == req[p].fresh
           k == req[p].tok
<1>0. /\ TypeOK /\ LocalsOK(req[p]) /\ rows \subseteq Settled /\ rows \subseteq Tokens
      /\ issued \subseteq Tokens /\ req[p].now \in Nat /\ Settled \subseteq Tokens
  BY RequestFields DEF IInv, FreshInv, TypeOK, Settled
<1>1. TypeOK'
  BY <1>0, CommitExchangeFacts, ReleaseFacts DEF TypeOK
<1>2. \A x \in Tokens : x # f => (Unrevoked(x)' <=> Unrevoked(x) /\ x # k)
  BY <1>0, CommitExchangeFacts, ConstantsAssumption DEF Unrevoked
<1>3. ASSUME NEW q \in Procs PROVE (LocalsOK(req[q]) /\ WritesOK(req[q]))'
  <2>1. CASE q = p
    BY <2>1, <1>1, CommitExchangeFacts, ReleaseFacts, IdleOK
       DEF LocalsOK, WritesOK, IdleRequest, TypeOK
  <2>2. CASE q # p
    <3>1. /\ req'[q] = req[q] /\ clock <= clock' /\ req[q].marked \subseteq rows
          /\ issued' = issued
      BY <2>2, CommitExchangeFacts, ReleaseFacts DEF IInv, TypeOK, WritesOK
    <3>2. \A x \in req[q].marked : x \in Tokens /\ x # k /\ x # f /\ x \in rows'
      BY <2>2, <3>1, <1>0, CommitExchangeFacts DEF IInv, LocksInv
    <3>3. \A x \in Settled : x \in Tokens /\ x # f
      BY <1>0, CommitExchangeFacts
    <3>4. Settled \subseteq Settled'
      BY CommitExchangeFacts
    <3>5. \A x \in Settled : /\ Unrevoked(x)' => Unrevoked(x)
                             /\ row'[x].expires_at = row[x].expires_at
      BY <3>3, <1>2, CommitExchangeFacts
    <3>6. \A x \in req[q].marked : x \in rows' /\ (Unrevoked(x) => Unrevoked(x)')
      BY <3>2, <1>2
    <3> QED
      BY <3>1, <3>4, <3>5, <3>6, <1>1, Undisturbed
  <2> QED
    BY <2>1, <2>2
<1>4. FreshInv'
  <2>1. rows' \subseteq Settled'
    BY <1>0, CommitExchangeFacts
  <2>2. \A x \in rows' : row'[x].session \in opened'
    BY <1>0, CommitExchangeFacts DEF IInv, FreshInv
  <2>3. \A q \in Procs : req'[q].fresh = req[q].fresh \/ req'[q].fresh = NoToken
    BY CommitExchangeFacts, ReleaseFacts DEF IdleRequest
  <2> QED
    BY <2>1, <2>2, <2>3 DEF FreshInv, IInv
<1>5. OneLiveTokenPerSession'
  <2>1. \A x \in rows : Unrevoked(x) /\ row[x].session = row[k].session => x = k
    BY CommitExchangeFacts DEF IInv, OneLiveTokenPerSession
  <2>2. \A x \in rows : /\ x \in Tokens /\ x # f /\ row'[x].session = row[x].session
                        /\ Unrevoked(x)' => Unrevoked(x) /\ x # k
    BY <1>0, <1>2, CommitExchangeFacts
  <2> SUFFICES ASSUME NEW x \in rows', NEW y \in rows', Unrevoked(x)', Unrevoked(y)',
                      row'[x].session = row'[y].session
               PROVE  x = y
    BY DEF OneLiveTokenPerSession
  <2>3. CASE x \in rows /\ y \in rows
    BY <2>2, <2>3 DEF IInv, OneLiveTokenPerSession
  <2>4. CASE x = f \/ y = f
    BY <2>1, <2>2, <2>4, CommitExchangeFacts
  <2> QED
    BY <2>3, <2>4, CommitExchangeFacts
<1>6. SpentInv'
  <2> SUFFICES ASSUME NEW x \in Tokens, parent'[x] # NoToken
               PROVE  /\ x \in Settled' /\ parent'[x] \in Settled'
                      /\ ~(parent'[x] \in rows' /\ row'[parent'[x]].revoked_at = Null)
    BY DEF SpentInv, Unrevoked
  <2>1. CASE x = f
    <3>1. parent'[x] = k
      BY <2>1, <1>0, CommitExchangeFacts DEF TypeOK
    <3>2. k \in Settled /\ k # f
      BY <1>0, CommitExchangeFacts
    <3> QED
      BY <2>1, <3>1, <3>2, <1>0, CommitExchangeFacts, ConstantsAssumption
  <2>2. CASE x # f
    <3>1. parent'[x] = parent[x]
      BY <2>2, <1>0, CommitExchangeFacts DEF TypeOK
    <3>2. x \in Settled /\ parent[x] \in Settled /\ ~Unrevoked(parent[x])
      BY <3>1 DEF IInv, SpentInv
    <3> QED
      BY <3>1, <3>2, <1>0, CommitExchangeFacts DEF Unrevoked
  <2> QED
    BY <2>1, <2>2
<1>7. SingleUse'
  <2>1. \A x \in Tokens : parent'[x] = IF x = f THEN k ELSE parent[x]
    BY <1>0, CommitExchangeFacts DEF TypeOK
  <2>2. \A x \in Tokens : parent[x] # k
    BY CommitExchangeFacts, ConstantsAssumption DEF IInv, SpentInv
  <2> QED
    BY <2>1, <2>2 DEF SingleUse, IInv
<1> QED
  BY <1>1, <1>3, <1>4, <1>5, <1>6, <1>7, CommitExchangeFacts, ReleaseFacts DEF IInv

\* Time passes, or an administrator (de)activates a user.
LEMMA EnvironmentStep ==
  ASSUME IInv, Tick \/ \E u \in Users : SetActive(u)
  PROVE  IInv'
<1>1. /\ UNCHANGED <<rows, row, lock, req, issued, opened, parent, ended>>
      /\ clock \in Nat /\ clock' \in Nat /\ clock <= clock' /\ isActive' \in [Users -> BOOLEAN]
  <2>1. CASE Tick
    BY <2>1 DEF IInv, TypeOK, Tick, dbVars, histVars
  <2>2. ASSUME NEW u \in Users, SetActive(u)
        PROVE  /\ UNCHANGED <<clock, rows, row, lock, req, issued, opened, parent, ended>>
               /\ isActive' \in [Users -> BOOLEAN]
    BY <2>2 DEF IInv, TypeOK, SetActive, dbVars, histVars
  <2>3. clock \in Nat
    BY DEF IInv, TypeOK
  <2> QED
    BY <2>1, <2>2, <2>3
<1>2. TypeOK'
  BY <1>1 DEF IInv, TypeOK
<1>3. Settled' = Settled /\ \A x : Unrevoked(x)' <=> Unrevoked(x)
  BY <1>1 DEF Settled, InFlight, Unrevoked
<1>4. ASSUME NEW q \in Procs PROVE (LocalsOK(req[q]) /\ WritesOK(req[q]))'
  <2>1. req[q].marked \subseteq rows /\ req'[q] = req[q]
    BY <1>1 DEF IInv, WritesOK
  <2> QED
    BY <2>1, <1>1, <1>2, <1>3, Undisturbed
<1>5. LocksInv' /\ FreshInv' /\ SpentInv' /\ SingleUse' /\ OneLiveTokenPerSession'
  BY <1>1, <1>3 DEF IInv, LocksInv, FreshInv, SpentInv, SingleUse, OneLiveTokenPerSession
<1> QED
  BY <1>2, <1>4, <1>5 DEF IInv

--------------------------------------------------------------------------------
\* The inductive invariant holds of every reachable state.
THEOREM Invariance == Spec => []IInv
<1>1. Init => IInv
  <2> SUFFICES ASSUME Init PROVE IInv
    OBVIOUS
  <2> USE ConstantsAssumption
  <2>1. TypeOK
    <3>1. row \in [Tokens -> Row] /\ req \in [Procs -> Request]
      BY IdleRequestType DEF Init, Row
    <3> QED
      BY <3>1 DEF Init, TypeOK
  <2>2. \A p \in Procs : req[p] = IdleRequest /\ req[p].marked = {} /\ req[p].fresh = NoToken
    BY DEF Init, IdleRequest
  <2>3. LocksInv /\ FreshInv /\ SpentInv /\ SingleUse /\ OneLiveTokenPerSession
    BY <2>2 DEF Init, LocksInv, FreshInv, SpentInv, SingleUse, OneLiveTokenPerSession, Unrevoked
  <2> QED
    BY <2>1, <2>2, <2>3, IdleOK DEF IInv
<1>2. IInv /\ [Next]_vars => IInv'
  <2> SUFFICES ASSUME IInv, [Next]_vars PROVE IInv'
    OBVIOUS
  <2>1. CASE UNCHANGED vars
    BY <2>1 DEF vars, dbVars, histVars, IInv, TypeOK, LocalsOK, WritesOK, LocksInv, FreshInv,
       SpentInv, SingleUse, OneLiveTokenPerSession, Settled, InFlight, Unrevoked
  <2>2. CASE Next
    BY <2>2, RequestStep, StatementStep, LoginStep, ExchangeStep, CommitRevocationsStep,
       CommitExchangeStep, CommitPurgeStep, AbortStep, EnvironmentStep DEF Next, Step
  <2> QED
    BY <2>1, <2>2
<1> QED
  BY <1>1, <1>2, PTL DEF Spec

\* AuthService's variables always have their types.
THEOREM TypeCorrect == Spec => []TypeOK
<1>1. IInv => TypeOK
  BY DEF IInv
<1> QED
  BY <1>1, Invariance, PTL

\* A rotation chain never has two tokens that may be exchanged, however many
\* requests run `_rotate`, `_revoke` and `purge_expired` at once.
THEOREM OneLiveToken == Spec => []OneLiveTokenPerSession
<1>1. IInv => OneLiveTokenPerSession
  BY DEF IInv
<1> QED
  BY <1>1, Invariance, PTL

\* No refresh token is ever exchanged twice.
THEOREM RotationIsSingleUse == Spec => []SingleUse
<1>1. IInv => SingleUse
  BY DEF IInv
<1> QED
  BY <1>1, Invariance, PTL

--------------------------------------------------------------------------------
\* Only a login, a commit of revocations, of an exchange or of a purge changes the
\* table.
LEMMA TableSteps ==
  ASSUME [Next]_vars
  PROVE  \/ UNCHANGED <<rows, row>>
         \/ \E p \in Procs, t \in Tokens, s \in Sessions : Login(p, t, s)
         \/ \E p \in Procs : CommitRevocations(p) \/ CommitExchange(p) \/ CommitPurge(p)
BY DEF Next, Step, vars, dbVars, Authenticate, Refresh, Revoke, RotateSelect, RotateGone,
       RotateReplayed, RotateExpired, RotateInactive, RotateExchange, RevokeSession,
       RevokeForUsers, Purge, WriteRow, SkipRow, EndStatement, DeadlockAbort, Crash,
       SetActive, Tick

\* A revoked row keeps its first `revoked_at`, and only expired rows are purged.
THEOREM EvidenceIsKept == Spec => EvidenceKept
<1> DEFINE Kept == \A t \in rows :
                     /\ t \notin rows' => row[t].expires_at <= clock
                     /\ t \in rows' /\ row[t].revoked_at # Null
                          => row'[t].revoked_at = row[t].revoked_at
<1>1. ASSUME IInv, [Next]_vars PROVE Kept
  <2>0. rows \subseteq Settled /\ rows \subseteq Tokens /\ Settled \subseteq issued /\ TypeOK
    BY <1>1 DEF IInv, FreshInv, TypeOK, Settled
  <2>1. CASE UNCHANGED <<rows, row>>
    BY <2>1
  <2>2. ASSUME NEW p \in Procs, NEW t \in Tokens, NEW s \in Sessions, Login(p, t, s)
        PROVE  Kept
    <3>1. rows' = rows \cup {t} /\ \A x \in rows : x # t /\ row'[x] = row[x]
      BY <2>0, <2>2 DEF Login, TypeOK
    <3> QED
      BY <3>1
  <2>3. ASSUME NEW p \in Procs, CommitRevocations(p) PROVE Kept
    <3>1. \A x \in req[p].marked : row[x].revoked_at = Null
      BY <1>1, <2>3 DEF CommitRevocations, IInv, WritesOK, Unrevoked
    <3>2. /\ rows' = rows
          /\ \A x \in rows : x \notin req[p].marked => row'[x] = row[x]
      BY <2>0, <2>3 DEF CommitRevocations
    <3> QED
      BY <3>1, <3>2
  <2>4. ASSUME NEW p \in Procs, CommitExchange(p) PROVE Kept
    <3>1. \A x \in rows : x # req[p].fresh
      BY <1>1, <2>0, <2>4, CommitExchangeFacts
    <3>2. row[req[p].tok].revoked_at = Null /\ rows' = rows \cup {req[p].fresh}
      BY <1>1, <2>4, CommitExchangeFacts DEF Unrevoked
    <3>3. \A x \in rows : x # req[p].tok => row'[x] = row[x]
      BY <1>1, <2>0, <2>4, <3>1, CommitExchangeFacts
    <3> QED
      BY <3>1, <3>2, <3>3
  <2>5. ASSUME NEW p \in Procs, CommitPurge(p) PROVE Kept
    <3>1. /\ rows' = rows \ req[p].marked /\ row' = row /\ req[p].verdict = "purged"
          /\ req[p].now <= clock
      BY <1>1, <2>5 DEF CommitPurge, IInv, LocalsOK
    <3>2. \A x \in req[p].marked : row[x].expires_at <= req[p].now
      BY <1>1, <3>1 DEF IInv, WritesOK
    <3>3. ASSUME NEW x \in rows, x \in req[p].marked PROVE row[x].expires_at <= clock
      <4>1. row[x].expires_at \in Nat /\ req[p].now \in Nat /\ clock \in Nat
        BY <1>1, <2>0, RequestFields DEF TypeOK, Row
      <4> QED
        BY <4>1, <3>1, <3>2, <3>3
    <3> QED
      BY <3>1, <3>3
  <2> QED
    BY <1>1, <2>1, <2>2, <2>3, <2>4, <2>5, TableSteps
<1>2. IInv /\ [Next]_vars => [Kept]_vars
  BY <1>1
<1>3. Spec => [][Kept]_vars
  BY <1>2, Invariance, PTL DEF Spec
<1> QED
  BY <1>3 DEF EvidenceKept

\* A sign-out, a replay or a refresh by an inactive user kills every token that
\* its UPDATE statement found.
THEOREM RevocationIsThorough == Spec => RevocationReachesWhatItSaw
<1> DEFINE Thorough == \A p \in Procs : CommitRevocations(p) =>
                         \A t \in req[p].seen : ~Unrevoked(t)'
<1>1. ASSUME IInv PROVE Thorough
  <2> SUFFICES ASSUME NEW p \in Procs, CommitRevocations(p), NEW t \in req[p].seen
               PROVE  ~Unrevoked(t)'
    OBVIOUS
  <2>1. /\ LocalsOK(req[p]) /\ WritesOK(req[p]) /\ req[p].now \in Nat /\ t \in Tokens
        /\ req[p].marked \subseteq Tokens /\ TypeOK
    BY <1>1, RequestFields DEF IInv
  <2>2. req[p].targets = {} /\ req[p].verdict # "purged" /\ rows' = rows
    BY <2>1 DEF LocalsOK, CommitRevocations
  <2>3. t \in req[p].marked \/ ~Unrevoked(t)
    BY <2>1, <2>2 DEF WritesOK
  <2>4. row'[t] = IF t \in req[p].marked THEN [row[t] EXCEPT !.revoked_at = req[p].now]
                                         ELSE row[t]
    BY <2>1 DEF CommitRevocations
  <2> QED
    BY <2>1, <2>2, <2>3, <2>4, ConstantsAssumption DEF Unrevoked, TypeOK, Row
<1>2. IInv /\ [Next]_vars => [Thorough]_vars
  BY <1>1
<1>3. Spec => [][Thorough]_vars
  BY <1>2, Invariance, PTL DEF Spec
<1> QED
  BY <1>3 DEF RevocationReachesWhatItSaw

--------------------------------------------------------------------------------
\* Ending: a step that only takes rows of D out of the exchangeable ones ends the
\* sessions of these rows, since no session has another exchangeable row.
LEMMA EndsSessions ==
  ASSUME IInv, NEW D, D \subseteq Tokens,
         rows' \subseteq rows, Settled' = Settled, opened' = opened,
         \A x \in rows : Unrevoked(x)' <=> Unrevoked(x) /\ x \notin D,
         \A x \in rows : row'[x].session = row[x].session
  PROVE  Chains!ChainNext
<1> DEFINE S == {s \in Sessions : \E x \in D : x \in LiveTokens[s]}
<1>1. \A s \in Sessions : LiveTokens'[s] = IF s \in S THEN {} ELSE LiveTokens[s]
  <2> SUFFICES ASSUME NEW s \in Sessions
               PROVE  LiveTokens'[s] = IF s \in S THEN {} ELSE LiveTokens[s]
    OBVIOUS
  <2>1. \A x : x \in LiveTokens[s] <=> x \in rows /\ row[x].session = s /\ Unrevoked(x)
    BY DEF LiveTokens, OfSession
  <2>2. \A x : x \in LiveTokens'[s] <=> x \in rows' /\ row'[x].session = s /\ Unrevoked(x)'
    BY DEF LiveTokens, OfSession
  <2>3. \A x : Unrevoked(x)' => x \in rows'
    BY DEF Unrevoked
  <2>4. \A x : x \in LiveTokens'[s] <=> x \in LiveTokens[s] /\ x \notin D
    BY <2>1, <2>2, <2>3
  <2>5. \A x, y : x \in LiveTokens[s] /\ y \in LiveTokens[s] => x = y
    BY <2>1 DEF IInv, OneLiveTokenPerSession
  <2>6. CASE s \in S
    BY <2>4, <2>5, <2>6
  <2>7. CASE s \notin S
    BY <2>4, <2>7
  <2> QED
    BY <2>6, <2>7
<1>2. LiveTokens' = [s \in Sessions |-> IF s \in S THEN {} ELSE LiveTokens[s]]
  BY <1>1 DEF LiveTokens
<1>3. Chains!End(S)
  BY <1>2 DEF Chains!End, Settled
<1> QED
  BY <1>3 DEF Chains!ChainNext

\* Every step of the tables opens, rotates or ends sessions, or is not seen.
LEMMA ChainStep ==
  ASSUME IInv, [Next]_vars
  PROVE  [Chains!ChainNext]_(Chains!chainVars)
<1>0. /\ TypeOK /\ rows \subseteq Settled /\ rows \subseteq Tokens /\ Settled \subseteq issued
      /\ issued \subseteq Tokens
  BY DEF IInv, FreshInv, TypeOK, Settled
<1>1. ASSUME UNCHANGED <<rows, row, opened>>, Settled' = Settled
      PROVE  UNCHANGED Chains!chainVars
  BY <1>1 DEF Chains!chainVars, LiveTokens, OfSession, Unrevoked, Settled
<1>2. ASSUME NEW p \in Procs, NEW t \in Tokens, NEW s \in Sessions, Login(p, t, s)
      PROVE  Chains!ChainNext
  <2>1. IInv'
    BY <1>2, LoginStep
  <2>2. /\ s \notin opened /\ t \notin issued /\ opened' = opened \cup {s}
        /\ issued' = issued \cup {t} /\ rows' = rows \cup {t}
        /\ row' = [row EXCEPT ![t] = NewRow(req[p].user, s, req[p].now)]
        /\ Release(p) /\ req[p].pc = "login"
    BY <1>2 DEF Login
  <2>3. /\ \A x \in rows : x # t /\ row'[x] = row[x]
        /\ row'[t].session = s /\ row'[t].revoked_at = Null
    BY <1>0, <2>2 DEF TypeOK, NewRow
  <2>4. \A x \in rows : row[x].session # s
    BY <2>2 DEF IInv, FreshInv
  <2>5. LiveTokens' = [LiveTokens EXCEPT ![s] = {t}]
    <3>1. \A z \in Sessions : LiveTokens'[z] = IF z = s THEN {t} ELSE LiveTokens[z]
      BY <2>2, <2>3, <2>4 DEF LiveTokens, OfSession, Unrevoked
    <3> QED
      BY <3>1 DEF LiveTokens
  <2>6. (issued \ InFlight)' = (issued \ InFlight) \cup {t}
    <3>1. \A q \in Procs : req[q].fresh \in issued \cup {NoToken}
      BY DEF IInv, LocalsOK
    <3>2. req[p].fresh = NoToken
      BY <2>2 DEF IInv, LocalsOK
    <3>3. \A x : x \in InFlight <=> \E q \in Procs : x = req[q].fresh
      BY DEF InFlight
    <3>4. \A x \in issued \cup {t} : x \in InFlight' <=> x \in InFlight /\ x # t
      BY <3>1, <3>2, <3>3, <1>0, <2>2, ReleaseFacts, ConstantsAssumption
    <3> QED
      BY <3>4, <2>2
  <2>7. Chains!Open(s, t)
    BY <2>2, <2>5, <2>6 DEF Chains!Open
  <2> QED
    BY <2>7 DEF Chains!ChainNext
<1>3. ASSUME NEW p \in Procs, CommitExchange(p) PROVE Chains!ChainNext
  <2> DEFINE f == req[p].fresh
             k == req[p].tok
             s == row[k].session
  <2>1. s \in Sessions /\ f \in Tokens /\ k \in Tokens /\ f # k
    BY <1>0, <1>3, CommitExchangeFacts DEF TypeOK, Row
  <2>2. \A x \in rows : x # f /\ (Unrevoked(x) /\ row[x].session = s => x = k)
    BY <1>0, <1>3, CommitExchangeFacts DEF IInv, OneLiveTokenPerSession
  <2>3. LiveTokens[s] = {k}
    BY <1>3, <2>1, <2>2, CommitExchangeFacts DEF LiveTokens, OfSession
  <2>4. /\ \A x \in rows : /\ row'[x].session = row[x].session
                           /\ x # k => row'[x] = row[x]
        /\ row'[k].revoked_at # Null /\ row'[f].revoked_at = Null /\ row'[f].session = s
        /\ rows' = rows \cup {f}
    <3>1. req[p].now \in Nat
      BY RequestFields DEF IInv
    <3> QED
      BY <3>1, <1>0, <1>3, <2>2, CommitExchangeFacts, ConstantsAssumption
  <2>5. LiveTokens' = [LiveTokens EXCEPT ![s] = {f}]
    <3>1. \A z \in Sessions : LiveTokens'[z] = IF z = s THEN {f} ELSE LiveTokens[z]
      <4> SUFFICES ASSUME NEW z \in Sessions
                   PROVE  LiveTokens'[z] = IF z = s THEN {f} ELSE LiveTokens[z]
        OBVIOUS
      <4>1. \A x : x \in LiveTokens[z] <=>
                     x \in rows /\ row[x].session = z /\ row[x].revoked_at = Null
        BY DEF LiveTokens, OfSession, Unrevoked
      <4>2. \A x : x \in LiveTokens'[z] <=>
                     x \in rows' /\ row'[x].session = z /\ row'[x].revoked_at = Null
        BY DEF LiveTokens, OfSession, Unrevoked
      <4>3. CASE z = s
        <5>1. \A x : x \in LiveTokens'[z] <=> x = f
          BY <4>2, <4>3, <2>2, <2>4 DEF Unrevoked
        <5> QED
          BY <5>1, <4>3
      <4>4. CASE z # s
        <5>1. \A x : x \in LiveTokens'[z] <=> x \in LiveTokens[z]
          BY <4>1, <4>2, <4>4, <2>4
        <5> QED
          BY <5>1, <4>4
      <4> QED
        BY <4>3, <4>4
    <3> QED
      BY <3>1 DEF LiveTokens
  <2>6. Settled' = Settled \cup {f} /\ f \notin Settled /\ opened' = opened
    BY <1>3, CommitExchangeFacts
  <2>7. Chains!Exchange(s, k, f)
    BY <2>3, <2>5, <2>6 DEF Chains!Exchange, Settled
  <2> QED
    BY <2>1, <2>7 DEF Chains!ChainNext
<1>4. ASSUME NEW p \in Procs, CommitRevocations(p) \/ CommitPurge(p)
      PROVE  Chains!ChainNext
  <2>1. /\ Release(p) /\ UNCHANGED <<issued, opened>> /\ req[p].pc = "commit"
        /\ req[p].verdict # "exchanged" /\ LocalsOK(req[p]) /\ req[p].now \in Nat
        /\ req[p].marked \subseteq Tokens
    BY <1>4, RequestFields DEF CommitRevocations, CommitPurge, histVars, IInv
  <2>2. /\ rows' \subseteq rows
        /\ \A x \in rows : Unrevoked(x)' <=> Unrevoked(x) /\ x \notin req[p].marked
        /\ \A x \in rows : row'[x].session = row[x].session
    <3>1. CASE CommitPurge(p)
      BY <3>1 DEF CommitPurge, Unrevoked
    <3>2. CASE CommitRevocations(p)
      BY <3>2, <2>1, <1>0, ConstantsAssumption DEF CommitRevocations, Unrevoked, TypeOK, Row
    <3> QED
      BY <1>4, <3>1, <3>2
  <2>3. Settled' = Settled
    <3>1. req[p].fresh = NoToken
      BY <2>1 DEF LocalsOK
    <3>2. \A x : x \in InFlight <=> \E q \in Procs : x = req[q].fresh
      BY DEF InFlight
    <3>3. \A x \in issued : x \in InFlight' <=> x \in InFlight
      BY <3>1, <3>2, <1>0, <2>1, ReleaseFacts, ConstantsAssumption
    <3> QED
      BY <3>3, <2>1 DEF Settled
  <2> QED
    BY <2>1, <2>2, <2>3, EndsSessions
<1>5. ASSUME NEW p \in Procs, DeadlockAbort(p) \/ Crash(p)
      PROVE  Chains!ChainNext \/ UNCHANGED Chains!chainVars
  <2>1. Release(p) /\ UNCHANGED <<rows, row, issued, opened>>
    BY <1>5 DEF DeadlockAbort, Crash, histVars
  <2>2. \A x : x \in InFlight <=> \E q \in Procs : x = req[q].fresh
    BY DEF InFlight
  <2>3. CASE req[p].fresh = NoToken
    <3>1. \A x \in issued : x \in InFlight' <=> x \in InFlight
      BY <2>1, <2>2, <2>3, <1>0, ReleaseFacts, ConstantsAssumption
    <3> QED
      BY <3>1, <2>1, <1>1 DEF Settled
  <2>4. CASE req[p].fresh # NoToken
    <3> DEFINE f == req[p].fresh
    <3>1. f \in issued /\ f \in Tokens /\ \A q \in Procs : q # p => req[q].fresh # f
      BY <2>4, <1>0 DEF IInv, LocalsOK, FreshInv
    <3>2. \A x \in issued : x \in InFlight' <=> x \in InFlight /\ x # f
      BY <2>1, <2>2, <3>1, <1>0, ReleaseFacts, ConstantsAssumption
    <3>3. f \in InFlight
      BY <2>2
    <3>4. (issued \ InFlight)' = (issued \ InFlight) \cup {f}
      BY <3>1, <3>2, <2>1
    <3>5. LiveTokens' = LiveTokens
      BY <2>1 DEF LiveTokens, OfSession, Unrevoked
    <3>6. Chains!Lose(f)
      BY <3>3, <3>4, <3>5, <2>1 DEF Chains!Lose
    <3> QED
      BY <3>1, <3>6 DEF Chains!ChainNext
  <2> QED
    BY <2>3, <2>4
<1>6. ASSUME NEW p \in Procs,
             \/ \E u \in Users : Authenticate(p, u)
             \/ \E t \in Tokens : Refresh(p, t) \/ Revoke(p, t) \/ WriteRow(p, t) \/ SkipRow(p, t)
             \/ RotateSelect(p) \/ RotateGone(p)
             \/ RotateReplayed(p) \/ RotateExpired(p) \/ RotateInactive(p)
             \/ RevokeSession(p) \/ RevokeForUsers(p) \/ Purge(p) \/ EndStatement(p)
      PROVE  UNCHANGED Chains!chainVars
  <2>1. UNCHANGED <<rows, row, histVars>>
    BY <1>6 DEF Authenticate, Refresh, Revoke, WriteRow, SkipRow, RotateSelect, RotateGone,
       RotateReplayed, RotateExpired, RotateInactive, RevokeSession, RevokeForUsers, Purge,
       EndStatement, dbVars
  <2>2. /\ req[p] \in Request /\ LocalsOK(req[p]) /\ req \in [Procs -> Request]
        /\ IdleRequest.fresh = NoToken
    BY RequestFields DEF IInv, TypeOK, IdleRequest
  <2>3. \A q \in Procs : req'[q].fresh = req[q].fresh
    <3> DEFINE Same == \A q \in Procs : req'[q].fresh = req[q].fresh
    <3>1. ASSUME NEW u \in Users, Authenticate(p, u) PROVE Same
      BY <2>2, <3>1 DEF Authenticate, Request
    <3>2. ASSUME NEW t \in Tokens, Refresh(p, t) PROVE Same
      BY <2>2, <3>2 DEF Refresh, Request
    <3>3. ASSUME NEW t \in Tokens, Revoke(p, t) PROVE Same
      BY <2>2, <3>3 DEF Revoke, Request
    <3>4. ASSUME NEW t \in Tokens, WriteRow(p, t) PROVE Same
      BY <2>2, <3>4 DEF WriteRow, Request
    <3>5. ASSUME NEW t \in Tokens, SkipRow(p, t) PROVE Same
      BY <2>2, <3>5 DEF SkipRow, Request
    <3>6. ASSUME RotateGone(p) PROVE Same
      BY <2>2, <3>6 DEF RotateGone, Request, LocalsOK
    <3>7. ASSUME RotateSelect(p) PROVE Same
      BY <2>2, <3>7 DEF RotateSelect, Request, LocalsOK
    <3>8. ASSUME RotateReplayed(p) PROVE Same
      BY <2>2, <3>8 DEF RotateReplayed, Request
    <3>9. ASSUME RotateExpired(p) PROVE Same
      BY <2>2, <3>9 DEF RotateExpired, Request
    <3>10. ASSUME RotateInactive(p) PROVE Same
      BY <2>2, <3>10 DEF RotateInactive, Request
    <3>11. ASSUME EndStatement(p) PROVE Same
      BY <2>2, <3>11 DEF EndStatement, Request
    <3>12. ASSUME RevokeSession(p) PROVE Same
      BY <2>2, <3>12 DEF RevokeSession, StartStatement, Request
    <3>13. ASSUME RevokeForUsers(p) PROVE Same
      BY <2>2, <3>13 DEF RevokeForUsers, StartStatement, Request
    <3>14. ASSUME Purge(p) PROVE Same
      BY <2>2, <3>14 DEF Purge, ExpiredAt, Request
    <3> HIDE DEF Same
    <3> QED
      BY <1>6, <3>1, <3>2, <3>3, <3>4, <3>5, <3>6, <3>7,
         <3>8, <3>9, <3>10, <3>11, <3>12, <3>13, <3>14 DEF Same
  <2>4. InFlight' = InFlight
    BY <2>3 DEF InFlight
  <2> QED
    BY <2>1, <2>4, <1>1 DEF Settled, histVars
<1>7. ASSUME NEW p \in Procs, NEW t \in Tokens, RotateExchange(p, t)
      PROVE  UNCHANGED Chains!chainVars
  <2>1. /\ UNCHANGED <<rows, row, opened>> /\ issued' = issued \cup {t} /\ t \notin issued
        /\ req[p].pc = "wait" /\ req[p] \in Request /\ LocalsOK(req[p])
    BY <1>7, RequestFields DEF RotateExchange, LockRow, IInv
  <2>2. /\ \A q \in Procs : q # p => req'[q].fresh = req[q].fresh
        /\ req'[p].fresh = t /\ req[p].fresh = NoToken
    BY <1>0, <1>7, <2>1 DEF RotateExchange, TypeOK, Request, LocalsOK
  <2>3. \A x : x \in InFlight <=> \E q \in Procs : x = req[q].fresh
    BY DEF InFlight
  <2>4. \A x : x \in InFlight' <=> \E q \in Procs : x = req'[q].fresh
    BY DEF InFlight
  <2>5. t \in InFlight' /\ \A x \in issued : x \in InFlight' <=> x \in InFlight
    BY <2>1, <2>2, <2>3, <2>4, <1>0, ConstantsAssumption
  <2> QED
    BY <2>1, <2>5, <1>1 DEF Settled
<1>8. CASE Tick \/ \E u \in Users : SetActive(u)
  BY <1>8, <1>1 DEF Tick, SetActive, dbVars, histVars, Settled, InFlight
<1>9. CASE UNCHANGED vars
  BY <1>9, <1>1 DEF vars, dbVars, histVars, Settled, InFlight
<1> QED
  BY <1>2, <1>3, <1>4, <1>5, <1>6, <1>7, <1>8, <1>9 DEF Next, Step

\* The rows, locks and transactions of `_login`, `_rotate`, `_revoke` and the purge
\* implement single-use chains.
THEOREM Refinement == Spec => ImplementsChains
<1>1. Init => Chains!ChainInit
  BY ConstantsAssumption
     DEF Init, Chains!ChainInit, LiveTokens, OfSession, InFlight, Unrevoked
<1> QED
  BY <1>1, ChainStep, Invariance, PTL DEF Spec, ImplementsChains, Chains!ChainSpec

================================================================================
