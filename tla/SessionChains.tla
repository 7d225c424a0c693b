------------------------------ MODULE SessionChains -----------------------------
(***************************************************************************)
(* What refresh tokens promise a client, with no rows, locks, statements or *)
(* clock: a session holds at most one secret that may still be exchanged;   *)
(* exchanging it replaces it by a secret never seen before; a session that  *)
(* lost its secret never gets one back.                                     *)
(***************************************************************************)
CONSTANTS Tokens, Sessions

VARIABLES
    live,      \* per session, the secrets that may still be exchanged
    used,      \* every secret that was ever handed out, or lost
    begun      \* every session that was ever opened

chainVars == <<live, used, begun>>

ChainInit ==
    /\ live = [s \in Sessions |-> {}]
    /\ used = {}
    /\ begun = {}

\* A login opens a new session with a new secret.
Open(s, t) ==
    /\ s \notin begun
    /\ t \notin used
    /\ live' = [live EXCEPT ![s] = {t}]
    /\ used' = used \cup {t}
    /\ begun' = begun \cup {s}

\* A rotation: the one live secret is spent, its successor takes its place.
Exchange(s, t1, t2) ==
    /\ live[s] = {t1}
    /\ t2 \notin used
    /\ live' = [live EXCEPT ![s] = {t2}]
    /\ used' = used \cup {t2}
    /\ UNCHANGED begun

\* Sign-out, replay, expiry, deactivation, purge: sessions end.
End(S) ==
    /\ live' = [s \in Sessions |-> IF s \in S THEN {} ELSE live[s]]
    /\ UNCHANGED <<used, begun>>

\* A secret minted by a transaction that never committed.
Lose(t) ==
    /\ t \notin used
    /\ used' = used \cup {t}
    /\ UNCHANGED <<live, begun>>

ChainNext ==
    \/ \E s \in Sessions, t \in Tokens : Open(s, t)
    \/ \E s \in Sessions, t1, t2 \in Tokens : Exchange(s, t1, t2)
    \/ \E S \in SUBSET Sessions : End(S)
    \/ \E t \in Tokens : Lose(t)

ChainSpec == ChainInit /\ [][ChainNext]_chainVars
================================================================================
