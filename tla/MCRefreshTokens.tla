---------------------------- MODULE MCRefreshTokens ----------------------------
(* Small instances of RefreshTokens for TLC. *)
EXTENDS RefreshTokens, TLC

Symmetry == Permutations(Procs) \cup Permutations(Users)
            \cup Permutations(Tokens) \cup Permutations(Sessions)

================================================================================
