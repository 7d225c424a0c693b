------------------------- MODULE MCTenantConnections -------------------------
(* Small instances of TenantConnections for TLC. *)
EXTENDS TenantConnections, TLC

Symmetry == Permutations(Threads)

=============================================================================
