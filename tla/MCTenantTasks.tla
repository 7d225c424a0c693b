---------------------------- MODULE MCTenantTasks ----------------------------
(* Small instances of TenantTasks for TLC. *)
EXTENDS TenantTasks

=============================================================================
