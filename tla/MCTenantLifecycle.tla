--------------------------- MODULE MCTenantLifecycle ---------------------------
EXTENDS TenantLifecycle, TLC

ProcSymmetry == Permutations(Procs)

===============================================================================
