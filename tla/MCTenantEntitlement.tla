-------------------------- MODULE MCTenantEntitlement --------------------------
(* What TLC needs besides the specification: the processes that run the      *)
(* daily jobs are interchangeable in the run that checks no liveness.        *)
EXTENDS TenantEntitlement, TLC

Symmetry == Permutations(Worker)
================================================================================
