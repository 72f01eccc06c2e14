-------------------------- MODULE MCMaintenanceJobs --------------------------
(***************************************************************************)
(* Two targets and one commit, a call with or without the one caller key.  *)
(***************************************************************************)
EXTENDS MaintenanceJobs, TLC

CONSTANTS a, b, c, k

Symmetry == Permutations(Targets)

=============================================================================
