----------------------------- MODULE MCFactStore -----------------------------
(***************************************************************************)
(* A small archive: two facts, three publication keys, three instants.       *)
(***************************************************************************)
EXTENDS FactStore, TLC

CONSTANTS issue, comments, k1, k2, k3, task

MCFacts == {issue, comments}
MCKeys == {k1, k2, k3}
MCOwners == {task}

Symmetry == Permutations(MCFacts) \cup Permutations(MCKeys)

=============================================================================
