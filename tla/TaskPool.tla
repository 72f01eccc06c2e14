------------------------------ MODULE TaskPool -------------------------------
(***************************************************************************)
(* What one drain of a sync cycle promises, whoever executes the tasks:    *)
(* work is completed one task at a time, running work may add tasks, and   *)
(* the drain reports success only when no task is left.                    *)
(***************************************************************************)
CONSTANT Tasks   \* identities of the durable task rows of one cycle

VARIABLES
    pending,  \* rows of sync_tasks without completed_at
    rows,     \* rows of sync_tasks, completed or not
    faulted,  \* some task failed, or the store did, during this drain
    outcome   \* "running", "returned" or "raised"

vars == <<pending, rows, faulted, outcome>>

Init ==
    /\ rows \in SUBSET Tasks
    /\ pending \in SUBSET rows
    /\ faulted = FALSE
    /\ outcome = "running"

(* Running work inserts tasks; a row that exists already stays as it is.   *)
(* Work that was started before a fault may still end after the drain has  *)
(* raised, never after it has returned.                                    *)
Insert ==
    /\ outcome # "returned"
    /\ \E new \in SUBSET (Tasks \ rows) :
          /\ rows' = rows \cup new
          /\ pending' = pending \cup new
    /\ UNCHANGED <<faulted, outcome>>

Complete ==
    /\ outcome # "returned"
    /\ \E t \in pending : pending' = pending \ {t}
    /\ UNCHANGED <<rows, faulted, outcome>>

(* A task fails, or the store does and the drain raises at once.           *)
Fault ==
    /\ outcome # "returned"
    /\ faulted' = TRUE
    /\ outcome' \in {outcome, "raised"}
    /\ UNCHANGED <<pending, rows>>

Return ==
    /\ outcome = "running"
    /\ pending = {} /\ ~faulted
    /\ outcome' = "returned"
    /\ UNCHANGED <<pending, rows, faulted>>

Raise ==
    /\ outcome = "running"
    /\ faulted
    /\ outcome' = "raised"
    /\ UNCHANGED <<pending, rows, faulted>>

Next == Insert \/ Complete \/ Fault \/ Return \/ Raise

Spec == Init /\ [][Next]_vars

=============================================================================
