---------------------------- MODULE MCDrainLanes -----------------------------
(***************************************************************************)
(* Two parents and one closing-issues task over a pull-git task, two       *)
(* commit-object tasks and the git-refs task.                              *)
(***************************************************************************)
EXTENDS DrainLanes

CONSTANTS p1, p2, closing, refs, pull, c1, c2

MCChildren ==
    [t \in {p1, p2, closing} |->
        CASE t = p1 -> {pull, closing}
          [] t = p2 -> {c1, c2}
          [] OTHER -> {}]

(* The closing-issues request may hang for ever. *)
LiveSpec == DrainSpec /\ Fairness({closing})

=============================================================================
