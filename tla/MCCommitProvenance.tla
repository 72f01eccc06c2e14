-------------------------- MODULE MCCommitProvenance --------------------------
(***************************************************************************)
(* Two parents that share a commit; one of them refers to it in two        *)
(* sources and to another commit in one.                                   *)
(***************************************************************************)
EXTENDS CommitProvenance

CONSTANTS p1, p2, timeline, reviews, c1, c2

MCRefers ==
    [p \in {p1, p2} |->
        [s \in {timeline, reviews} |->
            IF s = timeline THEN {c1} ELSE IF p = p1 THEN {c1, c2} ELSE {}]]

=============================================================================
