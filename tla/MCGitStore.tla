------------------------------ MODULE MCGitStore ------------------------------
(***************************************************************************)
(* A branch, a pull and the fork it comes from: the history c1 <- c2 with  *)
(* a rewritten c3 on c1.                                                   *)
(***************************************************************************)
EXTENDS GitStore, TLC

CONSTANTS c1, c2, c3

History3 == c1 :> None @@ c2 :> c1 @@ c3 :> c1
Source(name, kind, remote, pull) == [name |-> name, kind |-> kind, remote |-> remote, pull |-> pull]
PullsAndFork == <<Source("pull/1", "pull-ref", "origin", 1),
                 Source("pull/2", "pull-ref", "origin", 2),
                 Source("fork/1", "repository-ref", "fork", 1)>>
Naming == c1 :> {2} @@ c2 :> {1} @@ c3 :> {1, 2}
Start == "main" :> c1 @@ "pull/1" :> c2 @@ "pull/2" :> c3 @@ "fork/1" :> c2
Asked == {{c1, c2, c3}}
PullDetails == 1 :> [base |-> c1, head |-> c2, landing |-> None] @@ 2 :> [base |-> c1, head |-> c3, landing |-> c3]

=============================================================================
