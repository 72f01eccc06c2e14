---------------------------- MODULE MCArchiveBuild ----------------------------
(***************************************************************************)
(* Two commits with the same files, and a third with others that may take  *)
(* the second's place; one row of each kind; an engine with coverage and   *)
(* one without.  The legacy archive holds the first commit.                *)
(***************************************************************************)
EXTENDS ArchiveBuild, TLC

CONSTANTS c1, c2, d2, t, u, r, s, old, new

AskedOrRewritten == {<<c1>>, <<c1, c2>>, <<c1, d2>>}
Files == (c1 :> t) @@ (c2 :> t) @@ (d2 :> u)

LegacyArchive ==
    <<Page({r}),
      Commit([sha |-> c1, engine |-> old, nodes |-> 1, coverage |-> None, snapshot |-> TRUE,
              size |-> 1, covered |-> None,
              captured |-> [tree |-> t, engine |-> old, rows |-> {r}, coverage |-> None]])>>

=============================================================================
