--------------------------- MODULE MCArchiveWriters ---------------------------
(***************************************************************************)
(* Two processes; one or two path names of one database; two Git stores a  *)
(* call can be configured with.                                            *)
(***************************************************************************)
EXTENDS ArchiveWriters, TLC

CONSTANTS p, q, a, b, x, s, t

Linked == (a :> x) @@ (b :> x)
OneName == a :> x

=============================================================================
