----------------------------- MODULE MCRateLimits -----------------------------
(***************************************************************************)
(* Operations of the core pool, and of both pools with a cached REST       *)
(* answer; each window allows two requests.  The tolerance is the code's.  *)
(***************************************************************************)
EXTENDS RateLimits, TLC

CONSTANTS k1, k2

Core == [rest |-> "core", graphql |-> Nothing, cached |-> FALSE]
Flexible == [rest |-> "core", graphql |-> "graphql", cached |-> FALSE]
CachedFlexible == [Flexible EXCEPT !.cached = TRUE]

Pools == {"core", "graphql"}
TwoEach == [r \in Pools |-> 2]
Reads == {Core, CachedFlexible}

=============================================================================
