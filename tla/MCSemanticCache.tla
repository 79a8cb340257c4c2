-------------------------- MODULE MCSemanticCache --------------------------
(***************************************************************************)
(* Instances of SemanticCache: two goroutines of one process and one of    *)
(* another.                                                                *)
(***************************************************************************)
EXTENDS SemanticCache, TLC

CONSTANTS p1, p2, p3, h1, h2, s1, s2, q1

MCProcs == {p1, p2, p3}
MCHosts == {h1, h2}
MCHostOf == p1 :> h1 @@ p2 :> h1 @@ p3 :> h2
MCStates == {s1, s2}
MCQueries == {q1}

Symmetry == Permutations({p1, p2})
=============================================================================
