------------------------------ MODULE MCSerena ------------------------------
(***************************************************************************)
(* Instances of Serena.                                                    *)
(***************************************************************************)
EXTENDS Serena, TLC

CONSTANTS c1, c2, c3

MCCallers == {c1, c2, c3}
TwoCallers == {c1, c2}
Symmetry == Permutations(MCCallers)
=============================================================================
