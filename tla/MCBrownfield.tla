---------------------------- MODULE MCBrownfield ----------------------------
(***************************************************************************)
(* Instances of Brownfield.  The second task names the file, the first     *)
(* none, so that for it "affected" is what is dirty.                       *)
(***************************************************************************)
EXTENDS Brownfield, TLC

CONSTANTS f1, v1, v2, t1, t2

OneFile == {f1}
MCContents == {v1, v2}
Symmetry == Permutations(MCContents)
TwoTasks == {t1, t2}
MCNorm == [t \in Tasks |-> t]
MCRelevant == [t \in Tasks |-> IF t = t2 THEN {f1} ELSE {}]
PlainNames == {}
=============================================================================
