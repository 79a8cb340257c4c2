--------------------------- MODULE MCDeveloperFlow ---------------------------
(***************************************************************************)
(* Instances of DeveloperFlow: a low-risk task in two spellings and a      *)
(* hard-risk one; no file is named by them, so "affected" is what is dirty.*)
(***************************************************************************)
EXTENDS DeveloperFlow, TLC

CONSTANTS f1, f2, v1, v2, t1, t1spaced, hard

MCFiles == {f1, f2}
OneFile == {f1}
MCContents == {v1, v2}
Symmetry == Permutations(MCContents)
MCTasks == {t1, t1spaced, hard}
TwoTasks == {t1, hard}
MCHard == {hard}
MCNorm == [t \in Tasks |-> IF t = t1spaced THEN t1 ELSE t]
MCRelevant == [t \in Tasks |-> {}]
QuotedNames == {f2}
NoNames == {}
=============================================================================
