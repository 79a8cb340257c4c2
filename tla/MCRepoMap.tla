----------------------------- MODULE MCRepoMap -----------------------------
(***************************************************************************)
(* An instance of RepoMap: file 2 is edited and in one version imports     *)
(* whichever of 3 and 1 exists first; in the other its symbols match the   *)
(* task, so that it then scores as high as file 1, which a semantic        *)
(* result names.  It may be missing from the first commit.                 *)
(***************************************************************************)
EXTENDS RepoMap, TLC

CONSTANTS c1, c2, b1, b2

MCFiles == 1..3
MCEdited == {2}
MCContents == {c1, c2}
MCHeads == {<<c1, c1, c1>>, <<c1, Absent, c1>>}
MCBuilds == {b1, b2}
MCImports ==
    [f \in MCFiles |-> [c \in MCContents |->
        CASE f = 2 /\ c = c2 -> {[first |-> TRUE, paths |-> <<3, 1>>]}
          [] OTHER -> {}]]
MCTaskScore == [f \in MCFiles |-> [c \in MCContents |-> IF f = 2 /\ c = c1 THEN 4500 ELSE 0]]
MCMentioned == {1}
MCCost == <<2, 3, 2>>
MCLog1p == <<693, 1099, 1386>>

Symmetry == Permutations({b1, b2})
=============================================================================
