--------------------------- MODULE MCContextDelta ---------------------------
(***************************************************************************)
(* An instance of ContextDelta: a clean state and one with two changed     *)
(* files; the repository map follows the changed files, and for t1 the     *)
(* clean state has a relevant file too.                                    *)
(***************************************************************************)
EXTENDS ContextDelta, TLC

CONSTANTS clean, both, f1, f2, t1, t2, c1, c2

MCStates == {clean, both}
MCFiles == {f1, f2}
MCCalls == {c1, c2}
MCTasks == {t1, t2}
MCChanged == [s \in States |-> IF s = clean THEN {} ELSE Files]
MCRelevant ==
    [t \in Tasks |-> [s \in States |->
        CASE s = both -> Files [] t = t1 -> {f1} [] OTHER -> {}]]

Callers == Permutations(MCCalls)
=============================================================================
