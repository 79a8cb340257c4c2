--------------------------- MODULE MCLocalWorker ---------------------------
(***************************************************************************)
(* Two requests of one worker with a single slot and one of another; two   *)
(* keys.                                                                   *)
(***************************************************************************)
EXTENDS LocalWorker

CONSTANTS p1, p2, p3, w1, w2, k1, k2

MCProcs == {p1, p2, p3}
MCWorkers == {w1, w2}
MCWorkerOf == [p \in MCProcs |-> IF p = p3 THEN w2 ELSE w1]
MCMaxWorkers == [w \in MCWorkers |-> 1]
MCKeys == {k1, k2}
MCAsks == [p \in MCProcs |-> IF p = p2 THEN MCKeys ELSE {k1}]
=============================================================================
