----------------------------- MODULE MCFileCache -----------------------------
(***************************************************************************)
(* Instances of FileCache.  Four inodes are enough for three goroutines: a *)
(* new file is only made when <key>.json.tmp is gone.                      *)
(***************************************************************************)
EXTENDS FileCache, TLC

CONSTANTS p1, p2, p3, v1, v2, i1, i2, i3, i4

MCUsers == {p1, p2, p3}
MCValues == {v1, v2}
MCInodes == {i1, i2, i3, i4}
Symmetry ==
    Permutations(MCUsers) \cup Permutations(MCValues) \cup Permutations(MCInodes)
==============================================================================
