--------------------------- MODULE MCSingleflight ---------------------------
(***************************************************************************)
(* Instances of Singleflight, with one flight object per goroutine.        *)
(***************************************************************************)
EXTENDS Singleflight

CONSTANTS p1, p2, p3, g1, g2, g3, v, e

MCProcs == {p1, p2, p3}
MCFlights == {g1, g2, g3}
MCResults == {v, e}
=============================================================================
