-------------------------- MODULE MCHardwarePolicy --------------------------
(***************************************************************************)
(* Two machines, of 8 and 16 GB, with little, enough or unknown memory     *)
(* left.                                                                   *)
(***************************************************************************)
EXTENDS HardwarePolicy, TLC

CONSTANTS a1, a2, small, large

MCActors == {a1, a2}
MCCommands == [a \in MCActors |->
    IF a = a1 THEN {"tune", "run"} ELSE {"accept", "adopt", "tune"}]
MCMachines == {small, large}
MCMemory == [m \in MCMachines |-> IF m = small THEN 8192 ELSE 16384]
MCResources ==
    {[available |-> mb, swap |-> 0] : mb \in {700, 4500, 0}}
MCOverrides == {NoOverride, [NoOverride EXCEPT !.soft = 9000]}
MCRequests == {3000, 5000}
MCBases == {4000, 8000}

=============================================================================
