----------------------------- MODULE SharedCalls -----------------------------
(***************************************************************************)
(* What economy.Group.Do promises its callers: the function runs at most   *)
(* once at a time for a key, and one execution answers everybody who asked *)
(* while it ran.  Flights, channels and the lock do not appear.            *)
(***************************************************************************)
CONSTANTS Procs, Keys, Results, None

VARIABLES
    exec,   \* key -> "idle", "running", or the result of an execution just over
    req     \* caller -> None, or what it asked and the answer it has so far

vars == <<exec, req>>

Idle == [over |-> TRUE, val |-> None]
Running == [over |-> FALSE, val |-> None]
Over(r) == [over |-> TRUE, val |-> r]
Asked(k) == [key |-> k, part |-> FALSE, val |-> None]

Init ==
    /\ exec = [k \in Keys |-> Idle]
    /\ req = [p \in Procs |-> None]

Ask(p, k) ==
    /\ req[p] = None
    /\ req' = [req EXCEPT ![p] = Asked(k)]
    /\ UNCHANGED exec

Outside(p, k) == req[p] = Asked(k)

\* The caller's own execution begins.
Begin(p, k) ==
    /\ Outside(p, k) /\ exec[k] = Idle
    /\ exec' = [exec EXCEPT ![k] = Running]
    /\ req' = [req EXCEPT ![p].part = TRUE]

Join(p, k) ==
    /\ Outside(p, k) /\ exec[k] = Running
    /\ req' = [req EXCEPT ![p].part = TRUE]
    /\ UNCHANGED exec

\* The last execution is over and has not been forgotten yet.
Late(p, k) ==
    /\ Outside(p, k) /\ exec[k].val # None
    /\ req' = [req EXCEPT ![p].val = exec[k].val]
    /\ UNCHANGED exec

\* One execution answers all who take part in it, at once.
End(k, r) ==
    /\ exec[k] = Running
    /\ exec' = [exec EXCEPT ![k] = Over(r)]
    /\ req' = [p \in Procs |->
                 IF req[p] # None /\ req[p].key = k /\ req[p].part
                 THEN [key |-> k, part |-> FALSE, val |-> r] ELSE req[p]]

Forget(k) ==
    /\ exec[k].val # None
    /\ exec' = [exec EXCEPT ![k] = Idle]
    /\ UNCHANGED req

Take(p) ==
    /\ req[p] # None /\ req[p].val # None
    /\ req' = [req EXCEPT ![p] = None]
    /\ UNCHANGED exec

Next ==
    \/ \E p \in Procs, k \in Keys : Ask(p, k) \/ Begin(p, k) \/ Join(p, k) \/ Late(p, k)
    \/ \E k \in Keys : Forget(k) \/ \E r \in Results : End(k, r)
    \/ \E p \in Procs : Take(p)

Spec == Init /\ [][Next]_vars
==============================================================================
