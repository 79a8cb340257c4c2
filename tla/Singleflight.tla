---------------------------- MODULE Singleflight ----------------------------
(***************************************************************************)
(* economy.Group: concurrent calls of Do with one key share an execution.  *)
(* The table m is only touched under the lock, so each critical section is *)
(* one step; the result and the done channel are not under it, so writing  *)
(* the result, closing the channel and deleting the key are three.         *)
(***************************************************************************)
CONSTANTS
    Procs,      \* goroutines that call Do
    Keys,
    Results,    \* what fn can return, errors among them
    Flights,    \* flight objects; one nobody refers to is free memory
    None

ASSUME NoneAssumption == None \notin Results \cup Flights

VARIABLES
    m,          \* Group.m: key -> flight
    flight,     \* the contents of each flight
    caller      \* where each goroutine is in Do

vars == <<m, flight, caller>>

Flight == [done : BOOLEAN, val : Results \cup {None}]
Steps == {"enter", "run", "close", "delete", "wait", "return"}
Caller == {r \in [step : Steps, key : Keys, flight : Flights \cup {None},
                  joined : BOOLEAN] :
             r.flight = None <=> r.step = "enter"}

Request == [key : Keys, part : BOOLEAN, val : Results \cup {None}]

ASSUME NullAssumption == None \notin Caller \cup Request

TypeOK ==
    /\ m \in [Keys -> Flights \cup {None}]
    /\ flight \in [Flights -> Flight]
    /\ caller \in [Procs -> Caller \cup {None}]

Init ==
    /\ m = [k \in Keys |-> None]
    /\ flight = [f \in Flights |-> [done |-> FALSE, val |-> None]]
    /\ caller = [p \in Procs |-> None]

At(p, step) == caller[p] # None /\ caller[p].step = step

Free(f) ==
    /\ \A k \in Keys : m[k] # f
    /\ \A p \in Procs : caller[p] # None => caller[p].flight # f

Call(p, k) ==
    /\ caller[p] = None
    /\ caller' = [caller EXCEPT ![p] =
                    [step |-> "enter", key |-> k, flight |-> None, joined |-> FALSE]]
    /\ UNCHANGED <<m, flight>>

\* Mutant: the second result of the map lookup is not looked at.
JoinUnchecked(p) ==
    /\ At(p, "enter")
    /\ caller' = [caller EXCEPT ![p].step = "wait", ![p].joined = TRUE,
                                ![p].flight = m[caller[p].key]]
    /\ UNCHANGED <<m, flight>>

\* The first critical section finds a flight to wait for ...
Join(p) ==
    /\ At(p, "enter") /\ m[caller[p].key] # None
    /\ caller' = [caller EXCEPT ![p].step = "wait", ![p].joined = TRUE,
                                ![p].flight = m[caller[p].key]]
    /\ UNCHANGED <<m, flight>>

\* Mutant: the lookup and the insertion are two critical sections.
LeadUnchecked(p, f) ==
    /\ At(p, "enter")
    /\ Free(f)
    /\ flight' = [flight EXCEPT ![f] = [done |-> FALSE, val |-> None]]
    /\ m' = [m EXCEPT ![caller[p].key] = f]
    /\ caller' = [caller EXCEPT ![p].step = "run", ![p].flight = f]

\* ... or puts a new one into the table.
Lead(p, f) ==
    /\ At(p, "enter") /\ m[caller[p].key] = None
    /\ Free(f)
    /\ flight' = [flight EXCEPT ![f] = [done |-> FALSE, val |-> None]]
    /\ m' = [m EXCEPT ![caller[p].key] = f]
    /\ caller' = [caller EXCEPT ![p].step = "run", ![p].flight = f]

\* Mutant: the result stays in the leader's local variables.
FinishUnpublished(p, r) ==
    /\ At(p, "run")
    /\ caller' = [caller EXCEPT ![p].step = "close"]
    /\ UNCHANGED <<m, flight>>

\* fn returns, with or without an error.
Finish(p, r) ==
    /\ At(p, "run")
    /\ flight' = [flight EXCEPT ![caller[p].flight].val = r]
    /\ caller' = [caller EXCEPT ![p].step = "close"]
    /\ UNCHANGED m

\* Mutant: a path on which the leader does not close the channel.
CloseDoneSkipped(p) ==
    /\ At(p, "close")
    /\ caller' = [caller EXCEPT ![p].step = "delete"]
    /\ UNCHANGED <<m, flight>>

CloseDone(p) ==
    /\ At(p, "close")
    /\ flight' = [flight EXCEPT ![caller[p].flight].done = TRUE]
    /\ caller' = [caller EXCEPT ![p].step = "delete"]
    /\ UNCHANGED m

\* The second critical section deletes whatever the key has.
Delete(p) ==
    /\ At(p, "delete")
    /\ m' = [m EXCEPT ![caller[p].key] = None]
    /\ caller' = [caller EXCEPT ![p].step = "return"]
    /\ UNCHANGED flight

\* Mutant: a joiner reads the flight without waiting for the close.
AwakeEarly(p) ==
    /\ At(p, "wait")
    /\ caller' = [caller EXCEPT ![p].step = "return"]
    /\ UNCHANGED <<m, flight>>

Awake(p) ==
    /\ At(p, "wait") /\ flight[caller[p].flight].done
    /\ caller' = [caller EXCEPT ![p].step = "return"]
    /\ UNCHANGED <<m, flight>>

Return(p) ==
    /\ At(p, "return")
    /\ caller' = [caller EXCEPT ![p] = None]
    /\ UNCHANGED <<m, flight>>

Step(p) ==
    \/ Join(p)
    \/ \E f \in Flights : Lead(p, f)
    \/ \E r \in Results : Finish(p, r)
    \/ CloseDone(p) \/ Delete(p) \/ Awake(p) \/ Return(p)

Next == \E p \in Procs : Step(p) \/ \E k \in Keys : Call(p, k)

Spec == Init /\ [][Next]_vars

\* Go's scheduler runs every goroutine, its mutex starves nobody, and fn comes
\* back: the HTTP client of the local worker gives up after three minutes.
FairSpec == Spec /\ \A p \in Procs : WF_vars(Step(p))

-----------------------------------------------------------------------------
(* Properties.                                                             *)

Leads(p) == caller[p] # None /\ caller[p].step \in {"run", "close", "delete"}

\* cache_test.go:42 "expected one real execution": two goroutines are never
\* between the two critical sections of Do for one key (cache.go:81-94).
OneExecution ==
    \A p, q \in Procs :
        Leads(p) /\ Leads(q) /\ caller[p].key = caller[q].key => p = q

\* A goroutine only returns a result that was published before done was closed,
\* by a leader who asked for the same key, and no flight it waits for is lost:
\* an open one still has its leader (cache.go:81-91).
FlightSound ==
    \A p \in Procs : caller[p] # None /\ caller[p].flight # None =>
        LET f == caller[p].flight IN
        /\ caller[p].step \in {"delete", "return"} => flight[f].done
        /\ flight[f].done => flight[f].val # None
        /\ ~flight[f].done =>
             \E q \in Procs : /\ At(q, "run") \/ At(q, "close")
                              /\ caller[q].flight = f
                              /\ caller[q].key = caller[p].key
                              /\ m[caller[p].key] = f

\* Nobody who calls Do waits for ever (cache.go:81-84: a joiner has no other way
\* out than the leader's close).
EveryCallReturns ==
    \A p \in Procs : caller[p] # None ~> caller[p] = None

-----------------------------------------------------------------------------
(* Why they hold: the inductive invariant.                                 *)

\* A leader's flight is the one in the table, open until the leader closes it.
LeaderInv(p) ==
    Leads(p) =>
        /\ m[caller[p].key] = caller[p].flight
        /\ flight[caller[p].flight].done <=> caller[p].step = "delete"
        /\ caller[p].step # "run" => flight[caller[p].flight].val # None

\* A flight somebody has is closed with a result, or is in the table under the
\* key of whoever has it.
HolderInv(p) ==
    caller[p] # None /\ caller[p].flight # None =>
        IF flight[caller[p].flight].done
        THEN flight[caller[p].flight].val # None
        ELSE m[caller[p].key] = caller[p].flight /\ caller[p].step # "return"

GroupInv ==
    /\ \A p \in Procs : LeaderInv(p) /\ HolderInv(p)
    /\ \A p, q \in Procs :
         Leads(p) /\ Leads(q) /\ caller[p].flight = caller[q].flight => p = q
    /\ \A k \in Keys : m[k] # None =>
         \E p \in Procs : Leads(p) /\ caller[p].key = k /\ caller[p].flight = m[k]

-----------------------------------------------------------------------------
(* Group implements SharedCalls.                                           *)

ExecOf(k) ==
    CASE m[k] = None -> [over |-> TRUE, val |-> None]
      [] m[k] # None /\ flight[m[k]].done -> [over |-> TRUE, val |-> flight[m[k]].val]
      [] OTHER -> [over |-> FALSE, val |-> None]

ReqOf(p) ==
    LET f == caller[p].flight
        asked == [key |-> caller[p].key, part |-> FALSE, val |-> None]
    IN  CASE caller[p] = None -> None
          [] At(p, "enter") -> asked
          [] caller[p] # None /\ ~At(p, "enter") /\ flight[f].done ->
               [asked EXCEPT !.val = flight[f].val]
          [] OTHER -> [asked EXCEPT !.part = TRUE]

AbsExec == [k \in Keys |-> ExecOf(k)]
AbsReq == [p \in Procs |-> ReqOf(p)]

Shared == INSTANCE SharedCalls WITH exec <- AbsExec, req <- AbsReq

\* Every behaviour of Group is one of SharedCalls (cache.go:76-96).
ImplementsShared == Shared!Spec
=============================================================================
