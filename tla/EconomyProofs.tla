---------------------------- MODULE EconomyProofs ----------------------------
(***************************************************************************)
(* What holds of the two parts of internal/economy/cache.go: of the group, *)
(* for any number of goroutines, keys and flights, also that it implements *)
(* SharedCalls; and of a cache entry, for any number of goroutines,        *)
(* processes, values and crashes.                                          *)
(***************************************************************************)
EXTENDS Singleflight, FileCache, TLAPS

(* Group.                                                                  *)

LEMMA CallerTyped ==
    ASSUME TypeOK, NEW p \in Procs, caller[p] # None
    PROVE  caller[p] \in Caller
BY DEF TypeOK

LEMMA HeldFlight ==
    ASSUME TypeOK, GroupInv, NEW p \in Procs, caller[p] # None, caller[p].step # "enter"
    PROVE  caller[p].flight \in Flights /\ flight[caller[p].flight] \in Flight
BY CallerTyped DEF TypeOK, GroupInv, HolderInv, Caller

LEMMA Moved ==
    ASSUME NEW r \in Caller, NEW st \in Steps, (st = "enter") <=> (r.step = "enter")
    PROVE  [r EXCEPT !.step = st] \in Caller /\ [r EXCEPT !.step = st] # None
BY NullAssumption DEF Caller

(* The inductive invariant: types, leaders and holders of flights, and the *)
(* table agree whatever the interleaving (cache.go:76-96).                 *)
THEOREM GroupInvariant == Spec => [](TypeOK /\ GroupInv)
<1>1. Init => TypeOK /\ GroupInv
  BY DEF Init, TypeOK, GroupInv, LeaderInv, HolderInv, Leads, Flight
<1>2. TypeOK /\ GroupInv /\ [Next]_vars => TypeOK' /\ GroupInv'
  <2>. SUFFICES ASSUME TypeOK, GroupInv, [Next]_vars PROVE TypeOK' /\ GroupInv'
    OBVIOUS
  <2>. USE NoneAssumption, NullAssumption
  <2>1. ASSUME NEW p \in Procs, NEW k \in Keys, Call(p, k) PROVE TypeOK' /\ GroupInv'
    <3>1. TypeOK'
      BY <2>1 DEF Call, TypeOK, Caller, Steps
    <3>2. /\ \A q \in Procs : q # p => caller'[q] = caller[q]
          /\ UNCHANGED <<m, flight>> /\ ~Leads(p) /\ ~Leads(p)'
          /\ caller'[p].step = "enter" /\ caller'[p].flight = None
      BY <2>1 DEF Call, TypeOK, Leads
    <3>3. GroupInv'
      BY <3>2 DEF GroupInv, LeaderInv, HolderInv, Leads
    <3>. QED
      BY <3>1, <3>3
  <2>2. ASSUME NEW p \in Procs, Join(p) PROVE TypeOK' /\ GroupInv'
    BY <2>2, CallerTyped
    DEF Join, At, TypeOK, Caller, Steps, GroupInv, LeaderInv, HolderInv, Leads
  <2>3. ASSUME NEW p \in Procs, NEW f \in Flights, Lead(p, f)
        PROVE  TypeOK' /\ GroupInv'
    <3>0. caller[p] \in Caller
      BY <2>3, CallerTyped DEF Lead, At
    <3>m. [caller[p] EXCEPT !.step = "run", !.flight = f] \in Caller
      BY <3>0 DEF Caller, Steps
    <3>1. TypeOK'
      BY <2>3, <3>0, <3>m DEF Lead, TypeOK, Caller, Flight
    <3>2. /\ \A q \in Procs : q # p => caller'[q] = caller[q]
          /\ \A g \in Flights : g # f => flight'[g] = flight[g]
          /\ flight'[f] = [done |-> FALSE, val |-> None]
          /\ \A k \in Keys : m'[k] = IF k = caller[p].key THEN f ELSE m[k]
          /\ caller[p].step = "enter" /\ m[caller[p].key] = None /\ caller[p].key \in Keys
          /\ caller'[p].step = "run" /\ caller'[p].flight = f
          /\ caller'[p].key = caller[p].key /\ caller'[p] # None
      BY <2>3, <3>0, <3>m DEF Lead, At, TypeOK, Caller
    <3>3. \A q \in Procs : caller[q] # None => caller[q].flight # f
      BY <2>3 DEF Lead, Free
    <3>4. \A q \in Procs : Leads(q)' <=> q = p \/ Leads(q)
      BY <3>2 DEF Leads
    <3>5. \A q \in Procs : caller[q] # None => caller[q] \in Caller
      BY CallerTyped
    <3>6. ASSUME NEW q \in Procs PROVE LeaderInv(q)' /\ HolderInv(q)'
      <4>1. CASE q = p
        BY <3>2, <4>1 DEF LeaderInv, HolderInv, Leads
      <4>2. CASE q # p
        BY <3>2, <3>3, <3>5, <4>2 DEF LeaderInv, HolderInv, Leads, GroupInv, Caller
      <4>. QED
        BY <4>1, <4>2
    <3>7. GroupInv'
      BY <3>2, <3>3, <3>4, <3>6 DEF GroupInv, Leads
    <3>. QED
      BY <3>1, <3>7
  <2>4. ASSUME NEW p \in Procs, NEW r \in Results, Finish(p, r)
        PROVE  TypeOK' /\ GroupInv'
    <3>1. caller[p].flight \in Flights /\ caller[p] \in Caller
      BY <2>4, HeldFlight, CallerTyped DEF Finish, At
    <3>2. TypeOK'
      BY <2>4, <3>1 DEF Finish, TypeOK, Caller, Steps, Flight
    <3>3. /\ \A q \in Procs : q # p => caller'[q] = caller[q]
          /\ caller'[p] = [caller[p] EXCEPT !.step = "close"]
          /\ \A g \in Flights : flight'[g].done = flight[g].done
          /\ \A g \in Flights : flight[g].val # None => flight'[g].val # None
          /\ flight'[caller[p].flight].val # None
          /\ m' = m /\ caller[p].step = "run"
          /\ caller[p] # None /\ caller'[p] # None
      BY <2>4, <3>1, Moved DEF Steps, Finish, At, TypeOK, Flight
    <3>4. \A q \in Procs : caller[q] # None => caller[q] \in Caller
      BY CallerTyped
    <3>5. \A q \in Procs : Leads(q)' <=> Leads(q)
      BY <3>1, <3>3 DEF Leads, Caller
    <3>6. ASSUME NEW q \in Procs PROVE LeaderInv(q)' /\ HolderInv(q)'
      <4>1. CASE q = p
        BY <3>1, <3>3, <3>4, <3>5, <4>1 DEF GroupInv, LeaderInv, HolderInv, Caller
      <4>2. CASE q # p /\ caller[q] = None
        BY <3>3, <4>2 DEF LeaderInv, HolderInv, Leads
      <4>3. CASE q # p /\ caller[q] # None
        <5>1. /\ caller[q] \in Caller /\ caller'[q] = caller[q]
              /\ caller[q].flight # None => caller[q].flight \in Flights
              /\ Leads(q) => caller[q].flight # None
          BY <3>3, <4>3, CallerTyped DEF Caller, Leads
        <5>2. HolderInv(q)'
          BY <3>1, <3>3, <3>4, <3>5, <4>3, <5>1 DEF GroupInv, HolderInv
        <5>3. LeaderInv(q)'
          BY <3>1, <3>3, <3>4, <3>5, <4>3, <5>1 DEF GroupInv, LeaderInv, HolderInv, Leads
        <5>. QED
          BY <5>2, <5>3
      <4>. QED
        BY <4>1, <4>2, <4>3
    <3>7. GroupInv'
      BY <3>1, <3>3, <3>5, <3>6 DEF GroupInv, Caller
    <3>. QED
      BY <3>2, <3>7
  <2>5. ASSUME NEW p \in Procs, CloseDone(p) PROVE TypeOK' /\ GroupInv'
    <3>1. caller[p].flight \in Flights /\ caller[p] \in Caller
      BY <2>5, HeldFlight, CallerTyped DEF CloseDone, At
    <3>2. TypeOK'
      BY <2>5, <3>1 DEF CloseDone, TypeOK, Caller, Steps, Flight
    <3>3. /\ \A q \in Procs : q # p => caller'[q] = caller[q]
          /\ caller'[p] = [caller[p] EXCEPT !.step = "delete"]
          /\ \A g \in Flights : flight'[g].val = flight[g].val
          /\ \A g \in Flights : g # caller[p].flight => flight'[g] = flight[g]
          /\ flight'[caller[p].flight].done
          /\ m' = m /\ Leads(p) /\ caller[p].step = "close"
          /\ caller[p] # None /\ caller'[p] # None
      BY <2>5, <3>1, Moved DEF Steps, CloseDone, At, TypeOK, Flight, Leads
    <3>4. flight[caller[p].flight].val # None
      BY <3>3 DEF GroupInv, LeaderInv
    <3>5. \A q \in Procs : caller[q] # None => caller[q] \in Caller
      BY CallerTyped
    <3>6. \A q \in Procs : Leads(q)' <=> Leads(q)
      BY <3>1, <3>3 DEF Leads, Caller
    <3>7. ASSUME NEW q \in Procs PROVE LeaderInv(q)' /\ HolderInv(q)'
      <4>1. CASE q = p
        BY <3>1, <3>3, <3>4, <3>5, <3>6, <4>1 DEF GroupInv, LeaderInv, HolderInv, Caller
      <4>2. CASE q # p /\ caller[q] = None
        BY <3>3, <4>2 DEF LeaderInv, HolderInv, Leads
      <4>3. CASE q # p /\ caller[q] # None
        <5>1. /\ caller[q] \in Caller /\ caller'[q] = caller[q]
              /\ caller[q].flight # None => caller[q].flight \in Flights
              /\ Leads(q) => caller[q].flight # None
          BY <3>3, <4>3, CallerTyped DEF Caller, Leads
        <5>2. HolderInv(q)'
          BY <3>1, <3>3, <3>4, <3>5, <3>6, <4>3, <5>1 DEF GroupInv, HolderInv
        <5>3. LeaderInv(q)'
          BY <3>1, <3>3, <3>4, <3>5, <3>6, <4>3, <5>1 DEF GroupInv, LeaderInv, HolderInv, Leads
        <5>. QED
          BY <5>2, <5>3
      <4>. QED
        BY <4>1, <4>2, <4>3
    <3>8. GroupInv'
      BY <3>1, <3>3, <3>6, <3>7 DEF GroupInv, Caller
    <3>. QED
      BY <3>2, <3>8
  <2>6. ASSUME NEW p \in Procs, Delete(p) PROVE TypeOK' /\ GroupInv'
    <3>1. caller[p].flight \in Flights /\ caller[p] \in Caller /\ Leads(p)
      BY <2>6, HeldFlight, CallerTyped DEF Delete, At, Leads
    <3>2. TypeOK'
      BY <2>6, <3>1 DEF Delete, TypeOK, Caller, Steps
    <3>3. /\ \A q \in Procs : q # p => caller'[q] = caller[q]
          /\ caller'[p] = [caller[p] EXCEPT !.step = "return"]
          /\ \A k \in Keys : m'[k] = IF k = caller[p].key THEN None ELSE m[k]
          /\ flight' = flight /\ caller[p].step = "delete"
      BY <2>6, <3>1 DEF Delete, At, TypeOK
    <3>4. m[caller[p].key] = caller[p].flight /\ flight[caller[p].flight].done
      BY <3>1, <3>3 DEF GroupInv, LeaderInv
    <3>5. \A q \in Procs : caller[q] # None => caller[q] \in Caller
      BY CallerTyped
    <3>6. \A q \in Procs : Leads(q)' <=> q # p /\ Leads(q)
      BY <3>1, <3>3 DEF Leads, Caller
    <3>7. \A q \in Procs : q # p /\ Leads(q) => caller[q].key # caller[p].key
      BY <3>1, <3>4 DEF GroupInv, LeaderInv
    <3>8. ASSUME NEW q \in Procs PROVE LeaderInv(q)' /\ HolderInv(q)'
      <4>1. CASE q = p
        BY <3>1, <3>3, <3>4, <3>6, <4>1 DEF LeaderInv, HolderInv, GroupInv, Caller
      <4>2. CASE q # p /\ caller[q] # None
        <5>1. /\ caller[q] \in Caller /\ caller'[q] = caller[q] /\ flight' = flight
              /\ m'[caller[q].key] =
                   IF caller[q].key = caller[p].key THEN None ELSE m[caller[q].key]
          BY <3>3, <3>5, <4>2 DEF Caller
        <5>2. LeaderInv(q)'
          BY <3>6, <3>7, <5>1, <4>2 DEF LeaderInv, GroupInv
        <5>3. HolderInv(q)'
          BY <3>4, <5>1, <4>2 DEF HolderInv, GroupInv
        <5>. QED
          BY <5>2, <5>3
      <4>3. CASE q # p /\ caller[q] = None
        BY <3>3, <3>6, <4>3 DEF LeaderInv, HolderInv, Leads
      <4>. QED
        BY <4>1, <4>2, <4>3
    <3>9. GroupInv'
      BY <3>1, <3>3, <3>4, <3>6, <3>8 DEF GroupInv, LeaderInv
    <3>. QED
      BY <3>2, <3>9
  <2>7. ASSUME NEW p \in Procs, Awake(p) \/ Return(p) PROVE TypeOK' /\ GroupInv'
    <3>1. TypeOK'
      BY <2>7, CallerTyped DEF Awake, Return, At, TypeOK, Caller, Steps
    <3>2. /\ \A q \in Procs : q # p => caller'[q] = caller[q]
          /\ UNCHANGED <<m, flight>> /\ ~Leads(p) /\ ~Leads(p)'
          /\ \/ caller'[p] = None
             \/ /\ caller'[p] = [caller[p] EXCEPT !.step = "return"]
                /\ caller[p].step = "wait" /\ caller[p] # None
                /\ flight[caller[p].flight].done
      BY <2>7, CallerTyped DEF Awake, Return, At, TypeOK, Leads, Caller
    <3>3. GroupInv'
      BY <3>2, CallerTyped DEF GroupInv, LeaderInv, HolderInv, Leads, Caller
    <3>. QED
      BY <3>1, <3>3
  <2>8. CASE UNCHANGED vars
    BY <2>8 DEF vars, TypeOK, GroupInv, LeaderInv, HolderInv, Leads
  <2>. QED
    BY <2>1, <2>2, <2>3, <2>4, <2>5, <2>6, <2>7, <2>8 DEF Next, Step
<1>. QED
  BY <1>1, <1>2, PTL DEF Spec

(* Everything Do keeps about its callers and flights stays well-formed.    *)
THEOREM TypeCorrect == Spec => []TypeOK
BY GroupInvariant, PTL

LEMMA LeadersAgree ==
    ASSUME GroupInv
    PROVE  OneExecution
BY DEF GroupInv, LeaderInv, OneExecution

(* However many goroutines call Do, two are never executing fn, or between *)
(* its end and the deletion of the key, for one key (cache.go:81-94).      *)
THEOREM AtMostOneExecution == Spec => []OneExecution
BY GroupInvariant, LeadersAgree, PTL

LEMMA HoldersSound ==
    ASSUME TypeOK, GroupInv
    PROVE  FlightSound
<1>. SUFFICES ASSUME NEW p \in Procs, caller[p] # None, caller[p].flight # None
              PROVE  LET f == caller[p].flight IN
                     /\ caller[p].step \in {"delete", "return"} => flight[f].done
                     /\ flight[f].done => flight[f].val # None
                     /\ ~flight[f].done =>
                          \E q \in Procs : /\ At(q, "run") \/ At(q, "close")
                                           /\ caller[q].flight = f
                                           /\ caller[q].key = caller[p].key
                                           /\ m[caller[p].key] = f
  BY DEF FlightSound
<1>. DEFINE f == caller[p].flight
<1>1. caller[p] \in Caller /\ HolderInv(p) /\ LeaderInv(p)
  BY CallerTyped DEF GroupInv
<1>2. caller[p].step = "delete" => flight[f].done
  BY <1>1 DEF LeaderInv, Leads
<1>3. ASSUME ~flight[f].done
      PROVE  \E q \in Procs : /\ At(q, "run") \/ At(q, "close")
                              /\ caller[q].flight = f
                              /\ caller[q].key = caller[p].key
                              /\ m[caller[p].key] = f
  <2>1. m[caller[p].key] = f /\ caller[p].key \in Keys
    BY <1>1, <1>3 DEF HolderInv, Caller
  <2>2. PICK q \in Procs : Leads(q) /\ caller[q].key = caller[p].key
                           /\ caller[q].flight = f
    BY <2>1 DEF GroupInv
  <2>3. caller[q].step # "delete"
    BY <1>3, <2>2 DEF GroupInv, LeaderInv
  <2>. QED
    BY <2>1, <2>2, <2>3 DEF Leads, At
<1>. QED
  BY <1>1, <1>2, <1>3 DEF HolderInv

(* Nobody returns an unpublished result, or waits for a flight that has    *)
(* lost its leader (cache.go:81-91).                                       *)
THEOREM FlightsSound == Spec => []FlightSound
BY GroupInvariant, HoldersSound, PTL

-----------------------------------------------------------------------------
(* The refinement of SharedCalls.                                          *)

LEMMA InitRefines == Init => Shared!Init
<1>. SUFFICES ASSUME Init PROVE Shared!Init
  OBVIOUS
<1>1. \A k \in Keys : ExecOf(k) = Shared!Idle
  BY DEF Init, ExecOf, Shared!Idle
<1>2. \A p \in Procs : ReqOf(p) = None
  BY DEF Init, ReqOf, At
<1>. QED
  BY <1>1, <1>2 DEF Shared!Init, AbsExec, AbsReq

LEMMA OneReq ==
    ASSUME NEW p \in Procs, \A q \in Procs : q # p => ReqOf(q)' = ReqOf(q)
    PROVE  AbsReq' = [AbsReq EXCEPT ![p] = ReqOf(p)']
BY DEF AbsReq

LEMMA OneExec ==
    ASSUME NEW k \in Keys, \A j \in Keys : j # k => ExecOf(j)' = ExecOf(j)
    PROVE  AbsExec' = [AbsExec EXCEPT ![k] = ExecOf(k)']
BY DEF AbsExec

\* Whoever has the flight of a leader asked for the leader's key, unless the
\* flight is closed.
LEMMA SameKey ==
    ASSUME TypeOK, GroupInv, NEW p \in Procs, Leads(p), NEW q \in Procs,
           caller[q] # None, caller[q].flight = caller[p].flight,
           ~flight[caller[p].flight].done
    PROVE  caller[q].key = caller[p].key
<1>1. caller[p].flight # None /\ caller[q] \in Caller
  BY CallerTyped DEF Caller, Leads
<1>2. m[caller[q].key] = caller[q].flight /\ caller[q].key \in Keys
  BY <1>1 DEF GroupInv, HolderInv, Caller
<1>3. PICK r \in Procs : Leads(r) /\ caller[r].key = caller[q].key
                         /\ caller[r].flight = caller[p].flight
  BY <1>1, <1>2 DEF GroupInv
<1>. QED
  BY <1>3 DEF GroupInv

LEMMA OneKey ==
    ASSUME TypeOK, GroupInv, NEW p \in Procs, Leads(p), NEW k \in Keys,
           m[k] = caller[p].flight
    PROVE  k = caller[p].key
<1>1. caller[p].flight # None
  BY CallerTyped DEF Leads, Caller
<1>2. PICK r \in Procs : Leads(r) /\ caller[r].key = k /\ caller[r].flight = m[k]
  BY <1>1 DEF GroupInv
<1>. QED
  BY <1>2 DEF GroupInv

LEMMA StepRefines ==
    ASSUME TypeOK, GroupInv, [Next]_vars
    PROVE  [Shared!Next]_(Shared!vars)
<1>. USE NoneAssumption, NullAssumption
<1>1. ASSUME NEW p \in Procs, NEW k \in Keys, Call(p, k) PROVE Shared!Ask(p, k)
  <2>1. /\ \A q \in Procs : q # p => caller'[q] = caller[q]
        /\ UNCHANGED <<m, flight>> /\ caller[p] = None
        /\ At(p, "enter")' /\ caller'[p].key = k
        /\ caller'[p] # None
    <3>1. [step |-> "enter", key |-> k, flight |-> None, joined |-> FALSE] \in Caller
      BY DEF Caller, Steps
    <3>. QED
      BY <1>1, <3>1 DEF Call, TypeOK, At
  <2>2. \A q \in Procs : q # p => ReqOf(q)' = ReqOf(q)
    BY <2>1 DEF ReqOf, At
  <2>3. ReqOf(p) = None /\ ReqOf(p)' = Shared!Asked(k)
    BY <2>1 DEF ReqOf, At, Shared!Asked
  <2>4. AbsExec' = AbsExec
    BY <2>1 DEF AbsExec, ExecOf
  <2>. QED
    BY <2>2, <2>3, <2>4, OneReq DEF Shared!Ask, AbsReq
<1>2. ASSUME NEW p \in Procs, Join(p)
      PROVE  Shared!Join(p, caller[p].key) \/ Shared!Late(p, caller[p].key)
  <2>. DEFINE k == caller[p].key
  <2>1. /\ \A q \in Procs : q # p => caller'[q] = caller[q]
        /\ UNCHANGED <<m, flight>> /\ At(p, "enter") /\ k \in Keys
        /\ caller'[p].key = k /\ caller'[p].step = "wait" /\ caller'[p].flight = m[k]
        /\ m[k] \in Flights /\ m[k] # None
    BY <1>2, CallerTyped DEF Join, TypeOK, At, Caller
  <2>t. caller'[p] # None
    <3>1. [caller[p] EXCEPT !.step = "wait", !.joined = TRUE, !.flight = m[k]] \in Caller
      BY <2>1, CallerTyped DEF At, Caller, Steps
    <3>. QED
      BY <1>2, <3>1 DEF Join, TypeOK
  <2>2. \A q \in Procs : q # p => ReqOf(q)' = ReqOf(q)
    BY <2>1 DEF ReqOf, At
  <2>3. /\ ReqOf(p) = Shared!Asked(k)
        /\ ReqOf(p)' = IF flight[m[k]].done
                        THEN [Shared!Asked(k) EXCEPT !.val = flight[m[k]].val]
                        ELSE [Shared!Asked(k) EXCEPT !.part = TRUE]
    BY <2>1, <2>t DEF ReqOf, At, Shared!Asked
  <2>4. AbsExec' = AbsExec /\ AbsExec[k] = ExecOf(k) /\ AbsReq[p] = ReqOf(p)
    BY <2>1 DEF AbsExec, AbsReq, ExecOf
  <2>5. AbsReq' = [AbsReq EXCEPT ![p] = ReqOf(p)']
    BY <2>2, OneReq
  <2>6. PICK q \in Procs : Leads(q) /\ caller[q].flight = m[k]
    BY <2>1 DEF GroupInv
  <2>8. CASE flight[m[k]].done
    <3>1. flight[m[k]].val # None
      BY <2>6, <2>8 DEF GroupInv, LeaderInv
    <3>2. ExecOf(k).val = flight[m[k]].val
      BY <2>1, <2>8 DEF ExecOf
    <3>3. ReqOf(p)' = [Shared!Asked(k) EXCEPT !.val = flight[m[k]].val]
      BY <2>3, <2>8
    <3>. QED
      BY <2>3, <2>4, <2>5, <3>1, <3>2, <3>3
      DEF Shared!Late, Shared!Outside, AbsReq
  <2>9. CASE ~flight[m[k]].done
    <3>1. ExecOf(k) = Shared!Running
      BY <2>1, <2>9 DEF ExecOf, Shared!Running
    <3>2. ReqOf(p)' = [Shared!Asked(k) EXCEPT !.part = TRUE]
      BY <2>3, <2>9
    <3>. QED
      BY <2>3, <2>4, <2>5, <3>1, <3>2 DEF Shared!Join, Shared!Outside, AbsReq
  <2>. QED
    BY <2>8, <2>9
<1>3. ASSUME NEW p \in Procs, NEW f \in Flights, Lead(p, f)
      PROVE  Shared!Begin(p, caller[p].key)
  <2>. DEFINE k == caller[p].key
  <2>0. caller[p] \in Caller /\ caller[p] # None
    BY <1>3, CallerTyped DEF Lead, At
  <2>1. /\ \A q \in Procs : q # p => caller'[q] = caller[q]
        /\ \A g \in Flights : g # f => flight'[g] = flight[g]
        /\ flight'[f] = [done |-> FALSE, val |-> None]
        /\ \A j \in Keys : m'[j] = IF j = k THEN f ELSE m[j]
        /\ At(p, "enter") /\ m[k] = None /\ k \in Keys
        /\ caller'[p].step = "run" /\ caller'[p].flight = f /\ caller'[p].key = k
    BY <1>3, <2>0 DEF Lead, At, TypeOK, Caller
  <2>2. caller'[p] # None
    <3>1. [caller[p] EXCEPT !.step = "run", !.flight = f] \in Caller
      BY <2>0 DEF Caller, Steps
    <3>. QED
      BY <1>3, <3>1 DEF Lead, TypeOK
  <2>3. \A q \in Procs : caller[q] # None => caller[q].flight # f
    BY <1>3 DEF Lead, Free
  <2>4. \A j \in Keys : m[j] # f /\ m[j] \in Flights \cup {None}
    BY <1>3 DEF Lead, Free, TypeOK
  <2>5. ASSUME NEW q \in Procs, q # p PROVE ReqOf(q)' = ReqOf(q)
    <3>1. CASE caller[q] = None \/ At(q, "enter")
      BY <2>1, <2>5, <3>1 DEF ReqOf, At
    <3>2. CASE caller[q] # None /\ ~At(q, "enter")
      <4>1. caller[q].flight \in Flights /\ caller[q].flight # f
        BY <2>3, <3>2, HeldFlight DEF At
      <4>. QED
        BY <2>1, <2>5, <3>2, <4>1 DEF ReqOf, At
    <3>. QED
      BY <3>1, <3>2
  <2>6. ASSUME NEW j \in Keys, j # k PROVE ExecOf(j)' = ExecOf(j)
    <3>1. m'[j] = m[j]
      BY <2>1, <2>6
    <3>2. m[j] # None => flight'[m[j]] = flight[m[j]]
      BY <2>1, <2>4
    <3>. QED
      BY <3>1, <3>2 DEF ExecOf
  <2>7. ExecOf(k) = Shared!Idle /\ ExecOf(k)' = Shared!Running
    BY <2>1 DEF ExecOf, Shared!Idle, Shared!Running
  <2>8. ReqOf(p) = Shared!Asked(k) /\ ReqOf(p)' = [Shared!Asked(k) EXCEPT !.part = TRUE]
    BY <2>1, <2>2 DEF ReqOf, At, Shared!Asked
  <2>9. AbsReq' = [AbsReq EXCEPT ![p] = ReqOf(p)'] /\ AbsReq[p] = ReqOf(p)
    BY <2>5, OneReq DEF AbsReq
  <2>10. AbsExec' = [AbsExec EXCEPT ![k] = ExecOf(k)'] /\ AbsExec[k] = ExecOf(k)
    BY <2>1, <2>6, OneExec DEF AbsExec
  <2>11. AbsReq' = [AbsReq EXCEPT ![p].part = TRUE]
    BY <2>8, <2>9
  <2>. QED
    BY <2>7, <2>8, <2>9, <2>10, <2>11 DEF Shared!Begin, Shared!Outside
<1>4. ASSUME NEW p \in Procs, NEW r \in Results, Finish(p, r)
      PROVE  UNCHANGED Shared!vars
  <2>1. /\ caller[p] \in Caller /\ caller[p] # None
        /\ caller[p].step = "run" /\ caller[p].flight \in Flights
    BY <1>4, CallerTyped, HeldFlight DEF Finish, At
  <2>2. ~flight[caller[p].flight].done
    BY <2>1 DEF GroupInv, LeaderInv, Leads
  <2>3. /\ \A q \in Procs : q # p => caller'[q] = caller[q]
        /\ caller'[p] = [caller[p] EXCEPT !.step = "close"] /\ caller'[p] # None
        /\ m' = m
    BY <1>4, <2>1, Moved DEF Finish, TypeOK, Steps
  <2>4. \A g \in Flights : /\ flight'[g].done <=> flight[g].done
                           /\ flight[g].done => flight'[g] = flight[g]
    BY <1>4, <2>1, <2>2 DEF Finish, TypeOK, Flight
  <2>5. ASSUME NEW q \in Procs PROVE ReqOf(q)' = ReqOf(q)
    <3>1. CASE caller[q] = None \/ At(q, "enter")
      BY <2>1, <2>3, <3>1 DEF ReqOf, At
    <3>2. CASE caller[q] # None /\ ~At(q, "enter")
      <4>1. /\ caller[q].flight \in Flights
            /\ caller'[q] # None /\ ~At(q, "enter")'
            /\ caller'[q].key = caller[q].key /\ caller'[q].flight = caller[q].flight
        BY <2>1, <2>3, <3>2, HeldFlight, CallerTyped DEF At, Caller
      <4>2. CASE flight[caller[q].flight].done
        <5>1. flight'[caller[q].flight] = flight[caller[q].flight]
          BY <2>4, <4>1, <4>2
        <5>. QED
          BY <3>2, <4>1, <4>2, <5>1 DEF ReqOf, At
      <4>3. CASE ~flight[caller[q].flight].done
        <5>1. ~flight'[caller[q].flight].done
          BY <2>4, <4>1, <4>3
        <5>. QED
          BY <3>2, <4>1, <4>3, <5>1 DEF ReqOf, At
      <4>. QED
        BY <4>2, <4>3
    <3>. QED
      BY <3>1, <3>2
  <2>6. ASSUME NEW k \in Keys PROVE ExecOf(k)' = ExecOf(k)
    BY <2>3, <2>4 DEF ExecOf, TypeOK
  <2>. QED
    BY <2>5, <2>6 DEF Shared!vars, AbsReq, AbsExec
<1>5. ASSUME NEW p \in Procs, CloseDone(p), NEW k \in Keys, k = caller[p].key
      PROVE  Shared!End(k, flight[caller[p].flight].val)
             /\ flight[caller[p].flight].val \in Results
  <2>. DEFINE f == caller[p].flight
              r == flight[f].val
  <2>1. /\ caller[p] \in Caller /\ caller[p] # None /\ Leads(p) /\ k \in Keys
        /\ caller[p].step = "close" /\ f \in Flights /\ flight[f] \in Flight
    BY <1>5, CallerTyped, HeldFlight DEF CloseDone, At, Leads, Caller
  <2>2. /\ ~flight[f].done /\ m[k] = f /\ f # None
        /\ r \in Results /\ r # None
    BY <1>5, <2>1 DEF GroupInv, LeaderInv, HolderInv, Flight
  <2>3. /\ \A q \in Procs : q # p => caller'[q] = caller[q]
        /\ caller'[p] = [caller[p] EXCEPT !.step = "delete"] /\ caller'[p] # None
        /\ m' = m
        /\ flight'[f].done /\ flight'[f].val = r
        /\ \A g \in Flights : g # f => flight'[g] = flight[g]
    BY <1>5, <2>1, Moved DEF CloseDone, TypeOK, Steps, Flight
  <2>4. \A j \in Keys : m[j] = f => j = k
    BY <1>5, <2>1, OneKey
  <2>5. ASSUME NEW j \in Keys, j # k PROVE ExecOf(j)' = ExecOf(j)
    <3>1. m'[j] = m[j] /\ (m[j] # None => flight'[m[j]] = flight[m[j]])
      BY <2>3, <2>4, <2>5 DEF TypeOK
    <3>. QED
      BY <3>1 DEF ExecOf
  <2>6. ExecOf(k) = Shared!Running /\ ExecOf(k)' = Shared!Over(r)
    <3>1. m'[k] = f /\ m[k] # None /\ m'[k] # None
      BY <2>2, <2>3
    <3>2. ExecOf(k) = Shared!Running
      BY <2>2, <3>1 DEF ExecOf, Shared!Running
    <3>3. ExecOf(k)' = Shared!Over(r)
      <4>1. flight'[m'[k]].done /\ flight'[m'[k]].val = r
        BY <2>3, <3>1
      <4>. QED
        BY <3>1, <4>1 DEF ExecOf, Shared!Over
    <3>. QED
      BY <3>2, <3>3
  <2>7. ASSUME NEW q \in Procs
        PROVE  ReqOf(q)' = IF ReqOf(q) # None /\ ReqOf(q).key = k /\ ReqOf(q).part
                           THEN [key |-> k, part |-> FALSE, val |-> r] ELSE ReqOf(q)
    <3>1. CASE caller[q] = None
      BY <2>1, <2>3, <3>1 DEF ReqOf, At
    <3>2. CASE At(q, "enter")
      <4>1. ~ReqOf(q).part
        BY <3>2 DEF ReqOf, At
      <4>2. caller'[q] = caller[q]
        BY <2>1, <2>3, <3>2 DEF At
      <4>. QED
        BY <3>2, <4>1, <4>2 DEF ReqOf, At
    <3>3. CASE caller[q] # None /\ ~At(q, "enter")
      <4>1. /\ caller[q].flight \in Flights /\ caller[q] \in Caller
            /\ caller'[q] # None /\ ~At(q, "enter")'
            /\ caller'[q].key = caller[q].key /\ caller'[q].flight = caller[q].flight
        BY <2>1, <2>3, <3>3, HeldFlight, CallerTyped DEF At, Caller
      <4>2. CASE caller[q].flight = f
        <5>1. caller[q].key = k
          BY <1>5, <2>1, <2>2, <3>3, <4>2, SameKey
        <5>2. ReqOf(q) = [key |-> k, part |-> TRUE, val |-> None]
          BY <2>2, <3>3, <4>2, <5>1 DEF ReqOf
        <5>3. ReqOf(q)' = [key |-> k, part |-> FALSE, val |-> r]
          BY <2>3, <4>1, <4>2, <5>1 DEF ReqOf
        <5>4. [key |-> k, part |-> TRUE, val |-> None] \in Request
          BY <2>1 DEF Request
        <5>5. ReqOf(q) # None
          BY <5>2, <5>4, NullAssumption
        <5>6. ReqOf(q).key = k /\ ReqOf(q).part
          BY <5>2
        <5>. QED
          BY <5>3, <5>5, <5>6
      <4>3. CASE caller[q].flight # f
        <5>1. flight'[caller[q].flight] = flight[caller[q].flight]
          BY <2>3, <4>1, <4>3
        <5>2. ReqOf(q)' = ReqOf(q)
          BY <3>3, <4>1, <5>1 DEF ReqOf
        <5>3. CASE flight[caller[q].flight].done
          <6>1. ~ReqOf(q).part
            BY <3>3, <5>3 DEF ReqOf
          <6>. QED
            BY <5>2, <6>1
        <5>4. CASE ~flight[caller[q].flight].done
          <6>1. m[caller[q].key] = caller[q].flight
            BY <3>3, <4>1, <5>4, NoneAssumption DEF GroupInv, HolderInv
          <6>2. caller[q].key # k
            BY <2>2, <4>3, <6>1
          <6>3. ReqOf(q).key = caller[q].key
            BY <3>3, <5>4 DEF ReqOf
          <6>. QED
            BY <5>2, <6>2, <6>3
        <5>. QED
          BY <5>3, <5>4
      <4>. QED
        BY <4>2, <4>3
    <3>. QED
      BY <3>1, <3>2, <3>3
  <2>8. AbsExec' = [AbsExec EXCEPT ![k] = Shared!Over(r)] /\ AbsExec[k] = Shared!Running
    <3>1. AbsExec' = [AbsExec EXCEPT ![k] = ExecOf(k)']
      BY <2>1, <2>5, OneExec
    <3>2. AbsExec[k] = ExecOf(k)
      BY <2>1 DEF AbsExec
    <3>. QED
      BY <2>6, <3>1, <3>2
  <2>9. AbsReq' = [q \in Procs |->
                     IF AbsReq[q] # None /\ AbsReq[q].key = k /\ AbsReq[q].part
                     THEN [key |-> k, part |-> FALSE, val |-> r] ELSE AbsReq[q]]
    BY <2>7 DEF AbsReq
  <2>. QED
    BY <2>2, <2>8, <2>9 DEF Shared!End
<1>6. ASSUME NEW p \in Procs, Delete(p), NEW k \in Keys, k = caller[p].key
      PROVE  Shared!Forget(k)
  <2>1. /\ caller[p] \in Caller /\ caller[p] # None /\ Leads(p) /\ k \in Keys
        /\ caller[p].step = "delete"
    BY <1>6, CallerTyped DEF Delete, At, Leads, Caller
  <2>2. /\ \A q \in Procs : q # p => caller'[q] = caller[q]
        /\ caller'[p] = [caller[p] EXCEPT !.step = "return"] /\ caller'[p] # None
        /\ flight' = flight
        /\ \A j \in Keys : m'[j] = IF j = k THEN None ELSE m[j]
    BY <1>6, <2>1, Moved DEF Delete, TypeOK, Steps
  <2>3. /\ m[k] = caller[p].flight /\ caller[p].flight # None
        /\ flight[m[k]].done /\ flight[m[k]].val # None
    BY <1>6, <2>1, CallerTyped DEF GroupInv, LeaderInv, HolderInv, Leads, Caller
  <2>4. ExecOf(k).val # None /\ ExecOf(k)' = Shared!Idle
    BY <2>1, <2>2, <2>3 DEF ExecOf, Shared!Idle
  <2>5. \A j \in Keys : j # k => ExecOf(j)' = ExecOf(j)
    BY <2>2 DEF ExecOf
  <2>6. ASSUME NEW q \in Procs PROVE ReqOf(q)' = ReqOf(q)
    <3>1. CASE q # p
      BY <2>2, <3>1 DEF ReqOf, At
    <3>2. CASE q = p
      BY <2>1, <2>2, <3>2 DEF ReqOf, At, Caller
    <3>. QED
      BY <3>1, <3>2
  <2>7. AbsExec' = [AbsExec EXCEPT ![k] = Shared!Idle] /\ AbsExec[k].val # None
    <3>1. AbsExec' = [AbsExec EXCEPT ![k] = ExecOf(k)']
      BY <2>1, <2>5, OneExec
    <3>2. AbsExec[k] = ExecOf(k)
      BY <2>1 DEF AbsExec
    <3>. QED
      BY <2>4, <3>1, <3>2
  <2>. QED
    BY <2>6, <2>7 DEF Shared!Forget, AbsReq
<1>7. ASSUME NEW p \in Procs, Awake(p) PROVE UNCHANGED Shared!vars
  <2>1. /\ caller[p] \in Caller /\ caller[p] # None /\ caller[p].step = "wait"
        /\ \A q \in Procs : q # p => caller'[q] = caller[q]
        /\ caller'[p] = [caller[p] EXCEPT !.step = "return"] /\ caller'[p] # None
        /\ flight' = flight /\ m' = m
    BY <1>7, CallerTyped, Moved DEF Awake, At, TypeOK, Steps
  <2>2. \A q \in Procs : ReqOf(q)' = ReqOf(q)
    BY <2>1 DEF ReqOf, At, Caller
  <2>3. \A j \in Keys : ExecOf(j)' = ExecOf(j)
    BY <2>1 DEF ExecOf
  <2>. QED
    BY <2>2, <2>3 DEF Shared!vars, AbsReq, AbsExec
<1>8. ASSUME NEW p \in Procs, Return(p) PROVE Shared!Take(p)
  <2>1. /\ caller[p] \in Caller /\ caller[p] # None /\ caller[p].step = "return"
        /\ \A q \in Procs : q # p => caller'[q] = caller[q]
        /\ caller'[p] = None /\ flight' = flight /\ m' = m
    BY <1>8, CallerTyped DEF Return, At, TypeOK
  <2>2. flight[caller[p].flight].done /\ flight[caller[p].flight].val # None
    BY <2>1 DEF GroupInv, HolderInv, Caller
  <2>3. ReqOf(p) = [key |-> caller[p].key, part |-> FALSE,
                    val |-> flight[caller[p].flight].val]
    BY <2>1, <2>2 DEF ReqOf, At
  <2>4. ReqOf(p) # None /\ ReqOf(p).val # None
    <3>1. caller[p].flight \in Flights /\ flight[caller[p].flight] \in Flight
      BY <2>1, HeldFlight
    <3>2. ReqOf(p) \in Request
      BY <2>1, <2>3, <3>1 DEF Request, Caller, Flight
    <3>3. ReqOf(p) # None
      BY <3>2, NullAssumption
    <3>. QED
      BY <2>2, <2>3, <3>3
  <2>5. \A q \in Procs : q # p => ReqOf(q)' = ReqOf(q)
    BY <2>1 DEF ReqOf, At
  <2>6. ReqOf(p)' = None
    BY <2>1 DEF ReqOf, At
  <2>7. AbsExec' = AbsExec
    BY <2>1 DEF AbsExec, ExecOf
  <2>. QED
    BY <2>4, <2>5, <2>6, <2>7, OneReq DEF Shared!Take, AbsReq
<1>9. CASE UNCHANGED vars
  BY <1>9 DEF vars, Shared!vars, AbsReq, AbsExec, ReqOf, ExecOf, At
<1>10. ASSUME NEW p \in Procs, caller[p] # None PROVE caller[p].key \in Keys
  BY <1>10, CallerTyped DEF Caller
<1>11. CASE Next
  <2>1. PICK p \in Procs : Step(p) \/ \E k \in Keys : Call(p, k)
    BY <1>11 DEF Next
  <2>2. CASE \E k \in Keys : Call(p, k)
    BY <1>1, <2>2 DEF Shared!Next
  <2>3. CASE Join(p)
    BY <1>2, <1>10, <2>3 DEF Shared!Next, Join, At
  <2>4. CASE \E f \in Flights : Lead(p, f)
    BY <1>3, <1>10, <2>4 DEF Shared!Next, Lead, At
  <2>5. CASE \E r \in Results : Finish(p, r)
    BY <1>4, <2>5
  <2>6. CASE CloseDone(p)
    BY <1>5, <1>10, <2>6 DEF Shared!Next, CloseDone, At
  <2>7. CASE Delete(p)
    BY <1>6, <1>10, <2>7 DEF Shared!Next, Delete, At
  <2>8. CASE Awake(p)
    BY <1>7, <2>8
  <2>9. CASE Return(p)
    BY <1>8, <2>9 DEF Shared!Next
  <2>. QED
    BY <2>1, <2>2, <2>3, <2>4, <2>5, <2>6, <2>7, <2>8, <2>9 DEF Step
<1>. QED
  BY <1>9, <1>11

(* Group's flights, channels and table add nothing a caller could observe: *)
(* every behaviour of Do is one of SharedCalls (cache.go:76-96).           *)
THEOREM Implementation == Spec => ImplementsShared
<1>1. Init => Shared!Init
  BY InitRefines
<1>2. TypeOK /\ GroupInv /\ [Next]_vars => [Shared!Next]_(Shared!vars)
  BY StepRefines
<1>. QED
  BY <1>1, <1>2, GroupInvariant, PTL DEF Spec, ImplementsShared, Shared!Spec

-----------------------------------------------------------------------------
(* FileCache.                                                              *)

LEMMA ProcTyped ==
    ASSUME CacheTypeOK, NEW p \in Users, proc[p] # Nil
    PROVE  proc[p] \in Proc
BY DEF CacheTypeOK

\* The next state of one goroutine when the others stay where they are.
LEMMA Advance ==
    ASSUME CacheTypeOK, NEW p \in Users, NEW r \in Proc \cup {Nil},
           proc' = [proc EXCEPT ![p] = r]
    PROVE  /\ proc' \in [Users -> Proc \cup {Nil}]
           /\ proc'[p] = r
           /\ \A q \in Users : q # p => proc'[q] = proc[q]
BY DEF CacheTypeOK

(* What each operation does, with the types that make it well defined.     *)

LEMMA OpenFacts ==
    ASSUME CacheTypeOK, NEW p \in Users, NEW v \in Values, NEW i \in Inodes, SaveOpen(p, v, i)
    PROVE  /\ CacheTypeOK'
           /\ proc'[p].step = "write" /\ proc'[p].val = v /\ proc'[p].fd = i
           /\ proc'[p] # Nil /\ proc[p] = Nil
           /\ proc'[p].solo => \A q \in Users : ~Saving(q)
           /\ ~overlapped' => ~overlapped /\ proc'[p].solo
           /\ \A q \in Users : q # p =>
                /\ Doing(q, "write")' <=> Doing(q, "write")
                /\ Doing(q, "rename")' <=> Doing(q, "rename")
                /\ Doing(q, "read")' <=> Doing(q, "read")
                /\ Doing(q, "unreadable")' <=> Doing(q, "unreadable")
                /\ proc'[q] # Nil => /\ proc[q] # Nil /\ ~proc'[q].solo
                                      /\ proc'[q].fd = proc[q].fd
<1>. DEFINE others == {q \in Users : Saving(q)}
<1>. USE ContentAssumption, InodeAssumption
<1>1. proc[p] = Nil /\ p \notin others
  BY DEF SaveOpen, Open, Saving, Doing
<1>2. /\ proc'[p] = [step |-> "write", val |-> v, fd |-> i, solo |-> others = {}]
      /\ proc'[p] \in Proc
  BY DEF SaveOpen, Open, Proc, ProcSteps
<1>3. ASSUME NEW q \in Users, q # p, proc[q] # Nil
      PROVE  /\ proc'[q] = [proc[q] EXCEPT !.solo = FALSE]
             /\ proc'[q] \in Proc /\ proc[q] \in Proc
  BY <1>3, ProcTyped DEF SaveOpen, Open, Proc
<1>4. \A q \in Users : q # p /\ proc[q] = Nil => proc'[q] = Nil
  BY DEF SaveOpen, Open
<1>5. CacheTypeOK'
  <2>1. proc' \in [Users -> Proc \cup {Nil}]
    BY <1>2, <1>3, <1>4 DEF SaveOpen, Open
  <2>. QED
    BY <2>1 DEF SaveOpen, Open, CacheTypeOK, Contents
<1>6. ASSUME NEW q \in Users, q # p
      PROVE  /\ Doing(q, "write")' <=> Doing(q, "write")
             /\ Doing(q, "rename")' <=> Doing(q, "rename")
             /\ Doing(q, "read")' <=> Doing(q, "read")
             /\ Doing(q, "unreadable")' <=> Doing(q, "unreadable")
             /\ proc'[q] # Nil => /\ proc[q] # Nil /\ ~proc'[q].solo
                                   /\ proc'[q].fd = proc[q].fd
  <2>1. CASE proc[q] = Nil
    BY <1>4, <1>6, <2>1 DEF Doing
  <2>2. CASE proc[q] # Nil
    BY <1>3, <1>6, <2>2, ProcAssumption DEF Doing, Proc
  <2>. QED
    BY <2>1, <2>2
<1>7. proc'[p].solo <=> \A q \in Users : ~Saving(q)
  <2>. HIDE DEF others
  <2>1. proc'[p].solo = (others = {})
    BY <1>2
  <2>2. others = {} <=> \A q \in Users : ~Saving(q)
    BY DEF others
  <2>. QED
    BY <2>1, <2>2
<1>8. ~overlapped' => ~overlapped /\ proc'[p].solo
  <2>1. overlapped' = (overlapped \/ others # {})
    BY DEF SaveOpen, Open
  <2>. QED
    BY <1>7, <2>1 DEF CacheTypeOK
<1>. QED
  BY <1>1, <1>2, <1>5, <1>6, <1>7, <1>8, ProcAssumption

\* Every other step moves one goroutine along, or ends its call.
LEMMA MoveFacts ==
    ASSUME CacheTypeOK, NEW p \in Users,
           \/ SaveWrite(p) \/ SaveRename(p) \/ SaveRefused(p)
           \/ LoadMiss(p) \/ LoadOpen(p) \/ LoadRead(p) \/ Leave(p)
    PROVE  /\ CacheTypeOK'
           /\ overlapped' = overlapped
           /\ \A q \in Users : q # p => proc'[q] = proc[q]
<1>. USE ContentAssumption, InodeAssumption
<1>1. CASE SaveWrite(p)
  <2>1. proc[p] \in Proc /\ proc[p].step = "write" /\ proc[p].val \in Values
    BY <1>1, ProcTyped DEF SaveWrite, Doing, Proc
  <2>2. [proc[p] EXCEPT !.step = "rename"] \in Proc
    BY <2>1 DEF Proc, ProcSteps
  <2>. QED
    BY <1>1, <2>1, <2>2 DEF SaveWrite, CacheTypeOK, Contents
<1>2. CASE SaveRename(p) \/ SaveRefused(p)
  <2>1. proc[p] \in Proc
    BY <1>2, ProcTyped DEF SaveRename, SaveRefused, Doing
  <2>2. /\ [proc[p] EXCEPT !.step = "saved", !.fd = Nil] \in Proc
        /\ [proc[p] EXCEPT !.step = "refused", !.fd = Nil] \in Proc
    BY <2>1 DEF Proc, ProcSteps
  <2>. QED
    BY <1>2, <2>2 DEF SaveRename, SaveRefused, CacheTypeOK
<1>3. CASE LoadMiss(p) \/ LoadOpen(p)
  <2>1. /\ entry # Nil =>
             [step |-> "read", val |-> Nil, fd |-> entry, solo |-> FALSE] \in Proc
        /\ [step |-> "miss", val |-> Nil, fd |-> Nil, solo |-> FALSE] \in Proc
    BY DEF Proc, ProcSteps, CacheTypeOK
  <2>. QED
    BY <1>3, <2>1 DEF LoadMiss, LoadOpen, CacheTypeOK
<1>4. CASE LoadRead(p)
  <2>1. proc[p] \in Proc
    BY <1>4, ProcTyped DEF LoadRead, Doing
  <2>2. \A c \in Values :
          [proc[p] EXCEPT !.step = "hit", !.val = c, !.fd = Nil] \in Proc
    BY <2>1 DEF Proc, ProcSteps
  <2>3. [proc[p] EXCEPT !.step = "unreadable", !.val = Nil, !.fd = Nil] \in Proc
    BY <2>1 DEF Proc, ProcSteps
  <2>. QED
    BY <1>4, <2>2, <2>3 DEF LoadRead, CacheTypeOK
<1>5. CASE Leave(p)
  BY <1>5 DEF Leave, CacheTypeOK
<1>. QED
  BY <1>1, <1>2, <1>3, <1>4, <1>5

\* SoloInv(q) only depends on q itself, on who is saving and on the two names.
LEMMA SoloKept ==
    ASSUME NEW q \in Users, SoloInv(q), proc'[q] = proc[q],
           \A r \in Users : Saving(r)' => Saving(r),
           Saving(q) => tmp' = tmp /\ content'[tmp] = content[tmp],
           Doing(q, "saved") => entry' = entry /\ content'[entry] = content[entry]
    PROVE  SoloInv(q)'
BY DEF SoloInv, Saving, Doing

LEMMA FileStep ==
    ASSUME CacheTypeOK, FileInv, [CacheNext]_cacheVars
    PROVE  CacheTypeOK' /\ FileInv'
<1>. USE ContentAssumption, InodeAssumption, ProcAssumption
<1>1. ASSUME NEW p \in Users, NEW v \in Values, NEW i \in Inodes, SaveOpen(p, v, i)
      PROVE  CacheTypeOK' /\ FileInv'
  <2>1. /\ entry' = entry /\ tmp' = i /\ content' = [content EXCEPT ![i] = Empty]
        /\ i = tmp \/ Unused(i)
    BY <1>1 DEF SaveOpen, Open
  <2>2. entry' # Nil => entry' # tmp'
    BY <2>1 DEF FileInv, Unused
  <2>3. ASSUME NEW q \in Users, proc'[q] # Nil, proc'[q].solo PROVE SoloInv(q)'
    <3>1. q = p
      BY <1>1, <2>3, OpenFacts
    <3>2. \A r \in Users : Saving(r)' => r = p
      BY <1>1, <2>3, <3>1, OpenFacts DEF Saving
    <3>. QED
      BY <1>1, <2>1, <3>1, <3>2, OpenFacts DEF SoloInv, Doing, Saving, CacheTypeOK
  <2>4. ASSUME ~overlapped' PROVE CalmInv'
    <3>1. ~overlapped /\ CalmInv /\ proc'[p].solo
      BY <1>1, <2>4, OpenFacts DEF FileInv
    <3>2. \A q \in Users : Saving(q)' => proc'[q].solo
      BY <1>1, <3>1, OpenFacts DEF Saving
    <3>3. entry' # Nil => content'[entry'] \in Values
      BY <2>1, <2>2, <3>1 DEF CalmInv, CacheTypeOK
    <3>4. ASSUME NEW q \in Users
          PROVE  /\ ~Doing(q, "unreadable")'
                 /\ Doing(q, "read")' => /\ proc'[q].fd # tmp'
                                      /\ content'[proc'[q].fd] \in Values
      <4>1. CASE q = p
        BY <1>1, <4>1, OpenFacts DEF Doing
      <4>2. CASE q # p /\ Doing(q, "read")
        <5>1. proc'[q].fd = proc[q].fd /\ proc[q].fd \in Inodes
          BY <1>1, <4>2, OpenFacts, ProcTyped DEF Doing, Proc
        <5>2. proc[q].fd # i
          BY <2>1, <3>1, <4>2 DEF CalmInv, Unused, Doing
        <5>. QED
          BY <1>1, <2>1, <3>1, <4>2, <5>1, <5>2, OpenFacts DEF CalmInv, Doing, CacheTypeOK
      <4>3. CASE q # p /\ ~Doing(q, "read")
        BY <1>1, <3>1, <4>3, OpenFacts DEF CalmInv
      <4>. QED
        BY <4>1, <4>2, <4>3
    <3>. QED
      BY <3>2, <3>3, <3>4 DEF CalmInv
  <2>. QED
    BY <1>1, <2>2, <2>3, <2>4, OpenFacts DEF FileInv
<1>2. ASSUME NEW p \in Users, SaveWrite(p) PROVE CacheTypeOK' /\ FileInv'
  <2>. DEFINE i == proc[p].fd
  <2>1. /\ CacheTypeOK' /\ overlapped' = overlapped
        /\ \A q \in Users : q # p => proc'[q] = proc[q]
    BY <1>2, MoveFacts
  <2>2. /\ entry' = entry /\ tmp' = tmp /\ Doing(p, "write") /\ proc[p] \in Proc
        /\ i \in Inodes /\ proc[p].val \in Values
        /\ proc'[p] = [proc[p] EXCEPT !.step = "rename"]
        /\ \A j \in Inodes : j # i => content'[j] = content[j]
        /\ content[i] = Empty => content'[i] = proc[p].val
    BY <1>2, ProcTyped DEF SaveWrite, Doing, Proc, CacheTypeOK
  <2>3. \A r \in Users : Saving(r)' => Saving(r)
    BY <2>1, <2>2 DEF Saving, Doing
  <2>4. ASSUME NEW q \in Users, proc'[q] # Nil, proc'[q].solo PROVE SoloInv(q)'
    <3>1. proc[q] # Nil /\ proc[q].solo /\ SoloInv(q)
      BY <2>1, <2>2, <2>4 DEF FileInv, Proc, Doing
    <3>2. CASE q = p
      <4>1. i = tmp /\ content[tmp] = Empty /\ \A r \in Users : Saving(r) => r = p
        BY <2>2, <3>1, <3>2 DEF SoloInv, Saving
      <4>2. /\ proc'[p].step = "rename" /\ proc'[p].fd = i
            /\ proc'[p].val = proc[p].val
        BY <2>2 DEF Proc
      <4>. QED
        BY <2>2, <2>3, <3>2, <4>1, <4>2 DEF SoloInv, Saving, Doing
    <3>3. CASE q # p
      <4>1. ~Saving(q) /\ ~Doing(q, "saved")
        BY <2>2, <3>1, <3>3 DEF SoloInv, Saving, Doing
      <4>. QED
        BY <2>1, <2>3, <3>1, <3>3, <4>1, SoloKept
    <3>. QED
      BY <3>2, <3>3
  <2>5. ASSUME ~overlapped PROVE CalmInv'
    <3>1. CalmInv /\ proc[p].solo /\ i = tmp
      BY <2>2, <2>5 DEF FileInv, CalmInv, SoloInv, Saving, Doing
    <3>2. /\ ~Doing(p, "read")' /\ ~Doing(p, "unreadable")' /\ proc'[p].solo
      BY <2>2, <3>1 DEF Doing, Proc
    <3>. QED
      BY <2>1, <2>2, <2>3, <3>1, <3>2, ProcTyped
      DEF CalmInv, FileInv, Saving, Doing, CacheTypeOK, Proc
  <2>. QED
    BY <2>1, <2>2, <2>4, <2>5 DEF FileInv
<1>3. ASSUME NEW p \in Users, SaveRename(p) PROVE CacheTypeOK' /\ FileInv'
  <2>1. /\ CacheTypeOK' /\ overlapped' = overlapped
        /\ \A q \in Users : q # p => proc'[q] = proc[q]
    BY <1>3, MoveFacts
  <2>2. /\ tmp \in Inodes /\ entry' = tmp /\ tmp' = Nil /\ content' = content
        /\ Doing(p, "rename") /\ proc[p] \in Proc
        /\ proc'[p] = [proc[p] EXCEPT !.step = "saved", !.fd = Nil]
    BY <1>3, ProcTyped DEF SaveRename, Doing, CacheTypeOK
  <2>3. \A r \in Users : Saving(r)' <=> Saving(r) /\ r # p
    BY <2>1, <2>2 DEF Saving, Doing, Proc
  <2>4. ASSUME NEW q \in Users, proc'[q] # Nil, proc'[q].solo PROVE SoloInv(q)'
    <3>1. proc[q] # Nil /\ proc[q].solo /\ SoloInv(q)
      BY <2>1, <2>2, <2>4 DEF FileInv, Proc, Doing
    <3>2. CASE q = p
      <4>1. /\ \A r \in Users : ~Saving(r)'
            /\ content[tmp] = proc[p].val
        BY <2>2, <2>3, <3>1, <3>2 DEF SoloInv, Saving
      <4>. QED
        BY <2>2, <3>2, <4>1 DEF SoloInv, Doing, Saving, Proc
    <3>3. CASE q # p
      <4>1. ~Saving(q) /\ ~Doing(q, "saved")
        BY <2>2, <3>1, <3>3 DEF SoloInv, Saving, Doing
      <4>. QED
        BY <2>1, <2>3, <3>1, <3>3, <4>1, SoloKept
    <3>. QED
      BY <3>2, <3>3
  <2>5. ASSUME ~overlapped PROVE CalmInv'
    <3>1. CalmInv /\ proc[p].solo /\ content[tmp] \in Values
      BY <2>2, <2>5 DEF FileInv, CalmInv, SoloInv, Saving, Doing, Proc
    <3>2. ~Doing(p, "read")' /\ ~Doing(p, "unreadable")'
      BY <2>2 DEF Doing, Proc
    <3>3. \A q \in Users : Doing(q, "read") => proc[q].fd # Nil
      BY ProcTyped DEF Doing, Proc
    <3>4. \A q \in Users : Saving(q)' => proc'[q].solo
      BY <2>1, <2>3, <3>1 DEF CalmInv
    <3>5. ASSUME NEW q \in Users
          PROVE  /\ ~Doing(q, "unreadable")'
                 /\ Doing(q, "read")' => /\ proc'[q].fd # tmp'
                                      /\ content'[proc'[q].fd] \in Values
      <4>1. CASE q = p
        BY <3>2, <4>1
      <4>2. CASE q # p
        BY <2>1, <2>2, <3>1, <3>3, <4>2 DEF CalmInv, Doing
      <4>. QED
        BY <4>1, <4>2
    <3>. QED
      BY <2>2, <3>1, <3>4, <3>5 DEF CalmInv
  <2>. QED
    BY <2>1, <2>2, <2>4, <2>5 DEF FileInv
<1>4. ASSUME NEW p \in Users, \/ SaveRefused(p) \/ LoadMiss(p) \/ LoadOpen(p)
                              \/ LoadRead(p) \/ Leave(p)
      PROVE  CacheTypeOK' /\ FileInv'
  <2>1. /\ CacheTypeOK' /\ overlapped' = overlapped
        /\ \A q \in Users : q # p => proc'[q] = proc[q]
    BY <1>4, MoveFacts
  <2>2. UNCHANGED <<entry, tmp, content>>
    BY <1>4 DEF SaveRefused, LoadMiss, LoadOpen, LoadRead, Leave
  <2>3. ~Saving(p)'
    BY <1>4, ProcTyped DEF SaveRefused, LoadMiss, LoadOpen, LoadRead, Leave, Saving, Doing,
       CacheTypeOK, Proc
  <2>4. \A r \in Users : Saving(r)' => Saving(r)
    BY <2>1, <2>3 DEF Saving, Doing
  <2>5. ~(SaveRefused(p) /\ proc[p].solo)
    BY ProcTyped DEF SaveRefused, FileInv, SoloInv, Saving, Doing, Proc
  <2>6. ASSUME proc'[p] # Nil, proc'[p].solo PROVE SoloInv(p)'
    <3>1. LoadRead(p)
      BY <1>4, <2>5, <2>6, ProcTyped
      DEF SaveRefused, LoadMiss, LoadOpen, Leave, Doing, CacheTypeOK, Proc
    <3>2. proc'[p].step \in {"hit", "unreadable"}
      BY <3>1, ProcTyped DEF LoadRead, Doing, CacheTypeOK, Proc
    <3>. QED
      BY <3>2 DEF SoloInv, Saving, Doing
  <2>7. ASSUME NEW q \in Users, q # p, proc'[q] # Nil, proc'[q].solo PROVE SoloInv(q)'
    BY <2>1, <2>2, <2>4, <2>7, SoloKept DEF FileInv
  <2>8. ASSUME ~overlapped PROVE CalmInv'
    <3>1. CalmInv
      BY <2>8 DEF FileInv
    <3>2. ~Doing(p, "unreadable")'
      BY <1>4, <3>1, ProcTyped
      DEF SaveRefused, LoadMiss, LoadOpen, LoadRead, Leave, Doing, CacheTypeOK, Proc, CalmInv
    <3>3. Doing(p, "read")' => LoadOpen(p)
      BY <1>4, ProcTyped DEF SaveRefused, LoadMiss, LoadRead, Leave, Doing, CacheTypeOK, Proc
    <3>4. Doing(p, "read")' => /\ proc'[p].fd # tmp /\ content[proc'[p].fd] \in Values
      BY <3>1, <3>3 DEF LoadOpen, CacheTypeOK, CalmInv, FileInv
    <3>. QED
      BY <2>1, <2>2, <2>4, <2>3, <3>1, <3>2, <3>4 DEF CalmInv, Saving, Doing
  <2>. QED
    BY <2>1, <2>2, <2>6, <2>7, <2>8 DEF FileInv
<1>5. CASE UNCHANGED cacheVars
  BY <1>5 DEF cacheVars, CacheTypeOK, FileInv, SoloInv, CalmInv, Saving, Doing
<1>. QED
  BY <1>1, <1>2, <1>3, <1>4, <1>5 DEF CacheNext

(* The inductive invariant: a solo saver owns the temporary file and then  *)
(* the entry, and before the first overlap every file a reader can get is  *)
(* whole (cache.go:35-63).                                                 *)
THEOREM FileInvariant == CacheSpec => [](CacheTypeOK /\ FileInv)
<1>1. CacheInit => CacheTypeOK /\ FileInv
  BY DEF CacheInit, CacheTypeOK, FileInv, CalmInv, Contents, Saving, Doing
<1>2. CacheTypeOK /\ FileInv /\ [CacheNext]_cacheVars => CacheTypeOK' /\ FileInv'
  BY FileStep
<1>. QED
  BY <1>1, <1>2, PTL DEF CacheSpec

(* The names, the files and the requests stay well-formed.                 *)
THEOREM CacheTypeCorrect == CacheSpec => []CacheTypeOK
BY FileInvariant, PTL

(* Whoever dies wherever, without overlapping saves no load finds the      *)
(* entry half-written (cache.go:58-62).                                    *)
THEOREM EntryAlwaysWhole == CacheSpec => []EntryWhole
<1>1. FileInv => EntryWhole
  BY DEF FileInv, CalmInv, EntryWhole
<1>. QED
  BY <1>1, FileInvariant, PTL

(* A save no other save overlaps succeeds and replaces whatever torn entry *)
(* or temporary file it finds (cache.go:58-62).                            *)
THEOREM SoloSaveHeals == CacheSpec => []SoloSaveStored
<1>1. FileInv => SoloSaveStored
  BY DEF FileInv, SoloInv, SoloSaveStored, Doing
<1>. QED
  BY <1>1, FileInvariant, PTL
=============================================================================
