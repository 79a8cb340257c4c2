------------------------- MODULE LocalWorkerProofs -------------------------
(***************************************************************************)
(* What holds of localworker.Worker.Run for any number of requests, keys,  *)
(* workers and slots, whatever fails and whoever gives up.                 *)
(***************************************************************************)
EXTENDS LocalWorker, FiniteSetTheorems, TLAPS

Leading == {"second", "acquire", "infer", "save", "publish", "forget"}
Flying == Leading \cup {"do", "wait"}
Using == {"infer", "save"}

Leads(p) == call[p] # None /\ call[p].step \in Leading

\* Evidence under a key was inferred for it.
Right(v, k) == v \in Evidence => v.of = k

\* A request is always told to have its answer reviewed, and knows only answers for
\* its key.
CallInv(p) ==
    call[p] # None =>
        /\ call[p].review
        /\ call[p].step = "save" => call[p].val \in Evidence
        /\ call[p].step = "publish" => call[p].val # None
        /\ call[p].step \in Flying => req[p] # None /\ req[p].key = call[p].key
        /\ Right(call[p].val, call[p].key)

StoreInv ==
    /\ \A k \in Keys : Right(entry[k], k) /\ Right(exec[k].val, k)
    /\ \A p \in Procs : req[p] # None => Right(req[p].val, req[p].key)

\* Nothing that runs marks an execution as reviewed: Decide never sees enough reviews.
AnswerInv ==
    /\ stats.reviewed = 0
    /\ StoreInv
    /\ \A p \in Procs : CallInv(p)

SlotInv ==
    \A w \in Workers :
        /\ IsFiniteSet(holds[w])
        /\ \A p \in holds[w] : call[p] # None /\ call[p].step \in Using

\* A key has one leader, from the second lookup to the end of its flight.
LeadInv(p) ==
    Leads(p) => IF call[p].step = "forget" THEN exec[call[p].key].val # None
                ELSE exec[call[p].key] = Group!Running

OneLeader ==
    /\ \A p \in Procs : LeadInv(p)
    /\ \A p, q \in Procs : p # q /\ Leads(p) /\ Leads(q) => call[p].key # call[q].key
-----------------------------------------------------------------------------
(* Calls, requests and executions.                                         *)

LEMMA CallTyped ==
    ASSUME TypeOK, NEW p \in Procs, call[p] # None
    PROVE  /\ call[p] \in Call /\ call[p].step \in Steps /\ call[p].key \in Keys
           /\ call[p].val \in Results \cup {None}
           /\ call[p].live \in BOOLEAN /\ call[p].review \in BOOLEAN
BY DEF TypeOK, Call

\* p goes on to st with the result v for the key k; nobody else moves.
Does(p, st, k, v) ==
    /\ call' \in [Procs -> Call \cup {None}]
    /\ call'[p] # None /\ call'[p].step = st /\ call'[p].key = k /\ call'[p].val = v
    /\ call'[p].review
    /\ \A q \in Procs : q # p => call'[q] = call[q]

LEMMA Gone ==
    ASSUME TypeOK, NEW p \in Procs, call[p] # None, call[p].review,
           NEW st \in Steps, Goto(p, st)
    PROVE  Does(p, st, call[p].key, call[p].val)
<1>. DEFINE r == [call[p] EXCEPT !.step = st]
<1>1. call' = [call EXCEPT ![p] = r]
  BY DEF Goto, TypeOK
<1>2. call[p] \in Call
  BY CallTyped
<1>3. /\ r \in Call /\ r # None /\ r.step = st /\ r.key = call[p].key
      /\ r.val = call[p].val /\ r.review = call[p].review
  BY <1>2, NullAssumption DEF Call
<1>. HIDE DEF r
<1>. QED
  BY <1>1, <1>3 DEF TypeOK, Does

LEMMA Got ==
    ASSUME TypeOK, NEW p \in Procs, call[p] # None, call[p].review,
           NEW st \in Steps, NEW v \in Results \cup {None},
           call' = [call EXCEPT ![p].step = st, ![p].val = v]
    PROVE  Does(p, st, call[p].key, v)
<1>. DEFINE r == [call[p] EXCEPT !.step = st, !.val = v]
<1>1. call' = [call EXCEPT ![p] = r]
  BY DEF TypeOK
<1>2. call[p] \in Call
  BY CallTyped
<1>3. /\ r \in Call /\ r # None /\ r.step = st /\ r.key = call[p].key
      /\ r.val = v /\ r.review = call[p].review
  BY <1>2, NullAssumption DEF Call
<1>. HIDE DEF r
<1>. QED
  BY <1>1, <1>3 DEF TypeOK, Does

LEMMA RequestMoved ==
    ASSUME NEW r \in Request, NEW v \in Results \cup {None}
    PROVE  /\ [r EXCEPT !.part = TRUE] \in Request /\ [r EXCEPT !.part = TRUE] # None
           /\ [r EXCEPT !.part = TRUE].key = r.key /\ [r EXCEPT !.part = TRUE].val = r.val
           /\ [r EXCEPT !.val = v] \in Request /\ [r EXCEPT !.val = v] # None
           /\ [r EXCEPT !.val = v].key = r.key /\ [r EXCEPT !.val = v].val = v
<1>1. [r EXCEPT !.part = TRUE] \in Request /\ [r EXCEPT !.val = v] \in Request
  BY DEF Request
<1>2. /\ [r EXCEPT !.part = TRUE].key = r.key /\ [r EXCEPT !.part = TRUE].val = r.val
      /\ [r EXCEPT !.val = v].key = r.key /\ [r EXCEPT !.val = v].val = v
  BY DEF Request
<1>. QED
  BY <1>1, <1>2, NullAssumption

LEMMA AskedTyped ==
    ASSUME NEW k \in Keys
    PROVE  /\ Group!Asked(k) \in Request /\ Group!Asked(k) # None
           /\ Group!Asked(k).key = k /\ Group!Asked(k).val = None
<1>1. FALSE \in BOOLEAN /\ None \in Results \cup {None}
  OBVIOUS
<1>2. Group!Asked(k) \in Request
  BY <1>1 DEF Group!Asked, Request
<1>. QED
  BY <1>2, NullAssumption DEF Group!Asked

Exec == [over : BOOLEAN, val : Results \cup {None}]

LEMMA ExecTyped ==
    /\ Group!Idle \in Exec /\ Group!Idle.val = None
    /\ Group!Running \in Exec /\ Group!Running.val = None /\ Group!Running # Group!Idle
    /\ \A v \in Results \cup {None} : Group!Over(v) \in Exec /\ Group!Over(v).val = v
<1>1. TRUE \in BOOLEAN /\ FALSE \in BOOLEAN /\ None \in Results \cup {None}
  OBVIOUS
<1>. QED
  BY <1>1 DEF Group!Idle, Group!Running, Group!Over, Exec

LEMMA NoneRight == \A k : Right(None, k) /\ Right(Failed, k)
BY NullAssumption DEF Right, Results

-----------------------------------------------------------------------------
(* What the parts of the invariant need of a step.                         *)

\* Requests that do not move keep what they know.
LEMMA Moves ==
    ASSUME AnswerInv, NEW p \in Procs, NEW st, NEW k, NEW v, Does(p, st, k, v),
           \A q \in Procs : q # p =>
               (req[q] # None => req'[q] # None /\ req'[q].key = req[q].key),
           st = "save" => v \in Evidence,
           st = "publish" => v # None,
           st \in Flying => req'[p] # None /\ req'[p].key = k,
           Right(v, k)
    PROVE  \A q \in Procs : CallInv(q)'
<1>1. ASSUME NEW q \in Procs, q # p PROVE CallInv(q)'
  BY <1>1 DEF AnswerInv, CallInv, Does
<1>2. CallInv(p)'
  BY DEF CallInv, Does
<1>. QED
  BY <1>1, <1>2

LEMMA StoreKept ==
    ASSUME StoreInv, UNCHANGED <<entry, exec, req>>
    PROVE  StoreInv'
BY DEF StoreInv

\* p holds no slot when it moves, or gives it back.
LEMMA SlotsKept ==
    ASSUME TypeOK, SlotInv, NEW p \in Procs,
           \A q \in Procs : q # p => call'[q] = call[q],
           \/ holds' = holds /\ \A w \in Workers : p \notin holds[w]
           \/ Release(p)
    PROVE  /\ SlotInv' /\ holds' \in [Workers -> SUBSET Procs]
           /\ \A w \in Workers : Cardinality(holds'[w]) <= MaxWorkers[w]
<1>1. ASSUME NEW w \in Workers
      PROVE  /\ IsFiniteSet(holds'[w]) /\ holds'[w] \subseteq holds[w] \ {p}
             /\ Cardinality(holds'[w]) <= MaxWorkers[w]
  <2>1. /\ IsFiniteSet(holds[w]) /\ holds[w] \in SUBSET Procs
        /\ Cardinality(holds[w]) <= MaxWorkers[w] /\ MaxWorkers[w] \in Nat
    BY WorkerAssumption DEF SlotInv, TypeOK
  <2>2. CASE holds' = holds /\ p \notin holds[w]
    BY <2>1, <2>2
  <2>3. CASE Release(p)
    <3>1. holds'[w] = holds[w] \ {p}
      BY <2>3 DEF Release
    <3>2. /\ IsFiniteSet(holds'[w])
          /\ Cardinality(holds'[w]) <= Cardinality(holds[w])
          /\ Cardinality(holds'[w]) \in Nat /\ Cardinality(holds[w]) \in Nat
      BY <2>1, <3>1, FS_Subset, FS_CardinalityType
    <3>. QED
      BY <2>1, <3>1, <3>2
  <2>. QED
    BY <2>2, <2>3
<1>2. holds' \in [Workers -> SUBSET Procs]
  BY DEF TypeOK, Release
<1>3. SlotInv'
  <2>1. ASSUME NEW w \in Workers, NEW q \in holds'[w]
        PROVE  call'[q] # None /\ call'[q].step \in Using
    BY <1>1, <2>1 DEF SlotInv, TypeOK
  <2>. QED
    BY <1>1, <2>1 DEF SlotInv
<1>. QED
  BY <1>1, <1>2, <1>3

\* Who is not using a slot holds none.
LEMMA HoldsNone ==
    ASSUME SlotInv, NEW p, call[p] = None \/ call[p].step \notin Using
    PROVE  \A w \in Workers : p \notin holds[w]
BY DEF SlotInv

-----------------------------------------------------------------------------
\* The router: with no review recorded, every decision asks for one (router.go:87-107).
LEMMA AlwaysReviewed ==
    ASSUME NEW s \in Stats, s.reviewed = 0, NEW gated \in BOOLEAN
    PROVE  Decide(gated, s).review
BY BoundAssumption DEF Decide, Stats

LEMMA StatsTyped ==
    ASSUME NEW s \in Stats, NEW fallback \in BOOLEAN
    PROVE  /\ Recorded(s, fallback) \in Stats
           /\ Recorded(s, fallback).reviewed = s.reviewed
<1>. DEFINE n == IF fallback THEN 1 ELSE 0
            r == [s EXCEPT !.samples = @ + 1, !.fallbacks = @ + n, !.errors = @ + n]
<1>1. n \in Nat
  OBVIOUS
<1>. HIDE DEF n
<1>2. /\ s.samples + 1 \in Nat /\ s.fallbacks + n \in Nat /\ s.errors + n \in Nat
      /\ s.samples \in Nat /\ s.fallbacks \in Nat /\ s.errors \in Nat
  BY <1>1 DEF Stats
<1>3. \A a, b, c \in Nat :
        LET t == [s EXCEPT !.samples = a, !.fallbacks = b, !.errors = c] IN
        t \in Stats /\ t.reviewed = s.reviewed
  BY DEF Stats
<1>4. r = [s EXCEPT !.samples = s.samples + 1, !.fallbacks = s.fallbacks + n,
                    !.errors = s.errors + n]
  BY DEF Stats
<1>5. r \in Stats /\ r.reviewed = s.reviewed
  BY <1>2, <1>3, <1>4
<1>. QED
  BY <1>5 DEF Recorded, n

-----------------------------------------------------------------------------
(* Types; answers only for their own key, and under review; slots only for *)
(* those who infer or save (worker.go:206-253).                            *)
THEOREM WorkInvariant == Spec => [](TypeOK /\ AnswerInv /\ SlotInv)
<1>. USE NullAssumption
<1>1. Init => TypeOK /\ AnswerInv /\ SlotInv
  <2>. SUFFICES ASSUME Init PROVE TypeOK /\ AnswerInv /\ SlotInv
    OBVIOUS
  <2>1. \A k \in Keys : exec[k] = Group!Idle /\ exec[k] \in Exec /\ exec[k].val = None
    BY ExecTyped DEF Init, Group!Init
  <2>2. exec \in [Keys -> Exec]
    BY ExecTyped DEF Init, Group!Init
  <2>3. stats \in Stats /\ stats.reviewed = 0
    BY DEF Init, Stats
  <2>4. \A w \in Workers : /\ holds[w] = {} /\ IsFiniteSet(holds[w])
                           /\ Cardinality(holds[w]) <= MaxWorkers[w]
    BY WorkerAssumption, FS_EmptySet DEF Init
  <2>5. /\ call \in [Procs -> Call \cup {None}] /\ req \in [Procs -> Request \cup {None}]
        /\ entry \in [Keys -> Evidence \cup {None}] /\ holds \in [Workers -> SUBSET Procs]
        /\ requests \in 0..MaxRequests /\ events \in 0..MaxEvents
    BY BoundAssumption DEF Init, Group!Init
  <2>6. TypeOK
    BY <2>2, <2>3, <2>4, <2>5 DEF TypeOK, Exec
  <2>7. StoreInv
    BY <2>1, NoneRight DEF Init, StoreInv, Group!Init
  <2>. QED
    BY <2>3, <2>4, <2>6, <2>7 DEF Init, AnswerInv, SlotInv, CallInv
<1>2. TypeOK /\ AnswerInv /\ SlotInv /\ [Next]_vars => TypeOK' /\ AnswerInv' /\ SlotInv'
  <2>. SUFFICES ASSUME TypeOK, AnswerInv, SlotInv, [Next]_vars
                PROVE  TypeOK' /\ AnswerInv' /\ SlotInv'
    OBVIOUS
  <2>0. StoreInv /\ stats.reviewed = 0 /\ \A p \in Procs : CallInv(p)
    BY DEF AnswerInv
  <2>t. /\ exec \in [Keys -> Exec] /\ req \in [Procs -> Request \cup {None}]
        /\ entry \in [Keys -> Evidence \cup {None}] /\ stats \in Stats
        /\ requests \in 0..MaxRequests /\ events \in 0..MaxEvents
        /\ call \in [Procs -> Call \cup {None}]
    BY DEF TypeOK, Exec
  <2>1. ASSUME NEW p \in Procs, NEW k \in Asks[p], Ask(p, k)
        PROVE  TypeOK' /\ AnswerInv' /\ SlotInv'
    <3>. DEFINE r == [step |-> "route", key |-> k, live |-> TRUE, review |-> TRUE, val |-> None]
    <3>1. /\ r.step = "route" /\ r.key = k /\ r.review /\ r.val = None
          /\ "route" \in Steps /\ TRUE \in BOOLEAN /\ None \in Results \cup {None}
          /\ k \in Keys
      BY WorkerAssumption DEF Steps
    <3>2. r \in Call
      BY <3>1 DEF Call
    <3>3. r # None
      BY <3>2
    <3>4. call' = [call EXCEPT ![p] = r] /\ call[p] = None
      BY <2>1 DEF Ask
    <3>5. /\ UNCHANGED <<entry, exec, req, holds, stats, events>>
          /\ requests' \in 0..MaxRequests
      BY <2>1, <2>t, BoundAssumption DEF Ask, flights
    <3>. HIDE DEF r
    <3>6. Does(p, "route", k, None)
      BY <2>t, <3>1, <3>2, <3>3, <3>4 DEF Does
    <3>7. \A q \in Procs : CallInv(q)'
      BY <3>5, <3>6, Moves, NoneRight DEF Flying, Leading
    <3>8. \A w \in Workers : p \notin holds[w]
      BY <3>4, HoldsNone
    <3>. QED
      BY <2>0, <2>t, <3>5, <3>6, <3>7, <3>8, SlotsKept, StoreKept
      DEF TypeOK, AnswerInv, Does, Exec
  <2>2. ASSUME NEW p \in Procs, Cancel(p) PROVE TypeOK' /\ AnswerInv' /\ SlotInv'
    <3>. DEFINE r == [call[p] EXCEPT !.live = FALSE]
    <3>1. call[p] # None /\ call[p] \in Call /\ call' = [call EXCEPT ![p] = r]
      BY <2>2, CallTyped DEF Cancel, TypeOK
    <3>2. /\ r \in Call /\ r # None /\ r.step = call[p].step /\ r.key = call[p].key
          /\ r.val = call[p].val /\ r.review = call[p].review
      BY <3>1 DEF Call
    <3>. HIDE DEF r
    <3>3. /\ UNCHANGED <<entry, exec, req, holds, stats, requests>> /\ events' \in 0..MaxEvents
      BY <2>2, <2>t, BoundAssumption DEF Cancel, flights, Event
    <3>4. call' \in [Procs -> Call \cup {None}]
      BY <2>t, <3>1, <3>2
    <3>5. call'[p] = r /\ \A q \in Procs : q # p => call'[q] = call[q]
      BY <2>t, <3>1
    <3>6. \A q \in Procs : CallInv(q)'
      BY <2>0, <3>1, <3>2, <3>3, <3>5 DEF CallInv
    <3>7. SlotInv'
      BY <3>1, <3>2, <3>3, <3>5 DEF SlotInv, TypeOK
    <3>. QED
      BY <2>0, <2>t, <3>3, <3>4, <3>6, <3>7, StoreKept DEF TypeOK, AnswerInv, Exec
  <2>3. ASSUME NEW p \in Procs, NEW gated \in BOOLEAN, NEW allowed \in BOOLEAN,
               Route(p, gated, allowed)
        PROVE  TypeOK' /\ AnswerInv' /\ SlotInv'
    <3>. DEFINE d == Decide(gated, stats)
    <3>. PICK st \in {"load", "record"} :
              st = IF d.route # "strong" /\ allowed THEN "load" ELSE "record"
      OBVIOUS
    <3>. PICK rev : rev = d.review
      OBVIOUS
    <3>. DEFINE r == [call[p] EXCEPT !.review = rev, !.step = st]
    <3>1. /\ call[p] # None /\ call[p].step = "route" /\ call[p] \in Call
          /\ UNCHANGED <<entry, exec, req, holds, stats, requests, events>>
          /\ call' = [call EXCEPT ![p] = r]
      BY <2>3, CallTyped DEF Route, At, flights, bounds, TypeOK
    <3>2. rev
      BY <2>0, <2>t, AlwaysReviewed
    <3>. HIDE DEF d
    <3>3. rev \in BOOLEAN
      <4>1. Decide(gated, stats).review \in BOOLEAN
        BY DEF Decide
      <4>. QED
        BY <4>1 DEF d
    <3>4. /\ r \in Call /\ r # None /\ r.step = st /\ r.key = call[p].key
          /\ r.val = call[p].val /\ r.review = rev
      BY <3>1, <3>3 DEF Call, Steps
    <3>. HIDE DEF r
    <3>5. Does(p, st, call[p].key, call[p].val)
      BY <2>t, <3>1, <3>2, <3>4 DEF Does
    <3>6. /\ \A q \in Procs : CallInv(q)'
          /\ \A w \in Workers : p \notin holds[w]
      BY <2>0, <3>1, <3>5, Moves, HoldsNone DEF Flying, Leading, Using, CallInv
    <3>. QED
      BY <2>0, <2>t, <3>1, <3>5, <3>6, SlotsKept, StoreKept DEF TypeOK, AnswerInv, Does, Exec
  \* Steps that leave the flights and the entries alone.
  <2>4. ASSUME NEW p \in Procs, NEW st \in Steps, NEW v \in Results \cup {None},
               call[p] # None, Does(p, st, call[p].key, v),
               UNCHANGED <<entry, exec, req, stats>>,
               requests' \in 0..MaxRequests, events' \in 0..MaxEvents,
               call[p].step \in Flying \/ st \notin Flying,
               st = "save" => v \in Evidence, st = "publish" => v # None,
               Right(v, call[p].key),
               \/ call[p].step \notin Using /\ holds' = holds
               \/ Release(p)
        PROVE  TypeOK' /\ AnswerInv' /\ SlotInv'
    <3>1. \A q \in Procs : CallInv(q)'
      BY <2>0, <2>4, Moves DEF CallInv
    <3>2. /\ SlotInv' /\ holds' \in [Workers -> SUBSET Procs]
          /\ \A w \in Workers : Cardinality(holds'[w]) <= MaxWorkers[w]
      BY <2>4, HoldsNone, SlotsKept DEF Does
    <3>. QED
      BY <2>0, <2>t, <2>4, <3>1, <3>2, StoreKept DEF TypeOK, AnswerInv, Does, Exec
  <2>5. ASSUME NEW p \in Procs, Load(p) PROVE TypeOK' /\ AnswerInv' /\ SlotInv'
    <3>. PICK k, e, w : k = call[p].key /\ e = entry[k] /\ w = call[p].val
      OBVIOUS
    <3>1. /\ call[p] # None /\ call[p].step = "load" /\ call[p].review
          /\ k \in Keys /\ w \in Results \cup {None} /\ e \in Results \cup {None}
          /\ Right(w, k) /\ Right(e, k)
          /\ UNCHANGED <<entry, exec, holds, stats, requests, events>>
      BY <2>0, <2>5, <2>t, CallTyped DEF Load, At, bounds, CallInv, StoreInv, Results
    <3>2. CASE e # None
      <4>1. call' = [call EXCEPT ![p].step = "record", ![p].val = e] /\ req' = req
        BY <2>5, <3>2 DEF Load
      <4>2. Does(p, "record", k, e)
        BY <3>1, <4>1, Got DEF Steps
      <4>. QED
        BY <2>4, <2>t, <3>1, <4>1, <4>2 DEF Steps, Flying, Leading, Using
    <3>3. CASE e = None
      <4>. PICK a : a = Group!Asked(k)
        OBVIOUS
      <4>1. Goto(p, "do") /\ req' = [req EXCEPT ![p] = a]
        BY <2>5, <3>3 DEF Load
      <4>2. Does(p, "do", k, w)
        BY <3>1, <4>1, Gone DEF Steps
      <4>3. a \in Request /\ a # None /\ a.key = k /\ a.val = None
        BY <3>1, AskedTyped
      <4>4. /\ \A o \in Procs : o # p => req'[o] = req[o]
            /\ req'[p] = a /\ req' \in [Procs -> Request \cup {None}]
        BY <2>t, <4>1, <4>3
      <4>5. \A o \in Procs : CallInv(o)'
        BY <3>1, <4>2, <4>3, <4>4, Moves
      <4>6. StoreInv'
        BY <2>0, <3>1, <4>3, <4>4, NoneRight DEF StoreInv
      <4>7. \A x \in Workers : p \notin holds[x]
        BY <3>1, HoldsNone DEF Using
      <4>. QED
        BY <2>0, <2>t, <3>1, <4>2, <4>4, <4>5, <4>6, <4>7, SlotsKept
        DEF TypeOK, AnswerInv, Does, Exec
    <3>. QED
      BY <3>2, <3>3
  \* p becomes part of an execution, or leads it.
  <2>6. ASSUME NEW p \in Procs, NEW st \in {"wait", "second"}, NEW r \in Request,
               At(p, "do"), Goto(p, st), req' = [req EXCEPT ![p] = r],
               r.key = call[p].key, Right(r.val, r.key),
               exec' \in [Keys -> Exec],
               \A k \in Keys : exec'[k].val # None => exec'[k] = exec[k],
               UNCHANGED <<entry, holds, stats, requests, events>>
        PROVE  TypeOK' /\ AnswerInv' /\ SlotInv'
    <3>. PICK k, w : k = call[p].key /\ w = call[p].val
      OBVIOUS
    <3>1. /\ call[p] # None /\ call[p].step = "do" /\ k \in Keys /\ Right(w, k)
          /\ Does(p, st, k, w)
      BY <2>0, <2>6, CallTyped, Gone DEF At, CallInv, Steps
    <3>2. /\ req'[p] = r /\ \A o \in Procs : o # p => req'[o] = req[o]
          /\ req' \in [Procs -> Request \cup {None}]
      BY <2>t, <2>6
    <3>3. \A o \in Procs : CallInv(o)'
      BY <2>6, <3>1, <3>2, Moves
    <3>4. \A g \in Keys : Right(exec'[g].val, g)
      BY <2>0, <2>6, NoneRight DEF StoreInv
    <3>5. StoreInv'
      BY <2>0, <2>6, <3>2, <3>4 DEF StoreInv
    <3>6. \A x \in Workers : p \notin holds[x]
      BY <3>1, HoldsNone DEF Using
    <3>. QED
      BY <2>0, <2>6, <2>t, <3>1, <3>2, <3>3, <3>5, <3>6, SlotsKept
      DEF TypeOK, AnswerInv, Does, Exec
  <2>7. ASSUME NEW p \in Procs, At(p, "do")
        PROVE  /\ req[p] \in Request /\ req[p].key = call[p].key /\ call[p].key \in Keys
               /\ Right(req[p].val, req[p].key)
               /\ exec[call[p].key].val \in Results \cup {None}
    BY <2>0, <2>7, <2>t, CallTyped DEF At, CallInv, Flying, StoreInv, Exec
  <2>8. ASSUME NEW p \in Procs, Join(p) PROVE TypeOK' /\ AnswerInv' /\ SlotInv'
    <3>. PICK k, x : k = call[p].key /\ x = exec[k].val
      OBVIOUS
    <3>1. /\ At(p, "do") /\ Goto(p, "wait") /\ exec' = exec
          /\ UNCHANGED <<entry, holds, stats, requests, events>>
          /\ \/ req' = [req EXCEPT ![p].part = TRUE]
             \/ req' = [req EXCEPT ![p].val = x]
      BY <2>8 DEF Join, Group!Join, Group!Late, bounds
    <3>2. /\ req[p] \in Request /\ req[p].key = k /\ k \in Keys
          /\ Right(req[p].val, k) /\ x \in Results \cup {None} /\ Right(x, k)
      BY <2>0, <2>7, <3>1 DEF StoreInv
    <3>3. PICK r \in Request : r.key = k /\ Right(r.val, k) /\ req' = [req EXCEPT ![p] = r]
      <4>1. CASE req' = [req EXCEPT ![p].part = TRUE]
        <5>1. req' = [req EXCEPT ![p] = [req[p] EXCEPT !.part = TRUE]]
          BY <2>t, <4>1
        <5>. QED
          BY <3>2, <5>1, RequestMoved
      <4>2. CASE req' = [req EXCEPT ![p].val = x]
        <5>1. req' = [req EXCEPT ![p] = [req[p] EXCEPT !.val = x]]
          BY <2>t, <4>2
        <5>. QED
          BY <3>2, <5>1, RequestMoved
      <4>. QED
        BY <3>1, <4>1, <4>2
    <3>. QED
      BY <2>6, <2>t, <3>1, <3>3
  <2>9. ASSUME NEW p \in Procs, Lead(p) PROVE TypeOK' /\ AnswerInv' /\ SlotInv'
    <3>. PICK k, r : k = call[p].key /\ r = [req[p] EXCEPT !.part = TRUE]
      OBVIOUS
    <3>1. /\ At(p, "do") /\ Goto(p, "second") /\ exec' = [exec EXCEPT ![k] = Group!Running]
          /\ UNCHANGED <<entry, holds, stats, requests, events>>
          /\ req' = [req EXCEPT ![p].part = TRUE]
      BY <2>9 DEF Lead, Group!Begin, bounds
    <3>2. req' = [req EXCEPT ![p] = r]
      BY <2>t, <3>1
    <3>3. r \in Request /\ r.key = k /\ r.val = req[p].val /\ Right(r.val, r.key) /\ k \in Keys
      BY <2>7, <3>1, RequestMoved
    <3>4. /\ exec' \in [Keys -> Exec]
          /\ \A g \in Keys : exec'[g].val # None => exec'[g] = exec[g]
      BY <2>t, <3>1, <3>3, ExecTyped
    <3>. QED
      BY <2>6, <3>1, <3>2, <3>3, <3>4
  <2>10. ASSUME NEW p \in Procs, SecondLoad(p) PROVE TypeOK' /\ AnswerInv' /\ SlotInv'
    <3>. PICK k, e : k = call[p].key /\ e = entry[k]
      OBVIOUS
    <3>. PICK st : st = IF e # None THEN "publish" ELSE "acquire"
      OBVIOUS
    <3>1. /\ call[p] # None /\ call[p].step = "second" /\ k \in Keys /\ call[p].review
          /\ e \in Results \cup {None} /\ Right(e, k) /\ st \in Steps
          /\ UNCHANGED <<entry, exec, req, holds, stats, requests, events>>
          /\ call' = [call EXCEPT ![p].step = st, ![p].val = e]
      BY <2>0, <2>10, <2>t, CallTyped
      DEF SecondLoad, At, flights, bounds, Steps, CallInv, StoreInv, Results
    <3>2. Does(p, st, k, e)
      BY <3>1, Got
    <3>. QED
      BY <2>4, <2>t, <3>1, <3>2 DEF Flying, Leading, Using
  <2>11. ASSUME NEW p \in Procs, Acquire(p) PROVE TypeOK' /\ AnswerInv' /\ SlotInv'
    <3>. PICK w, k, v : w = WorkerOf[p] /\ k = call[p].key /\ v = call[p].val
      OBVIOUS
    <3>1. /\ call[p] # None /\ call[p].step = "acquire" /\ w \in Workers
          /\ Right(v, k) /\ req[p] # None /\ req[p].key = k
          /\ UNCHANGED <<entry, exec, req, stats, requests, events>>
          /\ Cardinality(holds[w]) < MaxWorkers[w]
          /\ holds' = [holds EXCEPT ![w] = @ \cup {p}]
          /\ Does(p, "infer", k, v)
      BY <2>0, <2>11, Gone, WorkerAssumption
      DEF Acquire, At, Steps, flights, bounds, CallInv, Flying, Leading
    <3>2. \A q \in Procs : CallInv(q)'
      BY <3>1, Moves
    <3>3. \A x \in Workers : holds'[x] = IF x = w THEN holds[w] \cup {p} ELSE holds[x]
      BY <3>1 DEF TypeOK
    <3>4. holds' \in [Workers -> SUBSET Procs]
      BY <3>1 DEF TypeOK
    <3>5. ASSUME NEW x \in Workers
          PROVE  IsFiniteSet(holds'[x]) /\ Cardinality(holds'[x]) <= MaxWorkers[x]
      <4>1. /\ IsFiniteSet(holds[x]) /\ Cardinality(holds[x]) \in Nat /\ MaxWorkers[x] \in Nat
            /\ Cardinality(holds[x]) <= MaxWorkers[x]
        BY FS_CardinalityType, WorkerAssumption DEF SlotInv, TypeOK
      <4>. PICK S, n : S = holds[x] /\ n = Cardinality(S)
        OBVIOUS
      <4>2. /\ IsFiniteSet(S \cup {p})
            /\ Cardinality(S \cup {p}) = IF p \in S THEN n ELSE n + 1
        BY <4>1, FS_AddElement
      <4>3. CASE x = w
        <5>1. holds'[x] = S \cup {p}
          BY <3>3, <4>3
        <5>2. n \in Nat /\ n < MaxWorkers[x]
          BY <3>1, <4>1, <4>3
        <5>. QED
          BY <4>1, <4>2, <5>1, <5>2
      <4>4. CASE x # w
        BY <3>3, <4>1, <4>4
      <4>. QED
        BY <4>3, <4>4
    <3>6. SlotInv'
      <4>1. ASSUME NEW x \in Workers, NEW q \in holds'[x]
            PROVE  call'[q] # None /\ call'[q].step \in Using
        <5>1. CASE q = p
          BY <3>1, <5>1 DEF Does, Using
        <5>2. CASE q # p
          <6>1. q \in holds[x] /\ q \in Procs
            BY <3>3, <3>4, <4>1, <5>2
          <6>. QED
            BY <3>1, <5>2, <6>1 DEF SlotInv, Does
        <5>. QED
          BY <5>1, <5>2
      <4>. QED
        BY <3>5, <4>1 DEF SlotInv
    <3>. QED
      BY <2>0, <2>t, <3>1, <3>2, <3>4, <3>5, <3>6, StoreKept DEF TypeOK, AnswerInv, Does, Exec
  <2>12. ASSUME NEW p \in Procs, AcquireCancelled(p) \/ InferFails(p)
         PROVE  TypeOK' /\ AnswerInv' /\ SlotInv'
    <3>1. /\ call[p] # None /\ call[p].step \in {"acquire", "infer"} /\ call[p].review
          /\ UNCHANGED <<entry, exec, req, stats, requests, events>>
          /\ call' = [call EXCEPT ![p].step = "publish", ![p].val = Failed]
          /\ \/ call[p].step \notin Using /\ holds' = holds
             \/ Release(p)
      BY <2>0, <2>12 DEF AcquireCancelled, InferFails, At, flights, bounds, CallInv, Using
    <3>2. /\ Failed \in Results \cup {None} /\ Failed # None /\ Failed \in Results
          /\ Right(Failed, call[p].key) /\ "publish" \in Steps
      BY NoneRight DEF Results, Steps
    <3>3. Does(p, "publish", call[p].key, Failed)
      BY <3>1, <3>2, Got
    <3>. QED
      BY <2>4, <2>t, <3>1, <3>2, <3>3 DEF Flying, Leading
  <2>13. ASSUME NEW p \in Procs, Infer(p) PROVE TypeOK' /\ AnswerInv' /\ SlotInv'
    <3>. PICK k, v, x : k = call[p].key /\ v = [of |-> call[p].key] /\ x = WorkerOf[p]
      OBVIOUS
    <3>1. /\ call[p] # None /\ call[p].step = "infer" /\ call[p].review /\ k \in Keys
          /\ UNCHANGED <<entry, exec, req, holds, stats, requests, events>>
          /\ call' = [call EXCEPT ![p].step = "save", ![p].val = v]
          /\ req[p] # None /\ req[p].key = k
      BY <2>0, <2>13, CallTyped DEF Infer, At, flights, bounds, CallInv, Flying, Leading
    <3>2. v \in Evidence /\ v.of = k
      BY <3>1 DEF Evidence
    <3>3. Does(p, "save", k, v) /\ Right(v, k)
      BY <3>1, <3>2, Got DEF Steps, Results, Right
    <3>4. \A q \in Procs : CallInv(q)'
      BY <3>1, <3>2, <3>3, Moves
    <3>5. SlotInv'
      BY <3>1, <3>3 DEF SlotInv, Does, Using, TypeOK
    <3>. QED
      BY <2>0, <2>t, <3>1, <3>3, <3>4, <3>5, StoreKept DEF TypeOK, AnswerInv, Does, Exec
  <2>14. ASSUME NEW p \in Procs, Save(p) PROVE TypeOK' /\ AnswerInv' /\ SlotInv'
    <3>. PICK k, v : k = call[p].key /\ v = call[p].val
      OBVIOUS
    <3>1. /\ call[p] # None /\ call[p].step = "save" /\ call[p].review /\ k \in Keys
          /\ v \in Evidence /\ Right(v, k) /\ Does(p, "publish", k, v)
          /\ UNCHANGED <<exec, req, stats>>
          /\ requests' \in 0..MaxRequests /\ events' \in 0..MaxEvents
          /\ Release(p)
          /\ entry' = [entry EXCEPT ![k] = v] \/ entry' = entry
          /\ req[p] # None /\ req[p].key = k
      BY <2>0, <2>14, <2>t, CallTyped, Gone, BoundAssumption
      DEF Save, At, Steps, flights, bounds, Event, CallInv, Flying, Leading
    <3>2. v # None
      BY <3>1 DEF Results
    <3>3. \A q \in Procs : CallInv(q)'
      BY <3>1, <3>2, Moves
    <3>4. /\ entry' \in [Keys -> Evidence \cup {None}]
          /\ \A g \in Keys : Right(entry'[g], g)
      BY <2>0, <2>t, <3>1 DEF StoreInv
    <3>5. StoreInv'
      BY <2>0, <3>1, <3>4 DEF StoreInv
    <3>. QED
      BY <2>0, <2>t, <3>1, <3>3, <3>4, <3>5, SlotsKept DEF TypeOK, AnswerInv, Does, Exec
  <2>15. ASSUME NEW p \in Procs, Publish(p) PROVE TypeOK' /\ AnswerInv' /\ SlotInv'
    <3>. PICK k, v : k = call[p].key /\ v = call[p].val
      OBVIOUS
    <3>. DEFINE r == [key |-> k, part |-> FALSE, val |-> v]
                Takes(q) == req[q] # None /\ req[q].key = k /\ req[q].part
    <3>1. /\ call[p] # None /\ call[p].step = "publish" /\ call[p].review /\ k \in Keys
          /\ v \in Results \cup {None} /\ v # None /\ Right(v, k) /\ Does(p, "forget", k, v)
          /\ UNCHANGED <<entry, holds, stats, requests, events>>
          /\ exec' = [exec EXCEPT ![k] = Group!Over(v)]
          /\ req' = [q \in Procs |-> IF Takes(q) THEN r ELSE req[q]]
          /\ req[p] # None /\ req[p].key = k
      BY <2>0, <2>15, CallTyped, Gone
      DEF Publish, At, Steps, bounds, CallInv, Flying, Leading, Group!End, Group!Over
    <3>2. r.key = k /\ r.val = v /\ FALSE \in BOOLEAN
      OBVIOUS
    <3>3. r \in Request
      BY <3>1, <3>2 DEF Request
    <3>4. r # None
      BY <3>3
    <3>. HIDE DEF r
    <3>5. \A q \in Procs : \/ req'[q] = req[q]
                           \/ req[q] # None /\ req[q].key = k /\ req'[q] = r
      BY <3>1
    <3>. HIDE DEF Takes
    <3>6. req' \in [Procs -> Request \cup {None}]
      BY <2>t, <3>1, <3>3
    <3>7. exec' \in [Keys -> Exec] /\ \A g \in Keys : Right(exec'[g].val, g)
      BY <2>0, <2>t, <3>1, ExecTyped DEF StoreInv
    <3>8. \A q \in Procs : req[q] # None => req'[q] # None /\ req'[q].key = req[q].key
      BY <3>2, <3>4, <3>5
    <3>9. \A q \in Procs : CallInv(q)'
      BY <3>1, <3>8, Moves
    <3>10. \A q \in Procs : req'[q] # None => Right(req'[q].val, req'[q].key)
      BY <2>0, <3>1, <3>2, <3>5 DEF StoreInv
    <3>11. StoreInv'
      BY <2>0, <3>1, <3>7, <3>10 DEF StoreInv
    <3>12. \A x \in Workers : p \notin holds[x]
      BY <3>1, HoldsNone DEF Using
    <3>. QED
      BY <2>0, <2>t, <3>1, <3>6, <3>7, <3>9, <3>11, <3>12, SlotsKept
      DEF TypeOK, AnswerInv, Does, Exec
  <2>16. ASSUME NEW p \in Procs, Forget(p) PROVE TypeOK' /\ AnswerInv' /\ SlotInv'
    <3>. PICK k, v : k = call[p].key /\ v = call[p].val
      OBVIOUS
    <3>1. /\ call[p] # None /\ call[p].step = "forget" /\ k \in Keys
          /\ Right(v, k) /\ Does(p, "wait", k, v) /\ req[p] # None /\ req[p].key = k
          /\ UNCHANGED <<entry, req, holds, stats, requests, events>>
          /\ exec' = [exec EXCEPT ![k] = Group!Idle]
      BY <2>0, <2>16, CallTyped, Gone
      DEF Forget, At, Steps, bounds, CallInv, Flying, Leading, Group!Forget
    <3>2. exec' \in [Keys -> Exec] /\ \A g \in Keys : Right(exec'[g].val, g)
      BY <2>0, <2>t, <3>1, ExecTyped, NoneRight DEF StoreInv
    <3>3. \A q \in Procs : CallInv(q)'
      BY <3>1, Moves
    <3>4. StoreInv'
      BY <2>0, <3>1, <3>2 DEF StoreInv
    <3>5. \A x \in Workers : p \notin holds[x]
      BY <3>1, HoldsNone DEF Using
    <3>. QED
      BY <2>0, <2>t, <3>1, <3>2, <3>3, <3>4, <3>5, SlotsKept DEF TypeOK, AnswerInv, Does, Exec
  <2>17. ASSUME NEW p \in Procs, DoReturns(p) PROVE TypeOK' /\ AnswerInv' /\ SlotInv'
    <3>. PICK k, v : k = call[p].key /\ v = req[p].val
      OBVIOUS
    <3>1. /\ call[p] # None /\ call[p].step = "wait" /\ call[p].review /\ k \in Keys
          /\ call' = [call EXCEPT ![p].step = "record", ![p].val = v]
          /\ req[p] # None /\ req[p].key = k /\ req' = [req EXCEPT ![p] = None]
          /\ UNCHANGED <<entry, exec, holds, stats, requests, events>>
      BY <2>0, <2>17, CallTyped DEF DoReturns, At, bounds, CallInv, Flying, Leading, Group!Take
    <3>2. v \in Results \cup {None} /\ Right(v, k)
      BY <2>0, <2>t, <3>1 DEF StoreInv, Request
    <3>3. Does(p, "record", k, v)
      BY <3>1, <3>2, Got DEF Steps
    <3>4. /\ req'[p] = None /\ \A o \in Procs : o # p => req'[o] = req[o]
          /\ req' \in [Procs -> Request \cup {None}]
      BY <2>t, <3>1
    <3>5. \A q \in Procs : CallInv(q)'
      BY <3>2, <3>3, <3>4, Moves DEF Flying, Leading
    <3>6. StoreInv'
      BY <2>0, <3>1, <3>4 DEF StoreInv
    <3>7. \A x \in Workers : p \notin holds[x]
      BY <3>1, HoldsNone DEF Using
    <3>. QED
      BY <2>0, <2>t, <3>1, <3>3, <3>4, <3>5, <3>6, <3>7, SlotsKept DEF TypeOK, AnswerInv, Does, Exec
  <2>18. ASSUME NEW p \in Procs, Record(p) PROVE TypeOK' /\ AnswerInv' /\ SlotInv'
    <3>1. /\ call[p] # None /\ call[p].step = "record"
          /\ call' = [call EXCEPT ![p] = None]
          /\ UNCHANGED <<entry, exec, req, holds, requests, events>>
          /\ stats' = IF call[p].live THEN Recorded(stats, FellBack(p)) ELSE stats
      BY <2>18 DEF Record, At, flights, bounds
    <3>2. stats' \in Stats /\ stats'.reviewed = 0
      <4>1. FellBack(p) \in BOOLEAN
        BY DEF FellBack
      <4>. QED
        BY <2>0, <2>t, <3>1, <4>1, StatsTyped
    <3>3. /\ call'[p] = None /\ \A q \in Procs : q # p => call'[q] = call[q]
          /\ call' \in [Procs -> Call \cup {None}]
      BY <2>t, <3>1
    <3>4. \A q \in Procs : CallInv(q)'
      BY <2>0, <3>1, <3>3 DEF CallInv
    <3>5. \A x \in Workers : p \notin holds[x]
      BY <3>1, HoldsNone DEF Using
    <3>. QED
      BY <2>0, <2>t, <3>1, <3>2, <3>3, <3>4, <3>5, SlotsKept, StoreKept DEF TypeOK, AnswerInv, Exec
  <2>19. CASE UNCHANGED vars
    BY <2>0, <2>19 DEF vars, TypeOK, AnswerInv, StoreInv, SlotInv, CallInv
  <2>. QED
    BY <2>1, <2>2, <2>3, <2>5, <2>8, <2>9, <2>10, <2>11, <2>12, <2>13, <2>14, <2>15, <2>16,
       <2>17, <2>18, <2>19 DEF Next, Runs
<1>. QED
  BY <1>1, <1>2, PTL DEF Spec

\* Every variable keeps its type, and no worker gives out more slots than it has
\* (worker.go:223-227).
THEOREM TypeCorrect == Spec => []TypeOK
BY WorkInvariant, PTL

\* An answer was inferred for the request's own key, and has to be reviewed
\* (router.go:87-107, worker.go:206-253).
THEOREM AnswersAreReviewed == Spec => []AnswersReviewed
<1>1. TypeOK /\ AnswerInv => AnswersReviewed
  BY DEF AnswerInv, CallInv, AnswersReviewed, At, FellBack, Right, TypeOK, Call
<1>. QED
  BY <1>1, WorkInvariant, PTL

-----------------------------------------------------------------------------
\* A leader that goes on and leaves the executions alone stays the only one.
LEMMA LeaderMoves ==
    ASSUME OneLeader, NEW p \in Procs, exec' = exec,
           \A q \in Procs : q # p => call'[q] = call[q],
           Leads(p)' => /\ Leads(p) /\ call[p].step # "forget" /\ call'[p].step # "forget"
                        /\ call'[p].key = call[p].key
    PROVE  OneLeader'
<1>1. \A q \in Procs : Leads(q)' => Leads(q) /\ call'[q].key = call[q].key
  BY DEF Leads
<1>2. ASSUME NEW q \in Procs, Leads(q)' PROVE LeadInv(q)'
  <2>1. Leads(q) /\ LeadInv(q) /\ call'[q].key = call[q].key
    BY <1>1, <1>2 DEF OneLeader
  <2>2. CASE q = p
    BY <2>1, <2>2, <1>2 DEF LeadInv, Leads
  <2>3. CASE q # p
    BY <2>1, <2>3, <1>2 DEF LeadInv, Leads
  <2>. QED
    BY <2>2, <2>3
<1>3. \A q \in Procs : LeadInv(q)'
  BY <1>2 DEF LeadInv
<1>4. \A q, o \in Procs : q # o /\ Leads(q)' /\ Leads(o)' => call'[q].key # call'[o].key
  BY <1>1 DEF OneLeader
<1>. QED
  BY <1>3, <1>4 DEF OneLeader

\* A leader that ends its execution, or its flight.
LEMMA LeaderEnds ==
    ASSUME TypeOK, OneLeader, NEW p \in Procs, NEW st \in {"forget", "wait"}, NEW v,
           Leads(p), Does(p, st, call[p].key, v),
           \A k \in Keys : k # call[p].key => exec'[k] = exec[k],
           st = "forget" => exec'[call[p].key].val # None
    PROVE  OneLeader'
<1>1. /\ call'[p].key = call[p].key /\ call'[p].step = st
      /\ \A q \in Procs : q # p => call'[q] = call[q]
  BY DEF Does
<1>2. \A q \in Procs : Leads(q)' => Leads(q) /\ call'[q].key = call[q].key
  BY <1>1 DEF Leads
<1>3. ASSUME NEW q \in Procs, Leads(q)' PROVE LeadInv(q)'
  <2>1. CASE q = p
    BY <1>1, <1>3, <2>1 DEF LeadInv, Leads, Leading
  <2>2. CASE q # p
    <3>1. Leads(q) /\ LeadInv(q) /\ call[q].key # call[p].key /\ call[q].key \in Keys
      BY <1>2, <1>3, <2>2, CallTyped DEF OneLeader, Leads
    <3>. QED
      BY <1>1, <2>2, <3>1 DEF LeadInv, Leads
  <2>. QED
    BY <2>1, <2>2
<1>4. \A q \in Procs : LeadInv(q)'
  BY <1>3 DEF LeadInv
<1>5. \A q, o \in Procs : q # o /\ Leads(q)' /\ Leads(o)' => call'[q].key # call'[o].key
  BY <1>2 DEF OneLeader
<1>. QED
  BY <1>4, <1>5 DEF OneLeader

(* A key has one leader (worker.go:206-219, cache.go:76-96).               *)
THEOREM LeaderInvariant == Spec => []OneLeader
<1>1. Init => OneLeader
  BY DEF Init, OneLeader, LeadInv, Leads
<1>2. TypeOK /\ AnswerInv /\ OneLeader /\ [Next]_vars => OneLeader'
  <2>. SUFFICES ASSUME TypeOK, AnswerInv, OneLeader, [Next]_vars PROVE OneLeader'
    OBVIOUS
  <2>. USE NullAssumption
  <2>0. \A p \in Procs : CallInv(p)
    BY DEF AnswerInv
  \* A step of a request that leads nothing afterwards, executions unchanged.
  <2>1. ASSUME NEW p \in Procs, exec' = exec, \A q \in Procs : q # p => call'[q] = call[q],
               call'[p] = None \/ call'[p].step \notin Leading
        PROVE  OneLeader'
    BY <2>1, LeaderMoves DEF Leads
  \* A step of a leader that goes on.
  <2>2. ASSUME NEW p \in Procs, NEW st, NEW v, exec' = exec, call[p] # None,
               call[p].step \in Leading \ {"forget"}, st # "forget",
               Does(p, st, call[p].key, v)
        PROVE  OneLeader'
    BY <2>2, LeaderMoves DEF Leads, Does
  <2>3. ASSUME NEW p \in Procs, NEW k \in Asks[p], Ask(p, k) PROVE OneLeader'
    <3>. DEFINE r == [step |-> "route", key |-> k, live |-> TRUE, review |-> TRUE, val |-> None]
    <3>1. r.step = "route"
      OBVIOUS
    <3>2. call'[p] = r /\ \A q \in Procs : q # p => call'[q] = call[q]
      BY <2>3 DEF Ask, TypeOK
    <3>. HIDE DEF r
    <3>. QED
      BY <2>1, <2>3, <3>1, <3>2 DEF Ask, flights, Leading
  <2>4. ASSUME NEW p \in Procs, Cancel(p) PROVE OneLeader'
    <3>. DEFINE r == [call[p] EXCEPT !.live = FALSE]
    <3>1. call[p] # None /\ call[p] \in Call /\ exec' = exec
      BY <2>4, CallTyped DEF Cancel, flights
    <3>2. r \in Call /\ r # None /\ r.step = call[p].step /\ r.key = call[p].key
      BY <3>1 DEF Call
    <3>3. call'[p] = r /\ \A q \in Procs : q # p => call'[q] = call[q]
      BY <2>4 DEF Cancel, TypeOK
    <3>. HIDE DEF r
    <3>4. \A q \in Procs : /\ Leads(q)' <=> Leads(q)
                           /\ Leads(q) => /\ call'[q].key = call[q].key
                                          /\ call'[q].step = call[q].step
      BY <3>1, <3>2, <3>3 DEF Leads
    <3>. QED
      BY <3>1, <3>4 DEF OneLeader, LeadInv
  <2>5. ASSUME NEW p \in Procs, NEW gated \in BOOLEAN, NEW allowed \in BOOLEAN,
               Route(p, gated, allowed)
        PROVE  OneLeader'
    <3>. PICK st \in {"load", "record"} :
              \E rev : call' = [call EXCEPT ![p].review = rev, ![p].step = st]
      BY <2>5 DEF Route
    <3>. PICK rev : call' = [call EXCEPT ![p].review = rev, ![p].step = st]
      OBVIOUS
    <3>. DEFINE r == [call[p] EXCEPT !.review = rev, !.step = st]
    <3>1. call[p] \in Call /\ exec' = exec
      BY <2>5, CallTyped DEF Route, At, flights
    <3>2. r.step = st
      BY <3>1 DEF Call
    <3>3. call'[p] = r /\ \A q \in Procs : q # p => call'[q] = call[q]
      BY DEF TypeOK
    <3>. HIDE DEF r
    <3>. QED
      BY <2>1, <3>1, <3>2, <3>3 DEF Leading
  <2>6. ASSUME NEW p \in Procs, Load(p) PROVE OneLeader'
    <3>1. call[p] # None /\ call[p].key \in Keys /\ call[p].review /\ exec' = exec
      BY <2>6, <2>0, CallTyped DEF Load, At, CallInv
    <3>. PICK e : e = entry[call[p].key]
      OBVIOUS
    <3>2. e \in Results \cup {None}
      BY <3>1 DEF TypeOK, Results
    <3>. PICK st \in {"record", "do"} : \E w : Does(p, st, call[p].key, w)
      BY <2>6, <3>1, <3>2, Got, Gone DEF Load, Steps
    <3>3. PICK w : Does(p, st, call[p].key, w)
      OBVIOUS
    <3>. QED
      BY <2>1, <3>1, <3>3 DEF Does, Leading
  <2>7. ASSUME NEW p \in Procs, Join(p) PROVE OneLeader'
    <3>1. Does(p, "wait", call[p].key, call[p].val) /\ exec' = exec
      BY <2>0, <2>7, Gone DEF Join, At, Steps, CallInv, Group!Join, Group!Late
    <3>. QED
      BY <2>1, <3>1 DEF Does, Leading
  <2>8. ASSUME NEW p \in Procs, Lead(p) PROVE OneLeader'
    <3>. PICK k : k = call[p].key
      OBVIOUS
    <3>1. /\ k \in Keys /\ Does(p, "second", k, call[p].val)
          /\ exec[k] = Group!Idle /\ exec' = [exec EXCEPT ![k] = Group!Running]
      BY <2>0, <2>8, Gone, CallTyped DEF Lead, At, Steps, CallInv, Group!Begin
    <3>2. /\ call'[p].key = k /\ call'[p].step = "second"
          /\ \A q \in Procs : q # p => call'[q] = call[q]
      BY <3>1 DEF Does
    <3>3. ASSUME NEW q \in Procs, q # p, Leads(q)' PROVE LeadInv(q)' /\ call'[q].key # k
      <4>1. Leads(q) /\ LeadInv(q) /\ call'[q] = call[q] /\ call[q].key \in Keys
        BY <3>2, <3>3, CallTyped DEF OneLeader, Leads
      <4>2. call[q].key # k
        BY <3>1, <4>1, ExecTyped DEF LeadInv
      <4>3. exec'[call[q].key] = exec[call[q].key]
        BY <3>1, <4>1, <4>2 DEF TypeOK
      <4>. QED
        BY <4>1, <4>2, <4>3 DEF LeadInv
    <3>4. LeadInv(p)'
      BY <3>1, <3>2 DEF LeadInv, TypeOK
    <3>5. \A q \in Procs : LeadInv(q)'
      BY <3>3, <3>4 DEF LeadInv
    <3>6. ASSUME NEW q \in Procs, NEW o \in Procs, q # o, Leads(q)', Leads(o)'
          PROVE  call'[q].key # call'[o].key
      <4>1. CASE q = p \/ o = p
        BY <3>2, <3>3, <3>6, <4>1
      <4>2. CASE q # p /\ o # p
        <5>1. Leads(q) /\ Leads(o)
          BY <3>2, <3>6, <4>2 DEF Leads
        <5>. QED
          BY <3>2, <3>6, <4>2, <5>1 DEF OneLeader
      <4>. QED
        BY <4>1, <4>2
    <3>. QED
      BY <3>5, <3>6 DEF OneLeader
  <2>9. ASSUME NEW p \in Procs, SecondLoad(p) PROVE OneLeader'
    <3>1. /\ call[p] # None /\ call[p].step = "second" /\ call[p].key \in Keys
          /\ call[p].review /\ exec' = exec
      BY <2>0, <2>9, CallTyped DEF SecondLoad, At, flights, CallInv
    <3>. PICK e, st : e = entry[call[p].key] /\ st = IF e # None THEN "publish" ELSE "acquire"
      OBVIOUS
    <3>2. e \in Results \cup {None} /\ st \in Steps
      BY <3>1 DEF TypeOK, Results, Steps
    <3>3. Does(p, st, call[p].key, e)
      BY <2>9, <3>1, <3>2, Got DEF SecondLoad
    <3>. QED
      BY <2>2, <3>1, <3>3 DEF Leading
  <2>10. ASSUME NEW p \in Procs, Acquire(p) PROVE OneLeader'
    <3>1. /\ call[p] # None /\ call[p].step = "acquire" /\ exec' = exec
          /\ Does(p, "infer", call[p].key, call[p].val)
      BY <2>0, <2>10, Gone DEF Acquire, At, Steps, flights, CallInv
    <3>. QED
      BY <2>2, <3>1 DEF Leading
  <2>11. ASSUME NEW p \in Procs, AcquireCancelled(p) \/ InferFails(p) PROVE OneLeader'
    <3>1. /\ call[p] # None /\ call[p].step \in {"acquire", "infer"} /\ exec' = exec
          /\ Failed \in Results
      BY <2>11 DEF AcquireCancelled, InferFails, At, flights, Results
    <3>2. Does(p, "publish", call[p].key, Failed)
      BY <2>0, <2>11, <3>1, Got DEF AcquireCancelled, InferFails, Steps, CallInv
    <3>. QED
      BY <2>2, <3>1, <3>2 DEF Leading
  <2>12. ASSUME NEW p \in Procs, Infer(p) PROVE OneLeader'
    <3>. PICK v : v = [of |-> call[p].key]
      OBVIOUS
    <3>1. call[p] # None /\ call[p].step = "infer" /\ exec' = exec /\ v \in Results
      BY <2>12, CallTyped DEF Infer, At, flights, Results, Evidence
    <3>2. Does(p, "save", call[p].key, v)
      BY <2>0, <2>12, <3>1, Got DEF Infer, Steps, CallInv
    <3>. QED
      BY <2>2, <3>1, <3>2 DEF Leading
  <2>13. ASSUME NEW p \in Procs, Save(p) PROVE OneLeader'
    <3>1. /\ call[p] # None /\ call[p].step = "save" /\ exec' = exec
          /\ Does(p, "publish", call[p].key, call[p].val)
      BY <2>0, <2>13, Gone DEF Save, At, Steps, flights, CallInv
    <3>. QED
      BY <2>2, <3>1 DEF Leading
  <2>14. ASSUME NEW p \in Procs, Publish(p) PROVE OneLeader'
    <3>. PICK k, v : k = call[p].key /\ v = call[p].val
      OBVIOUS
    <3>1. /\ k \in Keys /\ v \in Results \cup {None} /\ v # None /\ Leads(p)
          /\ exec' = [exec EXCEPT ![k] = Group!Over(v)] /\ Does(p, "forget", k, v)
      BY <2>0, <2>14, CallTyped, Gone
      DEF Publish, At, Steps, CallInv, Group!End, Leads, Leading
    <3>2. exec'[k].val # None /\ \A g \in Keys : g # k => exec'[g] = exec[g]
      BY <3>1, ExecTyped DEF TypeOK
    <3>. QED
      BY <3>1, <3>2, LeaderEnds
  <2>15. ASSUME NEW p \in Procs, Forget(p) PROVE OneLeader'
    <3>1. /\ Leads(p) /\ exec' = [exec EXCEPT ![call[p].key] = Group!Idle]
          /\ Does(p, "wait", call[p].key, call[p].val)
      BY <2>0, <2>15, Gone DEF Forget, At, Steps, CallInv, Group!Forget, Leads, Leading
    <3>2. \A g \in Keys : g # call[p].key => exec'[g] = exec[g]
      BY <3>1 DEF TypeOK
    <3>. QED
      BY <3>1, <3>2, LeaderEnds
  <2>16. ASSUME NEW p \in Procs, DoReturns(p) PROVE OneLeader'
    <3>1. /\ call[p] # None /\ exec' = exec /\ req[p].val \in Results \cup {None}
      BY <2>16 DEF DoReturns, At, Group!Take, TypeOK, Request
    <3>2. Does(p, "record", call[p].key, req[p].val)
      BY <2>0, <2>16, <3>1, Got DEF DoReturns, Steps, CallInv
    <3>. QED
      BY <2>1, <3>1, <3>2 DEF Does, Leading
  <2>17. ASSUME NEW p \in Procs, Record(p) PROVE OneLeader'
    BY <2>1, <2>17 DEF Record, TypeOK, flights
  <2>18. CASE UNCHANGED vars
    BY <2>18 DEF vars, OneLeader, LeadInv, Leads
  <2>. QED
    BY <2>3, <2>4, <2>5, <2>6, <2>7, <2>8, <2>9, <2>10, <2>11, <2>12, <2>13, <2>14, <2>15,
       <2>16, <2>17, <2>18 DEF Next, Runs
<1>. QED
  BY <1>1, <1>2, WorkInvariant, PTL DEF Spec

\* A slot is held only to infer and to save, and no two requests infer for one key
\* (worker.go:206-237).
THEOREM SlotsAreHeld == Spec => []SlotsHeld
<1>1. SlotInv /\ OneLeader => SlotsHeld
  BY DEF SlotInv, OneLeader, SlotsHeld, At, Leads, Leading, Using
<1>. QED
  BY <1>1, WorkInvariant, LeaderInvariant, PTL

=============================================================================
