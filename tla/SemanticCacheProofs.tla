------------------------ MODULE SemanticCacheProofs ------------------------
(***************************************************************************)
(* What holds of semantic.CachedProvider for any number of goroutines,     *)
(* processes, states and queries, whatever fails and whoever dies.         *)
(***************************************************************************)
EXTENDS SemanticCache, TLAPS

Keyed == {"load", "do", "wait", "second", "query", "save", "publish", "forget"}
Flying == Keyed \ {"load"}
Leading == {"second", "query", "save", "publish", "forget"}

Leads(p) == call[p] # None /\ call[p].step \in Leading

\* What a goroutine knows: its key belongs to its query and, while nobody edits, to
\* the tree; its flight is its own; its answer is right for its key.
CallInv(p) ==
    call[p] # None =>
        /\ call[p].step \in {"state", "direct"} => call[p].key = None /\ call[p].val = None
        /\ call[p].step \in Keyed => call[p].key # None
        /\ call[p].step = "save" => call[p].val \in Answer
        /\ call[p].step = "publish" => call[p].val # None
        /\ call[p].step \in Flying => req[p] # None /\ req[p].key = FlightOf(p)
        /\ call[p].key # None =>
             /\ call[p].key.query = call[p].query
             /\ call[p].calm => tree = call[p].key.state
             /\ call[p].val # None => Right(call[p].val, call[p].key)

\* Wherever an answer is kept or under way, it is right for the key it is kept under.
StoreInv ==
    /\ \A k \in Key : entry[k] # None => Right(entry[k], k)
    /\ \A f \in FlightKey : exec[f].val # None => Right(exec[f].val, f.key)
    /\ \A p \in Procs :
         req[p] # None /\ req[p].val # None => Right(req[p].val, req[p].key.key)

AnswerInv == StoreInv /\ \A p \in Procs : CallInv(p)

\* A flight has one leader, from the lookup to the end of the key.
LeadInv(p) ==
    Leads(p) => IF call[p].step = "forget" THEN exec[FlightOf(p)].val # None
                ELSE exec[FlightOf(p)] = Group!Running

AnsweredInv ==
    ~lost =>
      /\ \A f \in answered :
           entry[f.key] # None \/ \E p \in Procs : At(p, "save") /\ FlightOf(p) = f
      /\ \A p \in Procs : At(p, "query") => FlightOf(p) \notin answered

OneLeader ==
    /\ \A p \in Procs : LeadInv(p)
    /\ \A p, q \in Procs : p # q /\ Leads(p) /\ Leads(q) => FlightOf(p) # FlightOf(q)

OnceInv == OneLeader /\ AnsweredInv
-----------------------------------------------------------------------------
LEMMA CallTyped ==
    ASSUME TypeOK, NEW p \in Procs, call[p] # None
    PROVE  /\ call[p] \in Call
           /\ call[p].step \in Steps /\ call[p].query \in Queries
           /\ call[p].key \in Key \cup {None} /\ call[p].val \in Results \cup {None}
           /\ call[p].calm \in BOOLEAN
           /\ call[p].key # None => FlightOf(p) \in FlightKey /\ FlightOf(p).key = call[p].key
BY HostAssumption DEF TypeOK, Call, FlightOf, FlightKey

\* p goes on to st with the result v; nobody else moves.
Does(p, st, v) ==
    /\ call' \in [Procs -> Call \cup {None}]
    /\ call'[p] # None /\ call'[p].step = st /\ call'[p].val = v
    /\ call'[p].key = call[p].key /\ call'[p].query = call[p].query
    /\ call'[p].calm = call[p].calm
    /\ \A q \in Procs : q # p => call'[q] = call[q]

LEMMA Gone ==
    ASSUME TypeOK, NEW p \in Procs, call[p] # None, NEW st \in Steps, Goto(p, st)
    PROVE  Does(p, st, call[p].val)
<1>. DEFINE r == [call[p] EXCEPT !.step = st]
<1>1. call' = [call EXCEPT ![p] = r]
  BY DEF Goto, TypeOK
<1>2. call[p] \in Call
  BY CallTyped
<1>3. /\ r \in Call /\ r # None /\ r.step = st /\ r.key = call[p].key
      /\ r.query = call[p].query /\ r.val = call[p].val /\ r.calm = call[p].calm
  BY <1>2, NullAssumption DEF Call
<1>. HIDE DEF r
<1>. QED
  BY <1>1, <1>3 DEF TypeOK, Does

LEMMA Got ==
    ASSUME TypeOK, NEW p \in Procs, call[p] # None, NEW st \in Steps,
           NEW v \in Results \cup {None},
           call' = [call EXCEPT ![p].step = st, ![p].val = v]
    PROVE  Does(p, st, v)
<1>. DEFINE r == [call[p] EXCEPT !.step = st, !.val = v]
<1>1. call' = [call EXCEPT ![p] = r]
  BY DEF TypeOK
<1>2. call[p] \in Call
  BY CallTyped
<1>3. /\ r \in Call /\ r # None /\ r.step = st /\ r.key = call[p].key
      /\ r.query = call[p].query /\ r.val = v /\ r.calm = call[p].calm
  BY <1>2, NullAssumption DEF Call
<1>. HIDE DEF r
<1>. QED
  BY <1>1, <1>3 DEF TypeOK, Does

\* Goroutines that do not move keep what they know as long as the tree stands still.
LEMMA Others ==
    ASSUME AnswerInv, NEW p \in Procs, tree' = tree, mixed \subseteq mixed',
           \A q \in Procs : q # p =>
               /\ call'[q] = call[q]
               /\ req[q] # None => req'[q] # None /\ req'[q].key = req[q].key
    PROVE  \A q \in Procs : q # p => CallInv(q)'
<1>. SUFFICES ASSUME NEW q \in Procs, q # p, call[q] # None PROVE CallInv(q)'
  BY DEF CallInv
<1>1. CallInv(q) /\ call'[q] = call[q]
  BY DEF AnswerInv
<1>2. FlightOf(q)' = FlightOf(q)
  BY <1>1 DEF FlightOf
<1>3. call[q].key # None /\ call[q].val # None => Right(call[q].val, call[q].key)'
  BY <1>1 DEF CallInv, Right
<1>. QED
  BY <1>1, <1>2, <1>3 DEF CallInv

\* What p must know to go on to st with v.
LEMMA Moves ==
    ASSUME TypeOK, AnswerInv, NEW p \in Procs, call[p] # None,
           NEW st \in Steps \ {"state", "direct"}, NEW v, NEW k, Does(p, st, v),
           call[p].key = k,
           tree' = tree, mixed \subseteq mixed',
           \A q \in Procs : q # p =>
               (req[q] # None => req'[q] # None /\ req'[q].key = req[q].key),
           st \in Keyed => k # None,
           st = "save" => v \in Answer,
           st = "publish" => v # None,
           st \in Flying => req'[p] # None /\ req'[p].key = FlightOf(p),
           k # None /\ v # None => Right(v, k)'
    PROVE  \A q \in Procs : CallInv(q)'
<1>1. \A q \in Procs : q # p => CallInv(q)'
  BY Others DEF Does
<1>2. FlightOf(p)' = FlightOf(p)
  BY DEF Does, FlightOf
<1>3. CallInv(p) /\ (k # None /\ v # None => Right(v, k)')
  BY DEF AnswerInv
<1>. DEFINE c == call'[p]
<1>4. /\ c # None /\ c.step = st /\ c.val = v /\ c.key = k
      /\ c.query = call[p].query /\ c.calm = call[p].calm
  BY DEF Does
<1>5. k # None => k.query = call[p].query /\ (call[p].calm => tree = k.state)
  BY <1>3 DEF CallInv
<1>6. CallInv(p)'
  BY <1>2, <1>3, <1>4, <1>5 DEF CallInv
<1>. QED
  BY <1>1, <1>6

\* Keeping a right answer keeps the store right.
LEMMA StoreKept ==
    ASSUME StoreInv, mixed \subseteq mixed', UNCHANGED <<entry, exec, req>>
    PROVE  StoreInv'
BY DEF StoreInv, Right

LEMMA AskedTyped ==
    ASSUME NEW f \in FlightKey
    PROVE  /\ Group!Asked(f) \in Request /\ Group!Asked(f) # None
           /\ Group!Asked(f).key = f /\ Group!Asked(f).val = None
<1>1. FALSE \in BOOLEAN /\ None \in Results \cup {None}
  OBVIOUS
<1>2. Group!Asked(f) \in Request
  BY <1>1 DEF Group!Asked, Request
<1>. QED
  BY <1>2, NullAssumption DEF Group!Asked

LEMMA RequestMoved ==
    ASSUME NEW r \in Request, NEW v \in Results \cup {None}
    PROVE  /\ [r EXCEPT !.part = TRUE] \in Request /\ [r EXCEPT !.part = TRUE] # None
           /\ [r EXCEPT !.part = TRUE].key = r.key /\ [r EXCEPT !.part = TRUE].val = r.val
           /\ [r EXCEPT !.val = v] \in Request /\ [r EXCEPT !.val = v] # None
           /\ [r EXCEPT !.val = v].key = r.key /\ [r EXCEPT !.val = v].val = v
<1>1. [r EXCEPT !.part = TRUE] \in Request /\ [r EXCEPT !.val = v] \in Request
  BY DEF Request
<1>2. /\ [r EXCEPT !.part = TRUE].key = r.key /\ [r EXCEPT !.part = TRUE].val = r.val
      /\ [r EXCEPT !.val = v].key = r.key /\ [r EXCEPT !.val = v].val = v
  BY DEF Request
<1>. QED
  BY <1>1, <1>2, NullAssumption

LEMMA IdleTyped ==
    /\ Group!Idle \in [over : BOOLEAN, val : Results \cup {None}] /\ Group!Idle.val = None
    /\ Group!Running \in [over : BOOLEAN, val : Results \cup {None}]
    /\ Group!Running.val = None /\ Group!Running # Group!Idle
    /\ \A v \in Results : /\ Group!Over(v) \in [over : BOOLEAN, val : Results \cup {None}]
                          /\ Group!Over(v).val = v
<1>1. TRUE \in BOOLEAN /\ FALSE \in BOOLEAN /\ None \in Results \cup {None}
  OBVIOUS
<1>. QED
  BY <1>1 DEF Group!Idle, Group!Running, Group!Over

(* Types, and that whatever is stored, published or under way is right for *)
(* its key (cached.go:71-113).                                             *)
THEOREM AnswerInvariant == Spec => [](TypeOK /\ AnswerInv)
<1>1. Init => TypeOK /\ AnswerInv
  <2>. SUFFICES ASSUME Init PROVE TypeOK /\ AnswerInv
    OBVIOUS
  <2>1. /\ exec = [f \in FlightKey |-> Group!Idle]
        /\ Group!Idle \in [over : BOOLEAN, val : Results \cup {None}] /\ Group!Idle.val = None
    BY IdleTyped DEF Init, Group!Init
  <2>a. exec \in [FlightKey -> [over : BOOLEAN, val : Results \cup {None}]]
    BY <2>1
  <2>b. call \in [Procs -> Call \cup {None}] /\ req \in [Procs -> Request \cup {None}]
        /\ entry \in [Key -> Answer \cup {None}] /\ lost \in BOOLEAN
    BY DEF Init, Group!Init
  <2>2. TypeOK
    BY <2>a, <2>b, StateAssumption, EventAssumption DEF Init, TypeOK
  <2>3. AnswerInv
    BY <2>1 DEF Init, AnswerInv, StoreInv, CallInv, Group!Init
  <2>. QED
    BY <2>2, <2>3
<1>2. TypeOK /\ AnswerInv /\ [Next]_vars => TypeOK' /\ AnswerInv'
  <2>. SUFFICES ASSUME TypeOK, AnswerInv, [Next]_vars PROVE TypeOK' /\ AnswerInv'
    OBVIOUS
  <2>. USE NullAssumption
  <2>0. StoreInv /\ \A p \in Procs : CallInv(p)
    BY DEF AnswerInv
  <2>1. ASSUME NEW p \in Procs, NEW q \in Queries, Ask(p, q) PROVE TypeOK' /\ AnswerInv'
    <3>. DEFINE r == [step |-> "state", query |-> q, key |-> None, val |-> None, calm |-> TRUE]
    <3>r. /\ r.step = "state" /\ r.key = None /\ r.val = None
          /\ "state" \in Steps /\ None \in Key \cup {None} /\ None \in Results \cup {None}
          /\ TRUE \in BOOLEAN
      BY DEF Steps
    <3>c. r \in Call
      BY <3>r DEF Call
    <3>d. r # None
      BY <3>c
    <3>1. /\ \A o \in Procs : o # p => call'[o] = call[o]
          /\ r \in Call /\ r # None /\ r.step = "state" /\ r.key = None /\ r.val = None
          /\ UNCHANGED <<tree, events, entry, exec, req, mixed, answered, lost>>
      BY <2>1, <3>r, <3>c, <3>d DEF Ask, TypeOK, flights, repo, history
    <3>2. call'[p] = r /\ call' = [call EXCEPT ![p] = r]
      BY <2>1 DEF Ask, TypeOK
    <3>. HIDE DEF r
    <3>3. TypeOK'
      BY <3>1, <3>2 DEF TypeOK
    <3>4. CallInv(p)'
      BY <3>1, <3>2 DEF CallInv, Keyed, Flying
    <3>5. StoreInv' /\ \A o \in Procs : o # p => CallInv(o)'
      BY <2>0, <2>1, <3>1, Others, StoreKept DEF Ask, flights, repo, history
    <3>. QED
      BY <3>3, <3>4, <3>5 DEF AnswerInv
  <2>2. ASSUME NEW p \in Procs, ReadState(p) PROVE TypeOK' /\ AnswerInv'
    <3>. DEFINE k == [state |-> tree, query |-> call[p].query]
                r == [call[p] EXCEPT !.step = "load", !.calm = TRUE, !.key = k]
    <3>0. call[p] # None /\ call[p] \in Call /\ call[p].step = "state"
      BY <2>2, CallTyped DEF ReadState, At
    <3>k. k \in Key /\ k.state = tree /\ k.query = call[p].query
      BY <3>0 DEF TypeOK, Key, Call
    <3>. HIDE DEF k
    <3>1. /\ r \in Call /\ r # None /\ r.step = "load" /\ r.key = k
          /\ r.query = call[p].query /\ r.val = call[p].val
      BY <3>0, <3>k DEF Call, Steps
    <3>2. call' = [call EXCEPT ![p] = r]
      BY <2>2 DEF ReadState, TypeOK, k
    <3>. HIDE DEF r
    <3>u. UNCHANGED <<tree, events, entry, exec, req, mixed, answered, lost>>
      BY <2>2 DEF ReadState, flights, repo, history
    <3>3. TypeOK'
      BY <3>u, <3>1, <3>2 DEF TypeOK
    <3>4. call'[p] = r /\ \A o \in Procs : o # p => call'[o] = call[o]
      BY <3>2 DEF TypeOK
    <3>5. StoreInv' /\ \A o \in Procs : o # p => CallInv(o)'
      BY <2>0, <2>2, <3>4, Others, StoreKept DEF ReadState, flights, repo, history
    <3>6. call[p].val = None
      BY <3>0, <2>0 DEF CallInv
    <3>7. CallInv(p)'
      BY <2>2, <3>1, <3>4, <3>6, <3>k DEF ReadState, repo, CallInv, Keyed, Flying
    <3>. QED
      BY <3>3, <3>5, <3>7 DEF AnswerInv
  <2>3. ASSUME NEW p \in Procs, ReadStateFailed(p) PROVE TypeOK' /\ AnswerInv'
    <3>1. /\ call[p] # None /\ call[p].step = "state"
          /\ Goto(p, "direct") /\ "direct" \in Steps
          /\ UNCHANGED <<tree, entry, exec, req, mixed, answered, lost>>
          /\ events' \in 0..MaxEvents
      BY <2>3, EventAssumption DEF ReadStateFailed, At, Steps, flights, history, Event, TypeOK
    <3>2. Does(p, "direct", call[p].val)
      BY <3>1, Gone
    <3>3. CallInv(p)'
      BY <3>1, <3>2, <2>0 DEF Does, CallInv, Keyed, Flying
    <3>4. StoreInv' /\ \A o \in Procs : o # p => CallInv(o)'
      BY <3>1, <3>2, <2>0, Others, StoreKept DEF Does
    <3>. QED
      BY <3>1, <3>2, <3>3, <3>4 DEF TypeOK, AnswerInv, Does
  <2>4. ASSUME NEW p \in Procs, NEW v \in Results, Direct(p, v) PROVE TypeOK' /\ AnswerInv'
    <3>1. /\ call[p] # None /\ call[p].step = "direct"
          /\ call' = [call EXCEPT ![p].step = "return", ![p].val = v]
          /\ UNCHANGED <<tree, events, entry, exec, req, mixed, answered, lost>>
          /\ "return" \in Steps \ ({"state", "direct"} \cup Keyed)
      BY <2>4 DEF Direct, At, Steps, flights, history, repo, Keyed
    <3>2. Does(p, "return", v) /\ call[p].key = None
      BY <3>1, <2>0, Got DEF CallInv
    <3>3. StoreInv' /\ \A o \in Procs : CallInv(o)'
      BY <3>1, <3>2, <2>0, Moves, StoreKept DEF Flying
    <3>. QED
      BY <3>1, <3>2, <3>3 DEF TypeOK, AnswerInv, Does
  <2>5. ASSUME NEW p \in Procs, Load(p) PROVE TypeOK' /\ AnswerInv'
    <3>1. /\ call[p] # None /\ call[p].step = "load" /\ call[p].key \in Key
          /\ FlightOf(p) \in FlightKey /\ FlightOf(p).key = call[p].key
          /\ UNCHANGED <<tree, events, entry, exec, mixed, answered, lost>>
          /\ {"return", "do"} \subseteq Steps \ {"state", "direct"}
          /\ "return" \notin Keyed
      BY <2>5, <2>0, CallTyped DEF Load, At, Steps, history, repo, CallInv, Keyed
    <3>. PICK k, e, w : k = call[p].key /\ e = entry[k] /\ w = call[p].val
      OBVIOUS
    <3>2. e \in Results \cup {None}
      BY <3>1 DEF TypeOK, Results
    <3>3. CASE e # None
      <4>1. call' = [call EXCEPT ![p].step = "return", ![p].val = e] /\ req' = req
        BY <2>5, <3>3 DEF Load
      <4>2. Does(p, "return", e)
        BY <3>1, <3>2, <4>1, Got
      <4>3. Right(e, k)'
        BY <3>1, <3>3, <2>0 DEF StoreInv, Right
      <4>4. StoreInv' /\ \A o \in Procs : CallInv(o)'
        BY <3>1, <4>1, <4>2, <4>3, <2>0, Moves, StoreKept DEF Flying
      <4>. QED
        BY <3>1, <4>1, <4>2, <4>4 DEF TypeOK, AnswerInv, Does
    <3>4. CASE e = None
      <4>1. Goto(p, "do") /\ req' = [req EXCEPT ![p] = Group!Asked(FlightOf(p))]
        BY <2>5, <3>4 DEF Load
      <4>2. Does(p, "do", w)
        BY <3>1, <4>1, Gone
      <4>3. PICK a : a = Group!Asked(FlightOf(p))
        OBVIOUS
      <4>4. a \in Request /\ a # None /\ a.key = FlightOf(p) /\ a.val = None
        BY <4>3, <3>1, AskedTyped
      <4>5. /\ \A o \in Procs : o # p => req'[o] = req[o]
            /\ req'[p] = a /\ req' \in [Procs -> Request \cup {None}]
        BY <4>1, <4>3, <4>4 DEF TypeOK
      <4>6. k # None /\ w # None => Right(w, k)'
        BY <3>1, <2>0 DEF CallInv, Right
      <4>7. \A o \in Procs : CallInv(o)'
        BY <3>1, <4>2, <4>4, <4>5, <4>6, Moves
      <4>8. StoreInv'
        BY <3>1, <4>4, <4>5, <2>0 DEF StoreInv, Right
      <4>. QED
        BY <3>1, <4>2, <4>5, <4>7, <4>8 DEF TypeOK, AnswerInv, Does
    <3>. QED
      BY <3>3, <3>4
  <2>6. ASSUME NEW p \in Procs, Join(p) PROVE TypeOK' /\ AnswerInv'
    <3>. PICK f, k, w, x : /\ f = FlightOf(p) /\ k = call[p].key /\ w = call[p].val
                           /\ x = exec[f].val
      OBVIOUS
    <3>1. /\ call[p] # None /\ call[p].step = "do" /\ k \in Key
          /\ f \in FlightKey /\ f.key = k
          /\ Goto(p, "wait") /\ "wait" \in Steps \ {"state", "direct"}
          /\ UNCHANGED <<tree, events, entry, exec, mixed, answered, lost>>
          /\ \/ req' = [req EXCEPT ![p].part = TRUE]
             \/ req' = [req EXCEPT ![p].val = x]
      BY <2>6, <2>0, CallTyped
      DEF Join, At, Steps, history, repo, CallInv, Keyed, Group!Join, Group!Late
    <3>2. Does(p, "wait", w)
      BY <3>1, Gone
    <3>3. /\ req[p] \in Request /\ req[p].key = f /\ x \in Results \cup {None}
          /\ (req[p].val # None => Right(req[p].val, k)) /\ (x # None => Right(x, k))
      BY <3>1, <2>0 DEF CallInv, Flying, Keyed, TypeOK, StoreInv
    <3>4. PICK r : /\ r \in Request /\ r # None /\ r.key = f /\ (r.val # None => Right(r.val, k))
                   /\ req' = [req EXCEPT ![p] = r]
      <4>1. CASE req' = [req EXCEPT ![p].part = TRUE]
        <5>1. req' = [req EXCEPT ![p] = [req[p] EXCEPT !.part = TRUE]]
          BY <4>1 DEF TypeOK
        <5>. QED
          BY <5>1, <3>3, RequestMoved
      <4>2. CASE req' = [req EXCEPT ![p].val = x]
        <5>. DEFINE a == [req[p] EXCEPT !.val = x]
        <5>1. req' = [req EXCEPT ![p] = a]
          BY <4>2 DEF TypeOK
        <5>2. a \in Request /\ a # None /\ a.key = f /\ a.val = x
          BY <3>3, RequestMoved
        <5>. HIDE DEF a
        <5>. QED
          BY <5>1, <5>2, <3>3
      <4>. QED
        BY <3>1, <4>1, <4>2
    <3>5. /\ req'[p] = r /\ \A o \in Procs : o # p => req'[o] = req[o]
          /\ req' \in [Procs -> Request \cup {None}]
      BY <3>4 DEF TypeOK
    <3>6. k # None /\ w # None => Right(w, k)'
      BY <3>1, <2>0 DEF CallInv, Right
    <3>7. \A o \in Procs : CallInv(o)'
      BY <3>1, <3>2, <3>4, <3>5, <3>6, Moves
    <3>8. StoreInv'
      BY <3>1, <3>4, <3>5, <2>0 DEF StoreInv, Right
    <3>. QED
      BY <3>1, <3>2, <3>5, <3>7, <3>8 DEF TypeOK, AnswerInv, Does
  <2>7. ASSUME NEW p \in Procs, Lead(p) PROVE TypeOK' /\ AnswerInv'
    <3>. PICK f, k, w, r : /\ f = FlightOf(p) /\ k = call[p].key /\ w = call[p].val
                           /\ r = [req[p] EXCEPT !.part = TRUE]
      OBVIOUS
    <3>1. /\ call[p] # None /\ call[p].step = "do" /\ k \in Key
          /\ f \in FlightKey /\ f.key = k
          /\ Goto(p, "second") /\ "second" \in Steps \ {"state", "direct"}
          /\ UNCHANGED <<tree, events, entry, mixed, answered, lost>>
          /\ req' = [req EXCEPT ![p].part = TRUE]
          /\ exec' = [exec EXCEPT ![f] = Group!Running]
      BY <2>7, <2>0, CallTyped DEF Lead, At, Steps, history, repo, CallInv, Keyed, Group!Begin
    <3>2. Does(p, "second", w)
      BY <3>1, Gone
    <3>3. /\ req[p] \in Request /\ req[p].key = f
          /\ (req[p].val # None => Right(req[p].val, k))
      BY <3>1, <2>0 DEF CallInv, Flying, Keyed, TypeOK, StoreInv
    <3>4. r \in Request /\ r # None /\ r.key = f /\ r.val = req[p].val
      BY <3>3, RequestMoved
    <3>5. req' = [req EXCEPT ![p] = r]
      BY <3>1 DEF TypeOK
    <3>6. /\ req'[p] = r /\ \A o \in Procs : o # p => req'[o] = req[o]
          /\ req' \in [Procs -> Request \cup {None}]
      BY <3>4, <3>5 DEF TypeOK
    <3>7. /\ exec' \in [FlightKey -> [over : BOOLEAN, val : Results \cup {None}]]
          /\ \A g \in FlightKey : exec'[g].val # None => exec'[g] = exec[g]
      BY <3>1, IdleTyped DEF TypeOK
    <3>8. k # None /\ w # None => Right(w, k)'
      BY <3>1, <2>0 DEF CallInv, Right
    <3>9. \A o \in Procs : CallInv(o)'
      BY <3>1, <3>2, <3>4, <3>6, <3>8, Moves
    <3>10. StoreInv'
      BY <3>1, <3>3, <3>4, <3>6, <3>7, <2>0 DEF StoreInv, Right
    <3>. QED
      BY <3>1, <3>2, <3>6, <3>7, <3>9, <3>10 DEF TypeOK, AnswerInv, Does
  <2>8. ASSUME NEW p \in Procs, SecondLoad(p) PROVE TypeOK' /\ AnswerInv'
    <3>. PICK k, e : k = call[p].key /\ e = entry[k]
      OBVIOUS
    <3>. PICK st : st = IF e # None THEN "publish" ELSE "query"
      OBVIOUS
    <3>1. /\ call[p] # None /\ call[p].step = "second" /\ k \in Key
          /\ st \in Steps \ {"state", "direct"} /\ st # "save" /\ (st = "publish" => e # None)
          /\ UNCHANGED <<tree, events, entry, exec, req, mixed, answered, lost>>
          /\ call' = [call EXCEPT ![p].step = st, ![p].val = e]
      BY <2>8, <2>0, CallTyped DEF SecondLoad, At, Steps, history, repo, flights, CallInv, Keyed
    <3>2. e \in Results \cup {None}
      BY <3>1 DEF TypeOK, Results
    <3>3. Does(p, st, e)
      BY <3>1, <3>2, Got
    <3>4. e # None => Right(e, k)'
      BY <3>1, <2>0 DEF StoreInv, Right
    <3>5. req[p] # None /\ req[p].key = FlightOf(p)
      BY <3>1, <2>0 DEF CallInv, Flying, Keyed
    <3>6. StoreInv' /\ \A o \in Procs : CallInv(o)'
      BY <3>1, <3>3, <3>4, <3>5, <2>0, Moves, StoreKept
    <3>. QED
      BY <3>1, <3>3, <3>6 DEF TypeOK, AnswerInv, Does
  <2>9. ASSUME NEW p \in Procs, Query(p) PROVE TypeOK' /\ AnswerInv'
    <3>. PICK k, v : k = call[p].key /\ v = [query |-> call[p].query, tree |-> tree]
      OBVIOUS
    <3>1. /\ call[p] # None /\ call[p].step = "query" /\ k \in Key
          /\ FlightOf(p) \in FlightKey /\ call[p].query \in Queries
          /\ call[p].query = k.query /\ (call[p].calm => tree = k.state)
          /\ "save" \in Steps \ {"state", "direct"}
          /\ UNCHANGED <<tree, events, entry, exec, req, lost>>
          /\ call' = [call EXCEPT ![p].step = "save", ![p].val = v]
          /\ answered' = answered \cup {FlightOf(p)}
          /\ mixed' = IF call[p].calm THEN mixed ELSE mixed \cup {k}
      BY <2>9, <2>0, CallTyped DEF Query, At, Steps, repo, flights, CallInv, Keyed
    <3>2. v \in Answer /\ v \in Results
      BY <3>1 DEF TypeOK, Answer, Results
    <3>3. Does(p, "save", v)
      BY <3>1, <3>2, Got
    <3>4. Right(v, k)' /\ mixed \subseteq mixed' /\ mixed' \subseteq Key
      <4>1. CASE call[p].calm
        BY <4>1, <3>1 DEF Right, TypeOK
      <4>2. CASE ~call[p].calm
        BY <4>2, <3>1 DEF Right, TypeOK
      <4>. QED
        BY <4>1, <4>2
    <3>5. req[p] # None /\ req[p].key = FlightOf(p)
      BY <3>1, <2>0 DEF CallInv, Flying, Keyed
    <3>6. StoreInv' /\ \A o \in Procs : CallInv(o)'
      BY <3>1, <3>2, <3>3, <3>4, <3>5, <2>0, Moves, StoreKept
    <3>. QED
      BY <3>1, <3>3, <3>4, <3>6 DEF TypeOK, AnswerInv, Does
  <2>10. ASSUME NEW p \in Procs, QueryFailed(p) PROVE TypeOK' /\ AnswerInv'
    <3>. PICK k : k = call[p].key
      OBVIOUS
    <3>1. /\ call[p] # None /\ call[p].step = "query" /\ k \in Key
          /\ "publish" \in Steps \ {"state", "direct"}
          /\ UNCHANGED <<tree, entry, exec, req, mixed, answered>>
          /\ lost' = TRUE /\ events' \in 0..MaxEvents
          /\ call' = [call EXCEPT ![p].step = "publish", ![p].val = Failed]
      BY <2>10, <2>0, CallTyped, EventAssumption
      DEF QueryFailed, At, Steps, flights, CallInv, Keyed, Lose, Event, TypeOK
    <3>2. Failed \in Results /\ Failed # None /\ Right(Failed, k)'
      BY DEF Results, Right
    <3>3. Does(p, "publish", Failed)
      BY <3>1, <3>2, Got
    <3>4. req[p] # None /\ req[p].key = FlightOf(p)
      BY <3>1, <2>0 DEF CallInv, Flying, Keyed
    <3>5. StoreInv' /\ \A o \in Procs : CallInv(o)'
      BY <3>1, <3>2, <3>3, <3>4, <2>0, Moves, StoreKept
    <3>. QED
      BY <3>1, <3>3, <3>5 DEF TypeOK, AnswerInv, Does
  <2>11. ASSUME NEW p \in Procs, NEW e, Goto(p, "publish"), At(p, "save"),
                entry' = [entry EXCEPT ![call[p].key] = e],
                e \in {call[p].val, entry[call[p].key], None},
                UNCHANGED <<tree, exec, req, mixed, answered>>,
                events' \in 0..MaxEvents, lost' \in BOOLEAN
         PROVE  TypeOK' /\ AnswerInv'
    <3>. PICK k, w : k = call[p].key /\ w = call[p].val
      OBVIOUS
    <3>1. /\ call[p] # None /\ call[p].step = "save" /\ k \in Key
          /\ "publish" \in Steps \ {"state", "direct"}
          /\ w \in Answer /\ Right(w, k) /\ w # None
      BY <2>11, <2>0, CallTyped DEF At, Steps, CallInv, Keyed, Results
    <3>2. Does(p, "publish", w)
      BY <2>11, <3>1, Gone
    <3>3. e \in Answer \cup {None} /\ (e # None => Right(e, k))
      BY <2>11, <2>0, <3>1 DEF StoreInv, TypeOK
    <3>4. entry' \in [Key -> Answer \cup {None}]
      BY <2>11, <3>3 DEF TypeOK
    <3>5. \A g \in Key : entry'[g] # None => Right(entry'[g], g)
      BY <2>11, <2>0, <3>1, <3>3 DEF StoreInv, TypeOK
    <3>6. req[p] # None /\ req[p].key = FlightOf(p) /\ Right(w, k)'
      BY <2>11, <3>1, <2>0 DEF CallInv, Flying, Keyed, Right
    <3>7. \A o \in Procs : CallInv(o)'
      BY <2>11, <3>1, <3>2, <3>6, Moves
    <3>8. StoreInv'
      BY <2>11, <3>5, <2>0 DEF StoreInv, Right
    <3>. QED
      BY <2>11, <3>2, <3>4, <3>7, <3>8 DEF TypeOK, AnswerInv, Does
  <2>12. ASSUME NEW p \in Procs, Save(p) \/ SaveFailed(p) PROVE TypeOK' /\ AnswerInv'
    <3>1. CASE Save(p)
      BY <3>1, <2>11 DEF Save, flights, repo, history, TypeOK
    <3>2. CASE SaveFailed(p)
      <4>1. PICK e \in {entry[call[p].key], None} : entry' = [entry EXCEPT ![call[p].key] = e]
        BY <3>2 DEF SaveFailed
      <4>2. /\ Goto(p, "publish") /\ At(p, "save")
            /\ UNCHANGED <<tree, exec, req, mixed, answered>>
            /\ events' \in 0..MaxEvents /\ lost' \in BOOLEAN
        BY <3>2, EventAssumption DEF SaveFailed, flights, Lose, Event, TypeOK
      <4>. QED
        BY <4>1, <4>2, <2>11
    <3>. QED
      BY <2>12, <3>1, <3>2
  <2>13. ASSUME NEW p \in Procs, Publish(p) PROVE TypeOK' /\ AnswerInv'
    <3>. PICK f, k, w : f = FlightOf(p) /\ k = call[p].key /\ w = call[p].val
      OBVIOUS
    <3>. DEFINE r == [key |-> f, part |-> FALSE, val |-> w]
                Takes(q) == req[q] # None /\ req[q].key = f /\ req[q].part
    <3>1. /\ call[p] # None /\ call[p].step = "publish" /\ k \in Key
          /\ f \in FlightKey /\ f.key = k /\ w \in Results /\ w # None /\ Right(w, k)
          /\ Goto(p, "forget") /\ "forget" \in Steps \ {"state", "direct"}
          /\ UNCHANGED <<tree, events, entry, mixed, answered, lost>>
          /\ exec' = [exec EXCEPT ![f] = Group!Over(w)]
          /\ req' = [q \in Procs |-> IF Takes(q) THEN r ELSE req[q]]
      BY <2>13, <2>0, CallTyped
      DEF Publish, At, Steps, history, repo, CallInv, Keyed, Group!End, Group!Over
    <3>2. Does(p, "forget", w)
      BY <3>1, Gone
    <3>3. r.key = f /\ r.val = w /\ FALSE \in BOOLEAN
      OBVIOUS
    <3>4. r \in Request
      BY <3>1, <3>3 DEF Request
    <3>5. r # None
      BY <3>4
    <3>. HIDE DEF r
    <3>6. \A q \in Procs : \/ req'[q] = req[q]
                           \/ req[q] # None /\ req[q].key = f /\ req'[q] = r
      BY <3>1
    <3>. HIDE DEF Takes
    <3>7. req' \in [Procs -> Request \cup {None}]
      BY <3>1, <3>4 DEF TypeOK
    <3>8. /\ exec' \in [FlightKey -> [over : BOOLEAN, val : Results \cup {None}]]
          /\ exec'[f].val = w /\ \A g \in FlightKey : g # f => exec'[g] = exec[g]
      BY <3>1, IdleTyped DEF TypeOK
    <3>9. Right(w, k)' /\ req[p] # None /\ req[p].key = f
      BY <3>1, <2>0 DEF CallInv, Flying, Keyed, Right
    <3>10. \A q \in Procs : req[q] # None => req'[q] # None /\ req'[q].key = req[q].key
      BY <3>3, <3>5, <3>6
    <3>11. \A o \in Procs : CallInv(o)'
      BY <3>1, <3>2, <3>9, <3>10, Moves
    <3>12. StoreInv'
      <4>1. \A g \in FlightKey : exec'[g].val # None => Right(exec[g].val, g.key)'
        BY <3>1, <3>8, <3>9, <2>0 DEF StoreInv, Right
      <4>2. ASSUME NEW q \in Procs, req'[q] # None, req'[q].val # None
            PROVE  Right(req[q].val, req[q].key.key)'
        <5>1. CASE req'[q] = req[q]
          BY <5>1, <4>2, <3>1, <2>0 DEF StoreInv, Right
        <5>2. CASE req'[q] = r
          BY <5>2, <3>1, <3>3 DEF Right
        <5>. QED
          BY <5>1, <5>2, <3>6
      <4>3. \A g \in Key : entry'[g] # None => Right(entry[g], g)'
        BY <3>1, <2>0 DEF StoreInv, Right
      <4>. QED
        BY <4>1, <4>2, <4>3 DEF StoreInv
    <3>. QED
      BY <3>1, <3>2, <3>7, <3>8, <3>11, <3>12 DEF TypeOK, AnswerInv, Does
  <2>14. ASSUME NEW p \in Procs, Forget(p) PROVE TypeOK' /\ AnswerInv'
    <3>. PICK f, k, w : f = FlightOf(p) /\ k = call[p].key /\ w = call[p].val
      OBVIOUS
    <3>1. /\ call[p] # None /\ call[p].step = "forget" /\ k \in Key /\ f \in FlightKey
          /\ Goto(p, "wait") /\ "wait" \in Steps \ {"state", "direct"}
          /\ UNCHANGED <<tree, events, entry, req, mixed, answered, lost>>
          /\ exec' = [exec EXCEPT ![f] = Group!Idle]
      BY <2>14, <2>0, CallTyped DEF Forget, At, Steps, history, repo, CallInv, Keyed, Group!Forget
    <3>2. Does(p, "wait", w)
      BY <3>1, Gone
    <3>3. /\ exec' \in [FlightKey -> [over : BOOLEAN, val : Results \cup {None}]]
          /\ \A g \in FlightKey : exec'[g].val # None => exec'[g] = exec[g]
      BY <3>1, IdleTyped DEF TypeOK
    <3>4. /\ req[p] # None /\ req[p].key = FlightOf(p)
          /\ (k # None /\ w # None => Right(w, k)')
      BY <3>1, <2>0 DEF CallInv, Flying, Keyed, Right
    <3>5. \A o \in Procs : CallInv(o)'
      BY <3>1, <3>2, <3>4, Moves
    <3>6. StoreInv'
      BY <3>1, <3>3, <2>0 DEF StoreInv, Right
    <3>. QED
      BY <3>1, <3>2, <3>3, <3>5, <3>6 DEF TypeOK, AnswerInv, Does
  <2>15. ASSUME NEW p \in Procs, DoReturns(p) PROVE TypeOK' /\ AnswerInv'
    <3>. PICK k, v : k = call[p].key /\ v = req[p].val
      OBVIOUS
    <3>1. /\ call[p] # None /\ call[p].step = "wait" /\ k \in Key /\ FlightOf(p).key = k
          /\ "return" \in Steps \ ({"state", "direct"} \cup Keyed)
          /\ UNCHANGED <<tree, events, entry, exec, mixed, answered, lost>>
          /\ call' = [call EXCEPT ![p].step = "return", ![p].val = v]
          /\ req[p] # None /\ v # None /\ req' = [req EXCEPT ![p] = None]
      BY <2>15, <2>0, CallTyped
      DEF DoReturns, At, Steps, history, repo, CallInv, Keyed, Group!Take
    <3>2. v \in Results /\ req[p].key = FlightOf(p) /\ Right(v, k)
      BY <3>1, <2>0 DEF TypeOK, Request, StoreInv, CallInv, Flying, Keyed
    <3>3. Does(p, "return", v)
      BY <3>1, <3>2, Got
    <3>4. /\ req'[p] = None /\ \A o \in Procs : o # p => req'[o] = req[o]
          /\ req' \in [Procs -> Request \cup {None}]
      BY <3>1 DEF TypeOK
    <3>5. Right(v, k)'
      BY <3>1, <3>2 DEF Right
    <3>6. \A o \in Procs : CallInv(o)'
      BY <3>1, <3>3, <3>4, <3>5, Moves DEF Flying
    <3>7. StoreInv'
      BY <3>1, <3>4, <2>0 DEF StoreInv, Right
    <3>. QED
      BY <3>1, <3>3, <3>4, <3>6, <3>7 DEF TypeOK, AnswerInv, Does
  <2>16. ASSUME NEW p \in Procs, Return(p) PROVE TypeOK' /\ AnswerInv'
    <3>1. /\ UNCHANGED <<tree, events, entry, exec, req, mixed, answered, lost>>
          /\ call'[p] = None /\ \A o \in Procs : o # p => call'[o] = call[o]
          /\ call' \in [Procs -> Call \cup {None}]
      BY <2>16 DEF Return, TypeOK, flights, repo, history
    <3>2. StoreInv' /\ \A o \in Procs : o # p => CallInv(o)'
      BY <3>1, <2>0, Others, StoreKept
    <3>3. CallInv(p)'
      BY <3>1 DEF CallInv
    <3>. QED
      BY <3>1, <3>2, <3>3 DEF TypeOK, AnswerInv
  <2>17. ASSUME NEW s \in States, Edit(s) PROVE TypeOK' /\ AnswerInv'
    <3>1. /\ tree' = s /\ UNCHANGED <<entry, exec, req, mixed, answered, lost>>
          /\ events' \in 0..MaxEvents
      BY <2>17, EventAssumption DEF Edit, flights, history, Event, TypeOK
    <3>2. ASSUME NEW p \in Procs, call[p] # None
          PROVE  /\ call'[p] \in Call /\ call'[p] # None /\ call'[p].calm = FALSE
                 /\ call'[p].step = call[p].step /\ call'[p].query = call[p].query
                 /\ call'[p].key = call[p].key /\ call'[p].val = call[p].val
      <4>. DEFINE r == [call[p] EXCEPT !.calm = FALSE]
      <4>1. call'[p] = r
        BY <2>17, <3>2 DEF Edit
      <4>2. call[p] \in Call
        BY <3>2, CallTyped
      <4>3. /\ r \in Call /\ r.calm = FALSE /\ r.step = call[p].step /\ r.val = call[p].val
            /\ r.query = call[p].query /\ r.key = call[p].key
        BY <4>2 DEF Call
      <4>. HIDE DEF r
      <4>. QED
        BY <4>1, <4>3
    <3>3. \A p \in Procs : call[p] = None => call'[p] = None
      BY <2>17 DEF Edit
    <3>4. call' \in [Procs -> Call \cup {None}]
      <4>1. call' = [p \in Procs |-> call'[p]]
        BY <2>17 DEF Edit
      <4>. QED
        BY <4>1, <3>2, <3>3
    <3>5. ASSUME NEW p \in Procs PROVE CallInv(p)'
      <4>1. CASE call[p] = None
        BY <4>1, <3>3 DEF CallInv
      <4>2. CASE call[p] # None
        <5>1. FlightOf(p)' = FlightOf(p)
          BY <4>2, <3>2 DEF FlightOf
        <5>2. CallInv(p) /\ req' = req
          BY <2>0, <3>1
        <5>3. call[p].key # None /\ call[p].val # None => Right(call[p].val, call[p].key)'
          BY <4>2, <3>1, <3>2, <5>2 DEF CallInv, Right
        <5>. QED
          BY <4>2, <3>2, <5>1, <5>2, <5>3 DEF CallInv
      <4>. QED
        BY <4>1, <4>2
    <3>6. StoreInv'
      BY <3>1, <2>0, StoreKept
    <3>. QED
      BY <3>1, <3>4, <3>5, <3>6 DEF TypeOK, AnswerInv
  <2>18. ASSUME NEW h \in Hosts, Crash(h) PROVE TypeOK' /\ AnswerInv'
    <3>1. /\ UNCHANGED <<tree, entry, mixed, answered>>
          /\ events' \in 0..MaxEvents /\ lost' \in BOOLEAN
          /\ call' = [p \in Procs |-> IF HostOf[p] = h THEN None ELSE call[p]]
          /\ req' = [p \in Procs |-> IF HostOf[p] = h THEN None ELSE req[p]]
          /\ exec' = [f \in FlightKey |-> IF f.host = h THEN Group!Idle ELSE exec[f]]
      BY <2>18, EventAssumption DEF Crash, Lose, Event, TypeOK
    <3>2. /\ call' \in [Procs -> Call \cup {None}] /\ req' \in [Procs -> Request \cup {None}]
          /\ exec' \in [FlightKey -> [over : BOOLEAN, val : Results \cup {None}]]
      BY <3>1, IdleTyped DEF TypeOK
    <3>3. /\ \A p \in Procs : call'[p] # None => call'[p] = call[p] /\ req'[p] = req[p]
          /\ \A p \in Procs : req'[p] # None => req'[p] = req[p]
          /\ \A f \in FlightKey : exec'[f].val # None => exec'[f] = exec[f]
      BY <3>1, IdleTyped
    <3>4. StoreInv'
      BY <3>1, <3>3, <2>0 DEF StoreInv, Right
    <3>5. ASSUME NEW p \in Procs, call'[p] # None PROVE CallInv(p)'
      <4>1. CallInv(p) /\ call'[p] = call[p] /\ req'[p] = req[p]
        BY <2>0, <3>3, <3>5
      <4>2. FlightOf(p)' = FlightOf(p)
        BY <4>1 DEF FlightOf
      <4>3. call[p].key # None /\ call[p].val # None => Right(call[p].val, call[p].key)'
        BY <4>1, <3>5, <3>1 DEF CallInv, Right
      <4>. QED
        BY <4>1, <4>2, <4>3, <3>1 DEF CallInv
    <3>6. \A p \in Procs : CallInv(p)'
      BY <3>5 DEF CallInv
    <3>. QED
      BY <3>1, <3>2, <3>4, <3>6 DEF TypeOK, AnswerInv
  <2>19. CASE UNCHANGED vars
    BY <2>0, <2>19 DEF vars, TypeOK, AnswerInv, StoreInv, CallInv, Right, FlightOf
  <2>20. ASSUME NEW p \in Procs, Step(p) PROVE TypeOK' /\ AnswerInv'
    <3>1. CASE \E v \in Results : Direct(p, v)
      BY <3>1, <2>4
    <3>2. CASE Direct(p, [query |-> call[p].query, tree |-> tree])
      <4>1. call[p].query \in Queries
        BY <3>2, CallTyped DEF Direct, At
      <4>2. [query |-> call[p].query, tree |-> tree] \in Results
        BY <4>1 DEF TypeOK, Answer, Results
      <4>. QED
        BY <4>2, <3>1, <3>2
    <3>3. CASE Direct(p, Failed)
      BY <3>3, <3>1 DEF Results
    <3>. QED
      BY <2>20, <2>1, <2>2, <2>3, <2>5, <2>6, <2>7, <2>8, <2>9, <2>10, <2>12, <2>13, <2>14,
         <2>15, <2>16, <3>2, <3>3 DEF Step
  <2>. QED
    BY <2>17, <2>18, <2>19, <2>20 DEF Next
<1>. QED
  BY <1>1, <1>2, PTL DEF Spec

\* Every variable keeps its type.
THEOREM TypeCorrect == Spec => []TypeOK
BY AnswerInvariant, PTL

\* A goroutine returns the answer of its query in the state its key was made in,
\* unless somebody edited during a query for that key (cached.go:71-113).
THEOREM AnswersOfState == Spec => []AnswerOfState
<1>1. TypeOK /\ AnswerInv => AnswerOfState
  BY NullAssumption DEF AnswerInv, CallInv, AnswerOfState, At, Right, Results
<1>. QED
  BY <1>1, AnswerInvariant, PTL

-----------------------------------------------------------------------------
\* A leader that goes on and leaves the executions alone stays the only one.
LEMMA LeaderMoves ==
    ASSUME OneLeader, NEW p \in Procs, exec' = exec,
           \A q \in Procs : q # p => call'[q] = call[q],
           Leads(p)' => /\ Leads(p) /\ call[p].step # "forget" /\ call'[p].step # "forget"
                        /\ call'[p].key = call[p].key
    PROVE  OneLeader'
<1>1. \A q \in Procs : Leads(q)' => Leads(q) /\ FlightOf(q)' = FlightOf(q)
  BY DEF Leads, FlightOf
<1>2. ASSUME NEW q \in Procs, Leads(q)' PROVE LeadInv(q)'
  <2>1. Leads(q) /\ LeadInv(q) /\ FlightOf(q)' = FlightOf(q)
    BY <1>1, <1>2 DEF OneLeader
  <2>2. CASE q = p
    BY <2>1, <2>2, <1>2 DEF LeadInv, Leads
  <2>3. CASE q # p
    BY <2>1, <2>3, <1>2 DEF LeadInv, Leads
  <2>. QED
    BY <2>2, <2>3
<1>3. \A q \in Procs : LeadInv(q)'
  BY <1>2 DEF LeadInv
<1>4. \A q, o \in Procs : q # o /\ Leads(q)' /\ Leads(o)' => FlightOf(q)' # FlightOf(o)'
  BY <1>1 DEF OneLeader
<1>. QED
  BY <1>3, <1>4 DEF OneLeader

\* Nothing changes about what has been answered when p neither ends a save nor goes
\* on to a query.
LEMMA AnsweredMoves ==
    ASSUME AnsweredInv, NEW p \in Procs, UNCHANGED <<entry, answered, lost>>,
           \A q \in Procs : q # p => call'[q] = call[q],
           ~At(p, "save"), ~At(p, "query")'
    PROVE  AnsweredInv'
<1>1. \A q \in Procs : q # p => FlightOf(q)' = FlightOf(q)
                              /\ At(q, "save")' = At(q, "save") /\ At(q, "query")' = At(q, "query")
  BY DEF FlightOf, At
<1>2. ASSUME ~lost', NEW f \in answered'
      PROVE  entry'[f.key] # None \/ \E q \in Procs : At(q, "save")' /\ FlightOf(q)' = f
  BY <1>1, <1>2 DEF AnsweredInv
<1>3. ASSUME ~lost', NEW q \in Procs, At(q, "query")' PROVE FlightOf(q)' \notin answered'
  BY <1>1, <1>3 DEF AnsweredInv
<1>. QED
  BY <1>2, <1>3 DEF AnsweredInv

(* A flight has one leader, and while nothing fails, no leader is about to *)
(* ask what its process has had answered (cached.go:87-99, cache.go:76-96).*)
THEOREM OnceInvariant == Spec => []OnceInv
<1>1. Init => OnceInv
  BY DEF Init, OnceInv, OneLeader, AnsweredInv, LeadInv, Leads, At
<1>2. TypeOK /\ AnswerInv /\ OnceInv /\ [Next]_vars => OnceInv'
  <2>. SUFFICES ASSUME TypeOK, AnswerInv, OnceInv, [Next]_vars PROVE OnceInv'
    OBVIOUS
  <2>. USE NullAssumption
  <2>0. /\ OneLeader /\ AnsweredInv
        /\ \A p \in Procs : CallInv(p)
    BY DEF OnceInv, AnswerInv
  <2>1. ASSUME NEW p \in Procs, exec' = exec, UNCHANGED <<entry, answered, lost>>,
               \A q \in Procs : q # p => call'[q] = call[q],
               call'[p] = None \/ call'[p].step \notin Leading, ~At(p, "save")
        PROVE  OnceInv'
    <3>1. ~Leads(p)' /\ ~At(p, "query")'
      BY <2>1 DEF Leads, At, Leading
    <3>. QED
      BY <2>0, <2>1, <3>1, LeaderMoves, AnsweredMoves DEF OnceInv
  <2>2. ASSUME NEW p \in Procs, NEW q \in Queries, Ask(p, q) PROVE OnceInv'
    <3>. DEFINE r == [step |-> "state", query |-> q, key |-> None, val |-> None, calm |-> TRUE]
    <3>1. r.step = "state"
      OBVIOUS
    <3>2. call'[p] = r /\ \A o \in Procs : o # p => call'[o] = call[o]
      BY <2>2 DEF Ask, TypeOK
    <3>. HIDE DEF r
    <3>. QED
      BY <2>1, <2>2, <3>1, <3>2 DEF Ask, At, Leading, flights, history
  <2>3. ASSUME NEW p \in Procs, ReadState(p) PROVE OnceInv'
    <3>. DEFINE k == [state |-> tree, query |-> call[p].query]
                r == [call[p] EXCEPT !.step = "load", !.calm = TRUE, !.key = k]
    <3>1. call[p] # None /\ call[p] \in Call /\ ~At(p, "save")
      BY <2>3, CallTyped DEF ReadState, At
    <3>. HIDE DEF k
    <3>2. r.step = "load"
      BY <3>1 DEF Call
    <3>3. call'[p] = r /\ \A o \in Procs : o # p => call'[o] = call[o]
      BY <2>3 DEF ReadState, TypeOK, k
    <3>. HIDE DEF r
    <3>. QED
      BY <2>1, <2>3, <3>1, <3>2, <3>3 DEF ReadState, Leading, flights, history
  <2>4. ASSUME NEW p \in Procs, NEW v \in Results, Direct(p, v) PROVE OnceInv'
    <3>1. Does(p, "return", v) /\ ~At(p, "save")
      BY <2>4, Got DEF Direct, At, Steps
    <3>. QED
      BY <2>1, <2>4, <3>1 DEF Direct, Does, Leading, flights, history
  <2>5. ASSUME NEW p \in Procs, Load(p) PROVE OnceInv'
    <3>1. call[p] # None /\ call[p].key \in Key /\ ~At(p, "save")
      BY <2>5, <2>0, CallTyped DEF Load, At, CallInv, Keyed
    <3>. PICK st \in {"return", "do"} : \E w : Does(p, st, w)
      <4>. PICK e : e = entry[call[p].key]
        OBVIOUS
      <4>1. e \in Results \cup {None}
        BY <3>1 DEF TypeOK, Results
      <4>. QED
        BY <2>5, <3>1, <4>1, Got, Gone DEF Load, Steps
    <3>2. PICK w : Does(p, st, w)
      OBVIOUS
    <3>. QED
      BY <2>1, <2>5, <3>1, <3>2 DEF Load, Does, Leading, history
  <2>6. ASSUME NEW p \in Procs, Join(p) PROVE OnceInv'
    <3>1. call[p] # None /\ ~At(p, "save") /\ Does(p, "wait", call[p].val)
      BY <2>6, Gone DEF Join, At, Steps
    <3>. QED
      BY <2>1, <2>6, <3>1 DEF Join, Does, Leading, history, Group!Join, Group!Late
  <2>7. ASSUME NEW p \in Procs, DoReturns(p) PROVE OnceInv'
    <3>1. call[p] # None /\ ~At(p, "save") /\ req[p].val \in Results
      BY <2>7 DEF DoReturns, At, Group!Take, TypeOK, Request
    <3>2. Does(p, "return", req[p].val)
      BY <2>7, <3>1, Got DEF DoReturns, Steps
    <3>. QED
      BY <2>1, <2>7, <3>1, <3>2 DEF DoReturns, Does, Leading, history, Group!Take
  <2>8. ASSUME NEW p \in Procs, Return(p) PROVE OnceInv'
    BY <2>1, <2>8 DEF Return, At, TypeOK, flights, history
  <2>9. ASSUME NEW p \in Procs, ReadStateFailed(p) PROVE OnceInv'
    <3>1. call[p] # None /\ ~At(p, "save") /\ Does(p, "direct", call[p].val)
      BY <2>9, Gone DEF ReadStateFailed, At, Steps
    <3>. QED
      BY <2>1, <2>9, <3>1 DEF ReadStateFailed, Does, Leading, flights, history
  <2>10. ASSUME NEW p \in Procs, Lead(p) PROVE OnceInv'
    <3>. PICK f : f = FlightOf(p)
      OBVIOUS
    <3>1. /\ call[p] # None /\ call[p].step = "do" /\ f \in FlightKey
          /\ Does(p, "second", call[p].val)
          /\ exec[f] = Group!Idle /\ exec' = [exec EXCEPT ![f] = Group!Running]
          /\ UNCHANGED <<entry, answered, lost>>
      BY <2>0, <2>10, Gone, CallTyped DEF Lead, At, Steps, CallInv, Keyed, history, Group!Begin
    <3>2. FlightOf(p)' = f
      BY <3>1 DEF Does, FlightOf
    <3>3. ASSUME NEW q \in Procs, q # p, Leads(q)'
          PROVE  LeadInv(q)' /\ FlightOf(q)' # f
      <4>1. Leads(q) /\ LeadInv(q) /\ call'[q] = call[q] /\ FlightOf(q)' = FlightOf(q)
        BY <2>0, <3>1, <3>3 DEF OneLeader, Does, Leads, FlightOf
      <4>2. FlightOf(q) # f
        BY <3>1, <4>1, IdleTyped DEF LeadInv
      <4>3. exec'[FlightOf(q)] = exec[FlightOf(q)]
        BY <3>1, <4>2 DEF TypeOK
      <4>. QED
        BY <4>1, <4>2, <4>3 DEF LeadInv
    <3>4. LeadInv(p)'
      BY <3>1, <3>2 DEF LeadInv, Does, TypeOK
    <3>5. \A q \in Procs : q # p => call'[q] = call[q] /\ FlightOf(q)' = FlightOf(q)
      BY <3>1 DEF Does, FlightOf
    <3>6. OneLeader'
      <4>1. \A q \in Procs : LeadInv(q)'
        BY <3>3, <3>4 DEF LeadInv
      <4>2. ASSUME NEW q \in Procs, NEW o \in Procs, q # o, Leads(q)', Leads(o)'
            PROVE  FlightOf(q)' # FlightOf(o)'
        <5>1. CASE q = p \/ o = p
          BY <3>2, <3>3, <4>2, <5>1
        <5>2. CASE q # p /\ o # p
          <6>1. Leads(q) /\ Leads(o)
            BY <3>5, <4>2, <5>2 DEF Leads
          <6>. QED
            BY <2>0, <3>5, <4>2, <5>2, <6>1 DEF OneLeader
        <5>. QED
          BY <5>1, <5>2
      <4>. QED
        BY <4>1, <4>2 DEF OneLeader
    <3>7. AnsweredInv'
      BY <2>0, <3>1, AnsweredMoves DEF Does, At
    <3>. QED
      BY <3>6, <3>7 DEF OnceInv
  <2>11. ASSUME NEW p \in Procs, SecondLoad(p) PROVE OnceInv'
    <3>. PICK f, k, e, st : /\ f = FlightOf(p) /\ k = call[p].key /\ e = entry[k]
                            /\ st = IF e # None THEN "publish" ELSE "query"
      OBVIOUS
    <3>1. /\ call[p] # None /\ call[p].step = "second" /\ k \in Key /\ f.key = k
          /\ st \in Steps /\ UNCHANGED <<entry, exec, answered, lost>>
      BY <2>0, <2>11, CallTyped DEF SecondLoad, At, Steps, CallInv, Keyed, history, flights
    <3>2. e \in Results \cup {None}
      BY <3>1 DEF TypeOK, Results
    <3>3. Does(p, st, e)
      BY <2>11, <3>1, <3>2, Got DEF SecondLoad
    <3>4. Leads(p) /\ st # "forget"
      BY <3>1 DEF Leads, Leading
    <3>5. OneLeader'
      BY <2>0, <3>1, <3>3, <3>4, LeaderMoves DEF Does
    <3>6. /\ \A q \in Procs : call'[q] # None => FlightOf(q)' = FlightOf(q)
          /\ \A q \in Procs : At(q, "save")' <=> At(q, "save")
          /\ \A q \in Procs : q # p => (At(q, "query")' <=> At(q, "query"))
          /\ At(p, "query")' => e = None
      BY <3>1, <3>3 DEF Does, FlightOf, At
    <3>7. ASSUME ~lost, e = None PROVE f \notin answered
      <4>1. ASSUME NEW q \in Procs, At(q, "save"), FlightOf(q) = f PROVE FALSE
        <5>1. q # p /\ Leads(q)
          BY <3>1, <4>1 DEF At, Leads, Leading
        <5>. QED
          BY <2>0, <3>4, <4>1, <5>1 DEF OneLeader
      <4>. QED
        BY <2>0, <3>1, <3>7, <4>1 DEF AnsweredInv
    <3>8. ASSUME ~lost', NEW g \in answered'
          PROVE  entry'[g.key] # None \/ \E q \in Procs : At(q, "save")' /\ FlightOf(q)' = g
      BY <2>0, <3>1, <3>6, <3>8 DEF AnsweredInv, At
    <3>9. ASSUME ~lost', NEW q \in Procs, At(q, "query")' PROVE FlightOf(q)' \notin answered'
      BY <2>0, <3>1, <3>6, <3>7, <3>9 DEF AnsweredInv, At
    <3>10. AnsweredInv'
      BY <3>8, <3>9 DEF AnsweredInv
    <3>. QED
      BY <3>5, <3>10 DEF OnceInv
  <2>12. ASSUME NEW p \in Procs, Query(p) PROVE OnceInv'
    <3>. PICK f, v : f = FlightOf(p) /\ v = [query |-> call[p].query, tree |-> tree]
      OBVIOUS
    <3>1. /\ call[p] # None /\ call[p].step = "query" /\ call[p].query \in Queries
          /\ UNCHANGED <<entry, exec, lost>> /\ answered' = answered \cup {f}
      BY <2>12, CallTyped DEF Query, At, flights
    <3>2. v \in Results
      BY <3>1 DEF TypeOK, Answer, Results
    <3>3. Does(p, "save", v)
      BY <2>12, <3>1, <3>2, Got DEF Query, Steps
    <3>4. Leads(p)
      BY <3>1 DEF Leads, Leading
    <3>5. OneLeader'
      BY <2>0, <3>1, <3>3, <3>4, LeaderMoves DEF Does
    <3>6. /\ \A q \in Procs : call'[q] # None => FlightOf(q)' = FlightOf(q)
          /\ \A q \in Procs : q # p => (At(q, "save")' <=> At(q, "save"))
                                     /\ (At(q, "query")' <=> At(q, "query"))
          /\ At(p, "save")' /\ ~At(p, "query")' /\ ~At(p, "save") /\ FlightOf(p)' = f
      BY <3>1, <3>3 DEF Does, FlightOf, At
    <3>7. ASSUME ~lost', NEW g \in answered'
          PROVE  entry'[g.key] # None \/ \E q \in Procs : At(q, "save")' /\ FlightOf(q)' = g
      <4>1. CASE g = f
        BY <3>6, <4>1
      <4>2. CASE g \in answered
        BY <2>0, <3>1, <3>6, <3>7, <4>2 DEF AnsweredInv, At
      <4>. QED
        BY <3>1, <3>7, <4>1, <4>2
    <3>8. ASSUME ~lost', NEW q \in Procs, At(q, "query")' PROVE FlightOf(q)' \notin answered'
      <4>1. q # p /\ At(q, "query") /\ FlightOf(q)' = FlightOf(q)
        BY <3>6, <3>8 DEF At
      <4>2. Leads(q)
        BY <4>1 DEF At, Leads, Leading
      <4>3. FlightOf(q) # f
        BY <2>0, <3>4, <4>1, <4>2 DEF OneLeader
      <4>. QED
        BY <2>0, <3>1, <3>8, <4>1, <4>3 DEF AnsweredInv
    <3>9. AnsweredInv'
      BY <3>7, <3>8 DEF AnsweredInv
    <3>. QED
      BY <3>5, <3>9 DEF OnceInv
  <2>13. ASSUME NEW p \in Procs, QueryFailed(p) PROVE OnceInv'
    <3>1. /\ call[p] # None /\ call[p].step = "query" /\ exec' = exec /\ lost' = TRUE
          /\ Failed \in Results
      BY <2>13 DEF QueryFailed, At, flights, Lose, Results
    <3>2. Does(p, "publish", Failed)
      BY <2>13, <3>1, Got DEF QueryFailed, Steps
    <3>3. OneLeader'
      BY <2>0, <3>1, <3>2, LeaderMoves DEF Does, Leads, Leading
    <3>. QED
      BY <3>1, <3>3 DEF OnceInv, AnsweredInv
  <2>14. ASSUME NEW p \in Procs, Save(p) \/ SaveFailed(p) PROVE OnceInv'
    <3>. PICK f, k, w : f = FlightOf(p) /\ k = call[p].key /\ w = call[p].val
      OBVIOUS
    <3>1. /\ call[p] # None /\ call[p].step = "save" /\ exec' = exec /\ k \in Key
          /\ f.key = k /\ w # None /\ Does(p, "publish", w) /\ answered' = answered
      BY <2>0, <2>14, CallTyped, Gone
      DEF Save, SaveFailed, At, flights, history, Lose, Steps, CallInv, Keyed, Results
    <3>2. OneLeader'
      BY <2>0, <3>1, LeaderMoves DEF Does, Leads, Leading
    <3>3. CASE Save(p)
      <4>1. lost' = lost /\ entry' = [entry EXCEPT ![k] = w]
        BY <3>3 DEF Save, history
      <4>2. \A g \in Key : entry[g] # None \/ g = k => entry'[g] # None
        BY <3>1, <4>1 DEF TypeOK
      <4>3. /\ \A q \in Procs : call'[q] # None => FlightOf(q)' = FlightOf(q)
            /\ \A q \in Procs : q # p => (At(q, "save") => At(q, "save")')
            /\ \A q \in Procs : At(q, "query")' => At(q, "query")
        BY <3>1 DEF Does, FlightOf, At
      <4>4. ASSUME ~lost', NEW g \in answered'
            PROVE  entry'[g.key] # None \/ \E q \in Procs : At(q, "save")' /\ FlightOf(q)' = g
        <5>1. g \in answered /\ g.key \in Key
          BY <3>1, <4>4 DEF TypeOK, FlightKey
        <5>. QED
          BY <2>0, <3>1, <4>1, <4>2, <4>3, <4>4, <5>1 DEF AnsweredInv, At
      <4>5. ASSUME ~lost', NEW q \in Procs, At(q, "query")' PROVE FlightOf(q)' \notin answered'
        BY <2>0, <3>1, <4>1, <4>3, <4>5 DEF AnsweredInv, At
      <4>6. AnsweredInv'
        BY <4>4, <4>5 DEF AnsweredInv
      <4>. QED
        BY <3>2, <4>6 DEF OnceInv
    <3>4. CASE SaveFailed(p)
      BY <3>2, <3>4 DEF SaveFailed, Lose, OnceInv, AnsweredInv
    <3>. QED
      BY <2>14, <3>3, <3>4
  <2>15. ASSUME NEW p \in Procs, NEW st \in {"forget", "wait"},
                Does(p, st, call[p].val), Leads(p),
                call[p].step \in {"publish", "forget"},
                UNCHANGED <<entry, answered, lost>>,
                \A g \in FlightKey : g # FlightOf(p) => exec'[g] = exec[g],
                st = "forget" => exec'[FlightOf(p)].val # None
         PROVE  OnceInv'
    <3>1. /\ FlightOf(p)' = FlightOf(p) /\ call'[p].step = st /\ call'[p] # None
          /\ \A q \in Procs : q # p => call'[q] = call[q] /\ FlightOf(q)' = FlightOf(q)
      BY <2>15 DEF Does, FlightOf
    <3>2. \A q \in Procs : Leads(q)' => Leads(q)
      BY <2>15, <3>1 DEF Leads
    <3>3. ASSUME NEW q \in Procs, Leads(q)' PROVE LeadInv(q)'
      <4>1. CASE q = p
        BY <2>15, <3>1, <3>3, <4>1 DEF LeadInv, Leads, Leading
      <4>2. CASE q # p
        <5>1. Leads(q) /\ FlightOf(q) # FlightOf(p) /\ LeadInv(q) /\ FlightOf(q) \in FlightKey
          BY <2>0, <2>15, <3>2, <3>3, <4>2, CallTyped DEF OneLeader, Leads, Leading, CallInv, Keyed
        <5>. QED
          BY <2>15, <3>1, <4>2, <5>1 DEF LeadInv, Leads
      <4>. QED
        BY <4>1, <4>2
    <3>4. \A q \in Procs : LeadInv(q)'
      BY <3>3 DEF LeadInv
    <3>5. \A q, o \in Procs : q # o /\ Leads(q)' /\ Leads(o)' => FlightOf(q)' # FlightOf(o)'
      BY <2>0, <3>1, <3>2 DEF OneLeader
    <3>6. AnsweredInv'
      BY <2>0, <2>15, <3>1, AnsweredMoves DEF At
    <3>. QED
      BY <3>4, <3>5, <3>6 DEF OnceInv, OneLeader
  <2>16. ASSUME NEW p \in Procs, Publish(p) PROVE OnceInv'
    <3>. PICK f, w : f = FlightOf(p) /\ w = call[p].val
      OBVIOUS
    <3>1. /\ call[p] # None /\ call[p].step = "publish" /\ f \in FlightKey
          /\ w \in Results /\ w # None /\ exec' = [exec EXCEPT ![f] = Group!Over(w)]
          /\ UNCHANGED <<entry, answered, lost>> /\ Does(p, "forget", w) /\ Leads(p)
      BY <2>0, <2>16, CallTyped, Gone
      DEF Publish, At, Steps, history, CallInv, Keyed, Group!End, Leads, Leading
    <3>2. exec'[f].val # None /\ \A g \in FlightKey : g # f => exec'[g] = exec[g]
      BY <3>1, IdleTyped DEF TypeOK
    <3>. QED
      BY <2>15, <3>1, <3>2
  <2>17. ASSUME NEW p \in Procs, Forget(p) PROVE OnceInv'
    <3>1. /\ call[p] # None /\ call[p].step = "forget" /\ UNCHANGED <<entry, answered, lost>>
          /\ exec' = [exec EXCEPT ![FlightOf(p)] = Group!Idle]
          /\ Does(p, "wait", call[p].val) /\ Leads(p)
      BY <2>17, Gone DEF Forget, At, Steps, history, Group!Forget, Leads, Leading
    <3>2. \A g \in FlightKey : g # FlightOf(p) => exec'[g] = exec[g]
      BY <3>1 DEF TypeOK
    <3>. QED
      BY <2>15, <3>1, <3>2
  <2>18. ASSUME NEW s \in States, Edit(s) PROVE OnceInv'
    <3>1. UNCHANGED <<entry, exec, answered, lost>>
      BY <2>18 DEF Edit, flights, history
    <3>2. ASSUME NEW p \in Procs, call[p] # None
          PROVE  call'[p] # None /\ call'[p].step = call[p].step /\ call'[p].key = call[p].key
      <4>. DEFINE r == [call[p] EXCEPT !.calm = FALSE]
      <4>1. call'[p] = r /\ call[p] \in Call
        BY <2>18, <3>2, CallTyped DEF Edit
      <4>2. r \in Call /\ r.step = call[p].step /\ r.key = call[p].key
        BY <4>1 DEF Call
      <4>. HIDE DEF r
      <4>. QED
        BY <4>1, <4>2
    <3>3. \A p \in Procs : call[p] = None => call'[p] = None
      BY <2>18 DEF Edit
    <3>4. \A p \in Procs : /\ call[p] # None => FlightOf(p)' = FlightOf(p)
                           /\ Leads(p)' <=> Leads(p)
                           /\ At(p, "save")' <=> At(p, "save")
                           /\ At(p, "query")' <=> At(p, "query")
      BY <3>2, <3>3 DEF FlightOf, Leads, At
    <3>5. OneLeader'
      BY <2>0, <3>1, <3>2, <3>4 DEF OneLeader, LeadInv, Leads
    <3>6. AnsweredInv'
      BY <2>0, <3>1, <3>4 DEF AnsweredInv, At
    <3>. QED
      BY <3>5, <3>6 DEF OnceInv
  <2>19. ASSUME NEW h \in Hosts, Crash(h) PROVE OnceInv'
    <3>1. /\ lost' = TRUE
          /\ call' = [p \in Procs |-> IF HostOf[p] = h THEN None ELSE call[p]]
          /\ exec' = [f \in FlightKey |-> IF f.host = h THEN Group!Idle ELSE exec[f]]
      BY <2>19 DEF Crash, Lose
    <3>2. ASSUME NEW p \in Procs, Leads(p)'
          PROVE  Leads(p) /\ LeadInv(p)' /\ FlightOf(p)' = FlightOf(p)
      <4>1. call'[p] = call[p] /\ HostOf[p] # h /\ Leads(p)
        BY <3>1, <3>2 DEF Leads
      <4>2. FlightOf(p)' = FlightOf(p) /\ FlightOf(p) \in FlightKey /\ FlightOf(p).host = HostOf[p]
        BY <2>0, <4>1, CallTyped DEF FlightOf, Leads, Leading, CallInv, Keyed
      <4>3. exec'[FlightOf(p)] = exec[FlightOf(p)]
        BY <3>1, <4>1, <4>2
      <4>. QED
        BY <2>0, <4>1, <4>2, <4>3 DEF OneLeader, LeadInv
    <3>3. \A p \in Procs : LeadInv(p)'
      BY <3>2 DEF LeadInv
    <3>. QED
      BY <2>0, <3>1, <3>2, <3>3 DEF OnceInv, OneLeader, AnsweredInv
  <2>20. CASE UNCHANGED vars
    BY <2>0, <2>20 DEF vars, OnceInv, OneLeader, AnsweredInv, LeadInv, Leads, At, FlightOf
  <2>21. ASSUME NEW p \in Procs, Step(p) PROVE OnceInv'
    <3>1. CASE Direct(p, [query |-> call[p].query, tree |-> tree]) \/ Direct(p, Failed)
      <4>1. call[p] # None /\ call[p].query \in Queries
        BY <3>1, CallTyped DEF Direct, At
      <4>2. [query |-> call[p].query, tree |-> tree] \in Results /\ Failed \in Results
        BY <4>1 DEF TypeOK, Answer, Results
      <4>. QED
        BY <4>2, <2>4, <3>1
    <3>. QED
      BY <2>21, <2>2, <2>3, <2>5, <2>6, <2>7, <2>8, <2>9, <2>10, <2>11, <2>12, <2>13, <2>14,
         <2>16, <2>17, <3>1 DEF Step
  <2>. QED
    BY <2>18, <2>19, <2>20, <2>21 DEF Next
<1>. QED
  BY <1>1, <1>2, AnswerInvariant, PTL DEF Spec

\* While nothing fails, a process has a query of a key answered once
\* (cached.go:87-99: the second Load).
THEOREM OneQuery == Spec => OneQueryPerKey
<1>1. OnceInv /\ [Next]_vars =>
        [\A p \in Procs : At(p, "query") /\ call'[p] # None /\ call'[p].step = "save"
                            => FlightOf(p) \notin answered \/ lost]_vars
  BY DEF OnceInv, AnsweredInv
<1>. QED
  BY <1>1, OnceInvariant, PTL DEF Spec, OneQueryPerKey
=============================================================================
