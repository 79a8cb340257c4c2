------------------------- MODULE ContextDeltaProofs -------------------------
(***************************************************************************)
(* What holds of CompileCached and CompileDelta for any number of states,  *)
(* files, tasks, intents and requests, whatever is edited, fails or is     *)
(* lost.                                                                   *)
(***************************************************************************)
EXTENDS ContextDelta, TLAPS

Whole == {"save", "session", "store", "answered"}

\* What a request knows: a key is of its task, and while nothing disturbs it its
\* packet is, or is about to be, the one of its key.
CallInv(c) ==
    call[c] # None =>
        /\ call[c].step \in {"state", "load"} => call[c].key = NoKey
        /\ call[c].step = "load" => born /\ call[c].sid \in States
        /\ call[c].step = "load" /\ ~disturbed => call[c].sid = state
        /\ call[c].step = "save" => call[c].key # NoKey
        /\ call[c].key # NoKey => born
        /\ call[c].key # NoKey /\ ~disturbed =>
             /\ call[c].step \in {"git", "rest"} => call[c].key = Key(state, call[c].task, intents)
             /\ call[c].step = "rest" =>
                  call[c].packet.changed = Changed[state] /\ call[c].packet.diff = state
             /\ call[c].step \in Whole => call[c].packet = PacketOf(call[c].key)

PacketInv ==
    /\ CacheSound
    /\ \A c \in Calls : CallInv(c)
    /\ session \notin {None, Torn} /\ session.key # NoKey /\ ~disturbed =>
         session.packet = PacketOf(session.key)

\* A full answer, "no changes", or the differences from what the client has.
Answers(c) ==
    LET d == call[c].delta IN
    \/ /\ d.full /\ ~d.same /\ d.add = call[c].packet
       /\ At(c, "answered") => session = Current(c)
    \/ /\ ~d.full /\ d.same /\ At(c, "answered")
       /\ session # None /\ session.key = call[c].key
    \/ /\ ~d.full /\ ~d.same /\ view # None
       /\ d.add = Minus(call[c].packet, view) /\ d.cut = Minus(view, call[c].packet)
       /\ At(c, "answered") => session = Current(c)

\* The client has the session's packet, or will have it with the next answer.
ViewInv ==
    ~lapsed =>
        /\ \A c, d \in Calls : call[c] # None /\ call[d] # None => c = d
        /\ session # Torn
        /\ \A c \in Calls : At(c, "store") \/ At(c, "answered") => Answers(c)
        /\ (\A c \in Calls : At(c, "answered") => call[c].delta.same) =>
             view = IF session = None THEN None ELSE session.packet
-----------------------------------------------------------------------------
LEMMA CallTyped ==
    ASSUME TypeOK, NEW c \in Calls, call[c] # None
    PROVE  /\ call[c] \in Call /\ call[c].packet \in Packet /\ call[c].delta \in Delta
           /\ call[c].step \in Steps /\ call[c].task \in Tasks
           /\ call[c].sid \in States \cup {None} /\ call[c].key \in Keys \cup {NoKey}
BY DEF TypeOK, Call

LEMMA Put ==
    ASSUME TypeOK, NEW c \in Calls, NEW r \in Call \cup {None},
           call' = [call EXCEPT ![c] = r]
    PROVE  /\ call' \in [Calls -> Call \cup {None}] /\ call'[c] = r
           /\ \A d \in Calls : d # c => call'[d] = call[d]
BY DEF TypeOK

LEMMA NoTyped == NoPacket \in Packet /\ NoDelta \in Delta /\ NoDelta.full = FALSE /\ NoDelta.same = FALSE
<1>1. NoPacket \in Packet
  BY DEF NoPacket, Packet
<1>2. FALSE \in BOOLEAN
  OBVIOUS
<1>3. NoDelta \in Delta
  BY <1>1, <1>2 DEF NoDelta, Delta
<1>. QED
  BY <1>1, <1>3 DEF NoDelta

\* A key of the repository's state is none of no state.
LEMMA KeyTyped ==
    ASSUME NEW s \in States, NEW t \in Tasks, NEW is \in SUBSET Intents
    PROVE  Key(s, t, is) \in Keys /\ Key(s, t, is) # NoKey
BY NullAssumption DEF Key, Keys, NoKey

LEMMA PacketTyped ==
    ASSUME NEW k \in Keys
    PROVE  PacketOf(k) \in Packet
BY DataAssumption DEF PacketOf, Keys, Packet

\* Compile goes on with what git said, and with the intents and the map.
GitGoes(c, fs, s) ==
    call' = [call EXCEPT ![c].packet.changed = fs, ![c].packet.diff = s, ![c].step = "rest"]
RestGoes(c, fs, is, st) ==
    call' = [call EXCEPT ![c].packet.intents = is, ![c].packet.relevant = fs, ![c].step = st]

LEMMA GitRead ==
    ASSUME TypeOK, NEW c \in Calls, call[c] # None, NEW fs \in SUBSET Files, NEW s \in States,
           GitGoes(c, fs, s)
    PROVE  \E r \in Call :
             /\ call' = [call EXCEPT ![c] = r] /\ r # None
             /\ r.step = "rest" /\ r.key = call[c].key /\ r.task = call[c].task
             /\ r.packet.changed = fs /\ r.packet.diff = s
<1>. DEFINE q == [call[c].packet EXCEPT !.changed = fs, !.diff = s]
            r == [call[c] EXCEPT !.packet = q, !.step = "rest"]
<1>1. call[c] \in Call /\ call[c].packet \in Packet
  BY CallTyped
<1>2. q \in Packet /\ q.changed = fs /\ q.diff = s
  BY <1>1 DEF Packet
<1>3. call' = [call EXCEPT ![c] = r]
  BY <1>1 DEF TypeOK, Call, Packet, GitGoes
<1>. HIDE DEF q
<1>4. /\ r \in Call /\ r.step = "rest" /\ r.key = call[c].key /\ r.task = call[c].task
      /\ r.packet = q
  BY <1>1, <1>2 DEF Call, Steps
<1>5. r # None
  BY <1>4, NullAssumption
<1>. HIDE DEF r
<1>. QED
  BY <1>2, <1>3, <1>4, <1>5

LEMMA RestRead ==
    ASSUME TypeOK, NEW c \in Calls, call[c] # None, NEW fs \in SUBSET Files,
           NEW is \in SUBSET Intents, NEW st \in Steps,
           RestGoes(c, fs, is, st)
    PROVE  \E r \in Call :
             /\ call' = [call EXCEPT ![c] = r] /\ r # None
             /\ r.step = st /\ r.key = call[c].key /\ r.task = call[c].task
             /\ r.packet.changed = call[c].packet.changed /\ r.packet.diff = call[c].packet.diff
             /\ r.packet.intents = is /\ r.packet.relevant = fs
<1>. DEFINE q == [call[c].packet EXCEPT !.intents = is, !.relevant = fs]
            r == [call[c] EXCEPT !.packet = q, !.step = st]
<1>1. call[c] \in Call /\ call[c].packet \in Packet
  BY CallTyped
<1>2. /\ q \in Packet /\ q.intents = is /\ q.relevant = fs
      /\ q.changed = call[c].packet.changed /\ q.diff = call[c].packet.diff
  BY <1>1 DEF Packet
<1>3. call' = [call EXCEPT ![c] = r]
  BY <1>1 DEF TypeOK, Call, Packet, RestGoes
<1>. HIDE DEF q
<1>4. /\ r \in Call /\ r.step = st /\ r.key = call[c].key /\ r.task = call[c].task
      /\ r.packet = q
  BY <1>1, <1>2 DEF Call, Steps
<1>5. r # None
  BY <1>4, NullAssumption
<1>. HIDE DEF r
<1>. QED
  BY <1>2, <1>3, <1>4, <1>5

\* The answer is decided.
DeltaGoes(c, d, st) == call' = [call EXCEPT ![c].delta = d, ![c].step = st]

LEMMA DeltaRead ==
    ASSUME TypeOK, NEW c \in Calls, call[c] # None, NEW d \in Delta, NEW st \in Steps,
           DeltaGoes(c, d, st)
    PROVE  \E r \in Call :
             /\ call' = [call EXCEPT ![c] = r] /\ r # None
             /\ r.step = st /\ r.key = call[c].key /\ r.task = call[c].task
             /\ r.packet = call[c].packet /\ r.delta = d
<1>. DEFINE r == [call[c] EXCEPT !.delta = d, !.step = st]
<1>1. call[c] \in Call
  BY CallTyped
<1>2. call' = [call EXCEPT ![c] = r]
  BY DEF TypeOK, DeltaGoes
<1>3. /\ r \in Call /\ r.step = st /\ r.key = call[c].key /\ r.task = call[c].task
      /\ r.packet = call[c].packet /\ r.delta = d
  BY <1>1 DEF Call
<1>4. r # None
  BY <1>3, NullAssumption
<1>. HIDE DEF r
<1>. QED
  BY <1>2, <1>3, <1>4

LEMMA DeltaTyped ==
    ASSUME NEW p \in Packet
    PROVE  /\ [NoDelta EXCEPT !.full = TRUE, !.add = p] \in Delta
           /\ [NoDelta EXCEPT !.full = TRUE, !.add = p].full
           /\ ~[NoDelta EXCEPT !.full = TRUE, !.add = p].same
           /\ [NoDelta EXCEPT !.full = TRUE, !.add = p].add = p
           /\ [NoDelta EXCEPT !.same = TRUE] \in Delta
           /\ [NoDelta EXCEPT !.same = TRUE].same /\ ~[NoDelta EXCEPT !.same = TRUE].full
BY NoTyped DEF Delta

LEMMA LimitedTyped ==
    ASSUME NEW d \in Delta
    PROVE  Limited(d) \subseteq Delta
<1>. SUFFICES ASSUME NEW l \in Limited(d) PROVE l \in Delta
  OBVIOUS
<1>1. d.add \in Packet /\ d.cut \in Packet
  BY DEF Delta
<1>a. PICK add \in FirstOf(d.add.relevant), cut \in FirstOf(d.cut.relevant) :
        l = Showing(d, add, cut)
  BY DEF Limited
<1>b. d.add.relevant \subseteq Files /\ d.cut.relevant \subseteq Files
  BY <1>1 DEF Packet
<1>c. \A fs : \A gs \in FirstOf(fs) : gs \subseteq fs
  BY DEF FirstOf
<1>d. add \subseteq d.add.relevant /\ cut \subseteq d.cut.relevant
  BY <1>c
<1>2. add \subseteq Files /\ cut \subseteq Files
  BY <1>b, <1>d
<1>. DEFINE a == [d.add EXCEPT !.relevant = add]
            b == [d.cut EXCEPT !.relevant = cut]
<1>3. a \in Packet /\ b \in Packet
  BY <1>1, <1>2 DEF Packet
<1>4. l = [d EXCEPT !.add = a, !.cut = b]
  BY <1>a DEF Delta, Showing
<1>. HIDE DEF a, b
<1>. QED
  BY <1>3, <1>4 DEF Delta

\* Requests that do not move know what they knew.
LEMMA OtherCalls ==
    ASSUME PacketInv, NEW c \in Calls, UNCHANGED <<born, state, intents>>,
           disturbed => disturbed', \A d \in Calls : d # c => call'[d] = call[d]
    PROVE  \A d \in Calls : d # c => CallInv(d)'
<1>. SUFFICES ASSUME NEW d \in Calls, d # c PROVE CallInv(d)'
  OBVIOUS
<1>1. CallInv(d) /\ call'[d] = call[d]
  BY DEF PacketInv
<1>2. call[d] # None => PacketOf(call[d].key)' = PacketOf(call[d].key)
  BY <1>1 DEF PacketOf
<1>. QED
  BY <1>1, <1>2 DEF CallInv, Key

\* The client's view only depends on the request that moves: it is alone.
LEMMA ViewOf ==
    ASSUME ViewInv, NEW c \in Calls, \A d \in Calls : d # c => call'[d] = call[d],
           ~lapsed' =>
             /\ ~lapsed /\ session' # Torn
             /\ call[c] = None => \A d \in Calls : call[d] = None
             /\ At(c, "store")' \/ At(c, "answered")' => Answers(c)'
             /\ (At(c, "answered")' => call'[c].delta.same) =>
                  view' = IF session' = None THEN None ELSE session'.packet
    PROVE  ViewInv'
<1>. SUFFICES ASSUME ~lapsed' PROVE ViewInv'
  BY DEF ViewInv
<1>1. \A d \in Calls : d # c => call'[d] = None
  BY DEF ViewInv
<1>2. \A d \in Calls : At(d, "store")' \/ At(d, "answered")' => d = c
  BY <1>1 DEF At
<1>. QED
  BY <1>1, <1>2 DEF ViewInv

LEMMA PacketKept ==
    ASSUME PacketInv, NEW c \in Calls, UNCHANGED <<born, state, intents, cache, session>>,
           disturbed => disturbed', \A d \in Calls : d # c => call'[d] = call[d], CallInv(c)'
    PROVE  PacketInv'
<1>1. \A d \in Calls : CallInv(d)'
  BY OtherCalls
<1>2. CacheSound' /\ (session' \notin {None, Torn} /\ session'.key # NoKey /\ ~disturbed' =>
                        session'.packet = PacketOf(session.key)')
  BY DEF PacketInv, CacheSound, PacketOf
<1>. QED
  BY <1>1, <1>2 DEF PacketInv

\* A request that neither had an answer nor gets one.
LEMMA ViewKept ==
    ASSUME ViewInv, NEW c \in Calls, call[c] # None, UNCHANGED <<session, view>>, lapsed' = lapsed,
           \A d \in Calls : d # c => call'[d] = call[d],
           ~At(c, "answered"), ~At(c, "answered")', ~At(c, "store")'
    PROVE  ViewInv'
<1>1. ~lapsed => /\ session # Torn
                 /\ view = IF session = None THEN None ELSE session.packet
  BY DEF ViewInv, At
<1>. QED
  BY <1>1, ViewOf

\* The differences, taken to what they were taken from, give what they lead to.
LEMMA MinusPlus ==
    ASSUME NEW p \in Packet, NEW q \in Packet, NEW d,
           d.add = Minus(p, q), d.cut = Minus(q, p)
    PROVE  Plus(q, d) = p
BY DEF Packet, Minus, Plus

LEMMA MinusTyped ==
    ASSUME NEW p \in Packet, NEW q \in Packet
    PROVE  Minus(p, q) \in Packet
BY DEF Packet, Minus

(* Types, that the cache holds what compiling gives, and that the client   *)
(* is in step (cache.go:29-53, delta.go:52-114).                           *)
THEOREM DeltaInvariant == Spec => [](TypeOK /\ PacketInv /\ ViewInv)
<1>. USE NullAssumption
<1>. DEFINE Inv == TypeOK /\ PacketInv /\ ViewInv
<1>1. Init => Inv
  <2>. SUFFICES ASSUME Init PROVE Inv
    OBVIOUS
  <2>1. lapsed \in BOOLEAN /\ disturbed \in BOOLEAN /\ born \in BOOLEAN
    BY DEF Init
  <2>2. TypeOK
    BY <2>1, BoundAssumption DEF Init, TypeOK
  <2>3. PacketInv
    BY DEF Init, PacketInv, CacheSound, CallInv
  <2>4. ViewInv
    BY DEF Init, ViewInv, At
  <2>. QED
    BY <2>2, <2>3, <2>4
<1>2. Inv /\ [Next]_vars => Inv'
  <2>. SUFFICES ASSUME TypeOK, PacketInv, ViewInv, [Next]_vars PROVE Inv'
    OBVIOUS
  <2>0. CacheSound /\ \A c \in Calls : CallInv(c)
    BY DEF PacketInv
  <2>1. ASSUME Change, UNCHANGED <<call, cache, session, view>>,
               state' \in States, intents' \subseteq Intents, born' \in BOOLEAN, born => born'
        PROVE  Inv'
    <3>1. /\ UNCHANGED <<lapsed, requests>> /\ events' \in 0..MaxEvents
          /\ disturbed' \in BOOLEAN /\ (disturbed => disturbed')
          /\ ~disturbed' => \A c \in Calls : ~Compiling(c)
      <4>1. UNCHANGED <<lapsed, requests>> /\ events' \in 0..MaxEvents
        BY <2>1, BoundAssumption DEF Change, Event, TypeOK
      <4>2. disturbed' = (disturbed \/ \E c \in Calls : Compiling(c))
        BY <2>1 DEF Change
      <4>3. disturbed' \in BOOLEAN
        BY <4>2, Zenon
      <4>. QED
        BY <4>1, <4>2, <4>3
    <3>2. ASSUME NEW c \in Calls PROVE CallInv(c)'
      <4>1. call[c] # None => PacketOf(call[c].key)' = PacketOf(call[c].key)
        BY <2>1 DEF PacketOf
      <4>2. CallInv(c)
        BY <2>0
      <4>. QED
        BY <2>1, <3>1, <4>1, <4>2 DEF CallInv, Compiling
    <3>3. CacheSound' /\ (session' \notin {None, Torn} /\ session'.key # NoKey /\ ~disturbed' =>
                            session'.packet = PacketOf(session.key)')
      BY <2>1, <3>1 DEF PacketInv, CacheSound, PacketOf
    <3>4. ViewInv'
      BY <2>1, <3>1 DEF ViewInv, At, Answers, Current
    <3>5. TypeOK'
      BY <2>1, <3>1 DEF TypeOK
    <3>. QED
      BY <3>2, <3>3, <3>4, <3>5 DEF PacketInv
  <2>2. ASSUME NEW s \in States, Edit(s) PROVE Inv'
    BY <2>1, <2>2 DEF Edit, Change, TypeOK
  <2>3. ASSUME FirstCommit PROVE Inv'
    BY <2>1, <2>3 DEF FirstCommit, Change, TypeOK
  <2>4. ASSUME NEW i \in Intents, AddIntent(i) PROVE Inv'
    BY <2>1, <2>4 DEF AddIntent, Change, TypeOK
  <2>5. ASSUME NEW c \in Calls, NEW t \in Tasks, Request(c, t) PROVE Inv'
    <3>. DEFINE r == [step |-> "state", task |-> t, sid |-> None, key |-> NoKey,
                      packet |-> NoPacket, delta |-> NoDelta]
    <3>1. r.step = "state" /\ r.key = NoKey /\ r \in Call
      BY NoTyped DEF Call, Steps
    <3>2. call' = [call EXCEPT ![c] = r] /\ call[c] = None
      BY <2>5 DEF Request
    <3>. HIDE DEF r
    <3>3. /\ UNCHANGED <<born, state, intents, events, cache, session, view, disturbed>>
          /\ requests' \in 0..MaxRequests /\ lapsed' \in BOOLEAN
          /\ ~lapsed' => ~lapsed /\ \A d \in Calls : call[d] = None
      <4>1. /\ UNCHANGED <<born, state, intents, events, cache, session, view, disturbed>>
            /\ requests' \in 0..MaxRequests
        BY <2>5, BoundAssumption DEF Request, project, TypeOK
      <4>2. lapsed' = (lapsed \/ \E d \in Calls : call[d] # None)
        BY <2>5 DEF Request
      <4>3. lapsed' \in BOOLEAN
        BY <4>2, Zenon
      <4>. QED
        BY <4>1, <4>2, <4>3
    <3>4. /\ call' \in [Calls -> Call \cup {None}] /\ call'[c] = r
          /\ \A d \in Calls : d # c => call'[d] = call[d]
      BY <3>1, <3>2, Put
    <3>5. PacketInv'
      BY <3>1, <3>3, <3>4, PacketKept DEF CallInv, Whole
    <3>6. ViewInv'
      BY <3>1, <3>3, <3>4, ViewOf DEF ViewInv, At
    <3>. QED
      BY <3>3, <3>4, <3>5, <3>6 DEF TypeOK
  <2>6. ASSUME NEW c \in Calls, NEW r \in Call, call[c] # None, r # None,
               call' = [call EXCEPT ![c] = r],
               UNCHANGED <<born, state, intents, requests, cache, session, view, lapsed>>,
               disturbed' \in BOOLEAN, disturbed => disturbed', events' \in 0..MaxEvents,
               ~At(c, "answered"), r.step \notin {"store", "answered"},
               CallInv(c)'
        PROVE  Inv'
    <3>1. /\ call' \in [Calls -> Call \cup {None}] /\ call'[c] = r
          /\ \A d \in Calls : d # c => call'[d] = call[d]
      BY <2>6, Put
    <3>2. TypeOK'
      BY <2>6, <3>1 DEF TypeOK
    <3>3. PacketInv'
      BY <2>6, <3>1, PacketKept
    <3>4. ViewInv'
      BY <2>6, <3>1, ViewKept DEF At
    <3>. QED
      BY <3>2, <3>3, <3>4
  <2>7. ASSUME NEW c \in Calls, ReadState(c) PROVE Inv'
    <3>1. /\ call[c] # None /\ call[c] \in Call /\ call[c].step = "state"
          /\ UNCHANGED <<born, state, intents, requests, cache, session, view, lapsed, disturbed>>
          /\ call[c].key = NoKey /\ ~At(c, "answered")
      BY <2>0, <2>7, CallTyped DEF ReadState, At, project, CallInv
    <3>2. CASE born /\ call' = [call EXCEPT ![c].sid = state, ![c].step = "load"] /\ events' = events
      <4>. DEFINE r == [call[c] EXCEPT !.sid = state, !.step = "load"]
      <4>1. call' = [call EXCEPT ![c] = r]
        BY <3>2 DEF TypeOK
      <4>2. state \in States
        BY DEF TypeOK
      <4>3. r \in Call /\ r.step = "load" /\ r.sid = state /\ r.key = NoKey
        BY <3>1, <4>2 DEF Call, Steps
      <4>4. r # None
        BY <4>3
      <4>. HIDE DEF r
      <4>5. call'[c] = r
        BY <4>1, <4>3, Put
      <4>6. CallInv(c)'
        BY <3>1, <3>2, <4>2, <4>3, <4>5 DEF CallInv, Whole
      <4>. QED
        BY <2>6, <3>1, <3>2, <4>1, <4>3, <4>4, <4>6 DEF TypeOK
    <3>3. CASE /\ call' = [call EXCEPT ![c].sid = None, ![c].step = "git"]
               /\ IF born THEN Event ELSE UNCHANGED events
      <4>. DEFINE r == [call[c] EXCEPT !.sid = None, !.step = "git"]
      <4>1. call' = [call EXCEPT ![c] = r]
        BY <3>3 DEF TypeOK
      <4>2. events' \in 0..MaxEvents
        BY <3>3, BoundAssumption DEF TypeOK, Event
      <4>3. r \in Call /\ r.step = "git" /\ r.key = NoKey
        BY <3>1 DEF Call, Steps
      <4>4. r # None
        BY <4>3
      <4>. HIDE DEF r
      <4>5. call'[c] = r
        BY <4>1, <4>3, Put
      <4>6. CallInv(c)'
        BY <3>1, <4>3, <4>5 DEF CallInv, Whole
      <4>. QED
        BY <2>6, <3>1, <4>1, <4>2, <4>3, <4>4, <4>6 DEF TypeOK
    <3>. QED
      BY <2>7, <3>2, <3>3 DEF ReadState
  <2>8. ASSUME NEW c \in Calls, LoadPacket(c) PROVE Inv'
    <3>. PICK key, e, w : /\ key = Key(call[c].sid, call[c].task, intents)
                          /\ e = cache[key]
                          /\ w = IF e = None THEN call[c].packet ELSE e
      OBVIOUS
    <3>. PICK st : st = IF e = None THEN "git" ELSE "session"
      OBVIOUS
    <3>. DEFINE r == [call[c] EXCEPT !.key = key, !.packet = w, !.step = st]
    <3>1. /\ call[c] # None /\ call[c] \in Call /\ call[c].step = "load"
          /\ UNCHANGED <<born, state, intents, events, requests, cache, session, view, lapsed,
                         disturbed>>
          /\ born /\ (~disturbed => call[c].sid = state) /\ ~At(c, "answered")
          /\ call[c].sid \in States /\ call[c].task \in Tasks /\ call[c].packet \in Packet
      BY <2>0, <2>8, CallTyped DEF LoadPacket, At, project, CallInv
    <3>2. key \in Keys /\ key # NoKey
      BY <3>1, KeyTyped DEF TypeOK
    <3>3. e \in Packet \cup {None} /\ w \in Packet
      BY <3>1, <3>2 DEF TypeOK
    <3>4. ~disturbed /\ e # None => w = PacketOf(key)
      BY <2>0, <3>2 DEF CacheSound
    <3>5. call' = [call EXCEPT ![c] = r]
      BY <2>8, <3>1 DEF LoadPacket, TypeOK, Call
    <3>6. /\ r \in Call /\ r.step = st /\ r.key = key /\ r.packet = w /\ r.task = call[c].task
      BY <3>1, <3>2, <3>3 DEF Call, Steps
    <3>7. r # None
      BY <3>6
    <3>. HIDE DEF r
    <3>8. call'[c] = r
      BY <3>5, <3>6, Put
    <3>9. PacketOf(key)' = PacketOf(key)
      BY <3>1 DEF PacketOf
    <3>10. CallInv(c)'
      BY <3>1, <3>2, <3>4, <3>6, <3>8, <3>9 DEF CallInv, Whole
    <3>. QED
      BY <2>6, <3>1, <3>5, <3>6, <3>7, <3>10 DEF TypeOK
  <2>9. ASSUME NEW c \in Calls, CompileGit(c) PROVE Inv'
    <3>1. /\ call[c] # None /\ call[c] \in Call /\ call[c].step = "git"
          /\ UNCHANGED <<born, state, intents, requests, cache, session, view, lapsed>>
          /\ call[c].key \in Keys \cup {NoKey} /\ call[c].task \in Tasks /\ ~At(c, "answered")
          /\ (call[c].key # NoKey => born)
          /\ call[c].key # NoKey /\ ~disturbed => call[c].key = Key(state, call[c].task, intents)
      BY <2>0, <2>9, CallTyped DEF CompileGit, At, project, CallInv
    <3>2. CASE /\ born
               /\ call' = [call EXCEPT ![c].packet.changed = Changed[state],
                                       ![c].packet.diff = state, ![c].step = "rest"]
               /\ UNCHANGED <<events, disturbed>>
      <4>. PICK fs, s : fs = Changed[state] /\ s = state
        OBVIOUS
      <4>1. /\ fs \in SUBSET Files /\ s \in States
            /\ GitGoes(c, fs, s)
        BY <3>2, DataAssumption DEF TypeOK, GitGoes
      <4>2. PICK r \in Call :
              /\ call' = [call EXCEPT ![c] = r] /\ r # None
              /\ r.step = "rest" /\ r.key = call[c].key /\ r.task = call[c].task
              /\ r.packet.changed = fs /\ r.packet.diff = s
        BY <3>1, <4>1, GitRead
      <4>3. call'[c] = r
        BY <4>2, Put
      <4>4. CallInv(c)'
        BY <3>1, <3>2, <4>2, <4>3 DEF CallInv, Whole, Key
      <4>. QED
        BY <2>6, <3>1, <3>2, <4>2, <4>4 DEF TypeOK
    <3>3. CASE /\ call' = [call EXCEPT ![c].step = "rest"]
               /\ IF born THEN Event ELSE UNCHANGED events
               /\ disturbed' = (disturbed \/ born)
      <4>. DEFINE r == [call[c] EXCEPT !.step = "rest"]
      <4>1. call' = [call EXCEPT ![c] = r]
        BY <3>3 DEF TypeOK
      <4>2. events' \in 0..MaxEvents
        BY <3>3, BoundAssumption DEF TypeOK, Event
      <4>3. r \in Call /\ r.step = "rest" /\ r.key = call[c].key
        BY <3>1 DEF Call, Steps
      <4>4. r # None
        BY <4>3
      <4>. HIDE DEF r
      <4>5. call'[c] = r
        BY <4>1, <4>3, Put
      <4>6. disturbed' = (disturbed \/ born)
        BY <3>3
      <4>7. disturbed' \in BOOLEAN
        BY <4>6, Zenon
      <4>8. CallInv(c)'
        BY <3>1, <4>3, <4>5, <4>6 DEF CallInv, Whole
      <4>. QED
        BY <2>6, <3>1, <4>1, <4>2, <4>3, <4>4, <4>6, <4>7, <4>8
    <3>. QED
      BY <2>9, <3>2, <3>3 DEF CompileGit
  <2>10. ASSUME NEW c \in Calls, CompileRest(c) PROVE Inv'
    <3>. PICK key, task, fs : /\ key = call[c].key /\ task = call[c].task
                              /\ fs = Relevant[call[c].task][state]
      OBVIOUS
    <3>. PICK st : st = IF key = NoKey THEN "session" ELSE "save"
      OBVIOUS
    <3>1. /\ call[c] # None /\ call[c] \in Call /\ call[c].step = "rest"
          /\ UNCHANGED <<born, state, intents, requests, cache, session, view, lapsed>>
          /\ call[c].packet \in Packet /\ task \in Tasks /\ ~At(c, "answered")
          /\ state \in States /\ intents \in SUBSET Intents
          /\ (key # NoKey => born)
          /\ key # NoKey /\ ~disturbed =>
               /\ key = Key(state, task, intents)
               /\ call[c].packet.changed = Changed[state] /\ call[c].packet.diff = state
      BY <2>0, <2>10, CallTyped DEF CompileRest, At, project, CallInv, TypeOK
    <3>2. PICK built \in BOOLEAN :
            /\ call' = [call EXCEPT ![c].packet.intents = intents,
                          ![c].packet.relevant = IF built THEN fs ELSE {}, ![c].step = st]
            /\ IF built THEN UNCHANGED events ELSE Event
            /\ disturbed' = (disturbed \/ ~built)
      BY <2>10 DEF CompileRest
    <3>3. fs \in SUBSET Files
      BY <3>1, DataAssumption
    <3>. PICK gs, is : gs = (IF built THEN fs ELSE {}) /\ is = intents
      OBVIOUS
    <3>4. /\ gs \in SUBSET Files /\ is \in SUBSET Intents
          /\ st \in Steps /\ st \notin {"store", "answered"}
      BY <3>1, <3>3 DEF Steps
    <3>5. RestGoes(c, gs, is, st)
      BY <3>2 DEF RestGoes
    <3>6. PICK r \in Call :
            /\ call' = [call EXCEPT ![c] = r] /\ r # None
            /\ r.step = st /\ r.key = key /\ r.task = task
            /\ r.packet.changed = call[c].packet.changed /\ r.packet.diff = call[c].packet.diff
            /\ r.packet.intents = is /\ r.packet.relevant = gs
      BY <3>1, <3>4, <3>5, RestRead
    <3>7. call'[c] = r
      BY <3>6, Put
    <3>8. disturbed' \in BOOLEAN /\ (disturbed => disturbed') /\ (~disturbed' => built)
      <4>1. disturbed' = (disturbed \/ ~built)
        BY <3>2
      <4>2. disturbed' \in BOOLEAN
        BY <4>1, Zenon
      <4>. QED
        BY <4>1, <4>2
    <3>9. events' \in 0..MaxEvents
      BY <3>2, BoundAssumption DEF TypeOK, Event
    <3>10. key # NoKey /\ ~disturbed' => r.packet = PacketOf(key)
      <4>1. SUFFICES ASSUME key # NoKey, ~disturbed' PROVE r.packet = PacketOf(key)
        OBVIOUS
      <4>2. /\ key.state = state /\ key.task = task /\ key.intents = is /\ gs = fs
            /\ call[c].packet.changed = Changed[state] /\ call[c].packet.diff = state
        BY <3>1, <3>8, <4>1 DEF Key
      <4>. QED
        BY <3>1, <3>6, <4>2 DEF PacketOf, Packet, Call
    <3>11. PacketOf(key)' = PacketOf(key)
      BY <3>1 DEF PacketOf
    <3>12. CallInv(c)'
      BY <3>1, <3>6, <3>7, <3>8, <3>10, <3>11 DEF CallInv, Whole
    <3>. QED
      BY <2>6, <3>1, <3>4, <3>6, <3>8, <3>9, <3>12
  <2>11. ASSUME NEW c \in Calls, SavePacket(c) PROVE Inv'
    <3>. DEFINE r == [call[c] EXCEPT !.step = "session"]
    <3>. PICK key, p : key = call[c].key /\ p = call[c].packet
      OBVIOUS
    <3>1. /\ call[c] # None /\ call[c] \in Call /\ call[c].step = "save"
          /\ UNCHANGED <<born, state, intents, requests, session, view, lapsed, disturbed>>
          /\ p \in Packet /\ key \in Keys /\ key # NoKey /\ born /\ ~At(c, "answered")
          /\ (~disturbed => p = PacketOf(key))
          /\ call' = [call EXCEPT ![c].step = "session"]
      BY <2>0, <2>11, CallTyped DEF SavePacket, At, project, CallInv, Whole
    <3>2. call' = [call EXCEPT ![c] = r]
      BY <3>1 DEF TypeOK
    <3>3. r \in Call /\ r.step = "session" /\ r.key = key /\ r.packet = p /\ r.task = call[c].task
      BY <3>1 DEF Call, Steps
    <3>4. r # None
      BY <3>3
    <3>. HIDE DEF r
    <3>5. /\ call' \in [Calls -> Call \cup {None}] /\ call'[c] = r
          /\ \A d \in Calls : d # c => call'[d] = call[d]
      BY <3>2, <3>3, Put
    <3>6. events' \in 0..MaxEvents
      BY <2>11, BoundAssumption DEF SavePacket, TypeOK, Event
    <3>7. PICK e \in {p, None, cache[key]} : cache' = [cache EXCEPT ![key] = e]
      BY <2>11, <3>1 DEF SavePacket, TypeOK
    <3>8. cache' \in [Keys -> Packet \cup {None}]
      BY <3>1, <3>7 DEF TypeOK
    <3>9. CacheSound'
      <4>1. ASSUME ~disturbed', NEW k \in Keys, cache'[k] # None
            PROVE  cache'[k] = PacketOf(k)'
        <5>1. PacketOf(k)' = PacketOf(k) /\ ~disturbed
          BY <3>1, <4>1 DEF PacketOf
        <5>. QED
          BY <2>0, <3>1, <3>7, <4>1, <5>1 DEF CacheSound, TypeOK
      <4>. QED
        BY <4>1 DEF CacheSound
    <3>10. PacketOf(key)' = PacketOf(key)
      BY <3>1 DEF PacketOf
    <3>11. CallInv(c)'
      BY <3>1, <3>3, <3>5, <3>10 DEF CallInv, Whole
    <3>12. \A d \in Calls : CallInv(d)'
      BY <3>1, <3>5, <3>11, OtherCalls
    <3>13. session' \notin {None, Torn} /\ session'.key # NoKey /\ ~disturbed' =>
             session'.packet = PacketOf(session.key)'
      BY <3>1 DEF PacketInv, PacketOf
    <3>14. ViewInv'
      BY <3>1, <3>3, <3>4, <3>5, ViewKept DEF At
    <3>. QED
      BY <3>1, <3>5, <3>6, <3>8, <3>9, <3>12, <3>13, <3>14 DEF TypeOK, PacketInv
  <2>12. ASSUME NEW c \in Calls, NEW d \in Delta, NEW st \in {"store", "answered"},
                call[c] # None, call[c].step = "session", DeltaGoes(c, d, st),
                UNCHANGED <<born, state, intents, events, requests, cache, session, view, disturbed>>,
                lapsed' \in BOOLEAN,
                ~lapsed' =>
                  /\ ~lapsed /\ session # Torn
                  /\ \/ d.full /\ ~d.same /\ d.add = call[c].packet /\ st = "store"
                     \/ /\ ~d.full /\ d.same /\ st = "answered"
                        /\ session # None /\ session.key = call[c].key
                     \/ /\ ~d.full /\ ~d.same /\ st = "store" /\ session # None
                        /\ d.add = Minus(call[c].packet, session.packet)
                        /\ d.cut = Minus(session.packet, call[c].packet)
         PROVE  Inv'
    <3>. PICK key, p : key = call[c].key /\ p = call[c].packet
      OBVIOUS
    <3>1. /\ call[c] \in Call /\ (key # NoKey => born)
          /\ key # NoKey /\ ~disturbed => p = PacketOf(key)
          /\ st \in Steps
      BY <2>0, <2>12, CallTyped DEF CallInv, Whole, Steps
    <3>2. PICK r \in Call :
            /\ call' = [call EXCEPT ![c] = r] /\ r # None
            /\ r.step = st /\ r.key = key /\ r.task = call[c].task /\ r.packet = p /\ r.delta = d
      BY <2>12, <3>1, DeltaRead
    <3>3. /\ call' \in [Calls -> Call \cup {None}] /\ call'[c] = r
          /\ \A o \in Calls : o # c => call'[o] = call[o]
      BY <3>2, Put
    <3>4. TypeOK'
      BY <2>12, <3>3 DEF TypeOK
    <3>5. PacketOf(key)' = PacketOf(key)
      BY <2>12 DEF PacketOf
    <3>6. CallInv(c)'
      BY <2>12, <3>1, <3>2, <3>3, <3>5 DEF CallInv, Whole
    <3>7. PacketInv'
      BY <2>12, <3>3, <3>6, PacketKept
    <3>8. ~lapsed => view = IF session = None THEN None ELSE session.packet
      BY <2>12 DEF ViewInv, At
    <3>9. ASSUME ~lapsed'
          PROVE  /\ Answers(c)'
                 /\ At(c, "answered")' => call'[c].delta.same
      <4>1. CASE d.full /\ ~d.same /\ d.add = call[c].packet /\ st = "store"
        BY <2>12, <3>2, <3>3, <4>1 DEF Answers, At
      <4>2. CASE /\ ~d.full /\ d.same /\ st = "answered"
                 /\ session # None /\ session.key = call[c].key
        BY <2>12, <3>2, <3>3, <4>2 DEF Answers, At
      <4>3. CASE /\ ~d.full /\ ~d.same /\ st = "store" /\ session # None
                 /\ d.add = Minus(call[c].packet, session.packet)
                 /\ d.cut = Minus(session.packet, call[c].packet)
        <5>1. ~lapsed /\ view = session.packet /\ session \in Session
          BY <2>12, <3>8, <3>9, <4>3 DEF TypeOK
        <5>2. view # None
          BY <5>1 DEF Session
        <5>3. d.add = Minus(p, view) /\ d.cut = Minus(view, p)
          BY <4>3, <5>1
        <5>4. (Minus(p, view))' = Minus(p, view) /\ (Minus(view, p))' = Minus(view, p)
          BY <2>12 DEF Minus
        <5>. QED
          BY <2>12, <3>2, <3>3, <4>3, <5>2, <5>3, <5>4 DEF Answers, At
      <4>. QED
        BY <2>12, <3>9, <4>1, <4>2, <4>3
    <3>10. ViewInv'
      BY <2>12, <3>3, <3>8, <3>9, ViewOf
    <3>. QED
      BY <3>4, <3>7, <3>10
  <2>13. ASSUME NEW c \in Calls, Compare(c) PROVE Inv'
    <3>1. /\ call[c] # None /\ call[c].step = "session" /\ session # Torn
          /\ UNCHANGED <<born, state, intents, events, requests, cache, session, view, disturbed>>
          /\ call[c].packet \in Packet /\ lapsed \in BOOLEAN
          /\ Follows(c) => session \in Session /\ session.packet \in Packet /\ session # None
      BY <2>13, CallTyped DEF Compare, At, project, TypeOK, Follows, Session
    <3>2. CASE ~Follows(c) /\ DeltaGoes(c, Full(c), "store") /\ lapsed' = lapsed
      <4>. PICK d : d = Full(c)
        OBVIOUS
      <4>1. d \in Delta /\ d.full /\ ~d.same /\ d.add = call[c].packet
        BY <3>1, DeltaTyped DEF Full
      <4>. QED
        BY <2>12, <3>1, <3>2, <4>1
    <3>3. CASE Follows(c) /\ session.key = call[c].key /\ DeltaGoes(c, Same, "answered")
               /\ lapsed' = lapsed
      <4>1. Same \in Delta /\ Same.same /\ ~Same.full
        BY DeltaTyped, NoTyped DEF Same
      <4>. QED
        BY <2>12, <3>1, <3>3, <4>1
    <3>4. CASE /\ Follows(c)
               /\ \E d \in {Difference(c)} \cup Limited(Difference(c)) :
                    DeltaGoes(c, d, "store") /\ lapsed' = (lapsed \/ d # Difference(c))
      <4>. PICK e : e = Difference(c)
        OBVIOUS
      <4>1. /\ e \in Delta /\ ~e.full /\ ~e.same
            /\ e.add = Minus(call[c].packet, session.packet)
            /\ e.cut = Minus(session.packet, call[c].packet)
        <5>. PICK a, b : /\ a = Minus(call[c].packet, session.packet)
                         /\ b = Minus(session.packet, call[c].packet)
          OBVIOUS
        <5>1. a \in Packet /\ b \in Packet
          BY <3>1, <3>4, MinusTyped
        <5>2. e = [NoDelta EXCEPT !.add = a, !.cut = b]
          BY DEF Difference
        <5>. QED
          BY <5>1, <5>2, NoTyped DEF Delta
      <4>2. PICK d \in {e} \cup Limited(e) :
              DeltaGoes(c, d, "store") /\ lapsed' = (lapsed \/ d # e)
        BY <3>4
      <4>3. d \in Delta
        BY <4>1, <4>2, LimitedTyped
      <4>4. lapsed' \in BOOLEAN
        BY <4>2, Zenon
      <4>5. ~lapsed' => ~lapsed /\ d = e
        BY <4>2
      <4>. QED
        BY <2>12, <3>1, <3>4, <4>1, <4>2, <4>3, <4>4, <4>5
    <3>. QED
      BY <2>13, <3>2, <3>3, <3>4 DEF Compare, DeltaGoes
  <2>14. ASSUME NEW c \in Calls, Store(c) PROVE Inv'
    <3>. DEFINE r == [call[c] EXCEPT !.step = "answered"]
    <3>. PICK key, p, t, d : /\ key = call[c].key /\ p = call[c].packet
                             /\ t = call[c].task /\ d = call[c].delta
      OBVIOUS
    <3>. PICK n : n = Current(c)
      OBVIOUS
    <3>1. /\ call[c] # None /\ call[c] \in Call /\ call[c].step = "store"
          /\ UNCHANGED <<born, state, intents, events, requests, cache, view, lapsed, disturbed>>
          /\ p \in Packet /\ key \in Keys \cup {NoKey} /\ t \in Tasks
          /\ (key # NoKey => born) /\ (key # NoKey /\ ~disturbed => p = PacketOf(key))
          /\ call' = [call EXCEPT ![c].step = "answered"]
          /\ session' \in {n} \cup (IF \E o \in Calls \ {c} : At(o, "store") THEN {Torn} ELSE {})
      BY <2>0, <2>14, CallTyped DEF Store, At, project, CallInv, Whole
    <3>2. call' = [call EXCEPT ![c] = r]
      BY <3>1 DEF TypeOK
    <3>3. /\ r \in Call /\ r.step = "answered" /\ r.key = key /\ r.packet = p
          /\ r.task = t /\ r.delta = d
      BY <3>1 DEF Call, Steps
    <3>4. r # None
      BY <3>3
    <3>. HIDE DEF r
    <3>5. /\ call' \in [Calls -> Call \cup {None}] /\ call'[c] = r
          /\ \A o \in Calls : o # c => call'[o] = call[o]
      BY <3>2, <3>3, Put
    <3>6. n \in Session /\ n.key = key /\ n.packet = p /\ n # None /\ n # Torn
      BY <3>1 DEF Current, Session
    <3>7. session' \in {n, Torn}
      BY <3>1
    <3>8. PacketOf(key)' = PacketOf(key)
      BY <3>1 DEF PacketOf
    <3>9. CallInv(c)'
      BY <3>1, <3>3, <3>5, <3>8 DEF CallInv, Whole
    <3>10. \A o \in Calls : CallInv(o)'
      BY <3>1, <3>5, <3>9, OtherCalls
    <3>11. CacheSound'
      BY <2>0, <3>1 DEF CacheSound, PacketOf
    <3>12. session' \notin {None, Torn} /\ session'.key # NoKey /\ ~disturbed' =>
             session'.packet = PacketOf(session.key)'
      BY <3>1, <3>6, <3>7, <3>8 DEF PacketOf
    <3>13. ASSUME ~lapsed'
           PROVE  session' = n /\ Answers(c)' /\ ~d.same
      <4>1. /\ \A o \in Calls : o # c => call[o] = None
            /\ Answers(c)
        BY <3>1, <3>13 DEF ViewInv, At
      <4>2. session' = n
        BY <3>1, <4>1 DEF At
      <4>3. Current(c)' = n
        BY <3>3, <3>5 DEF Current
      <4>4. (Minus(p, view))' = Minus(p, view) /\ (Minus(view, p))' = Minus(view, p)
        BY <3>1 DEF Minus
      <4>5. CASE d.full /\ ~d.same /\ d.add = p
        BY <3>3, <3>5, <4>2, <4>3, <4>5 DEF Answers
      <4>6. CASE /\ ~d.full /\ ~d.same /\ view # None
                 /\ d.add = Minus(p, view) /\ d.cut = Minus(view, p)
        BY <3>1, <3>3, <3>5, <4>2, <4>3, <4>4, <4>6 DEF Answers
      <4>. QED
        BY <3>1, <4>1, <4>5, <4>6 DEF Answers, At
    <3>14. ViewInv'
      BY <3>1, <3>3, <3>4, <3>5, <3>6, <3>13, ViewOf DEF At
    <3>. QED
      BY <3>1, <3>5, <3>6, <3>7, <3>10, <3>11, <3>12, <3>14 DEF TypeOK, PacketInv
  <2>15. ASSUME NEW c \in Calls, call[c] # None, call' = [call EXCEPT ![c] = None],
                UNCHANGED <<born, state, intents, requests, cache, session, disturbed>>,
                events' \in 0..MaxEvents, view' \in Packet \cup {None}, lapsed' \in BOOLEAN,
                ~lapsed' => /\ ~lapsed
                            /\ view' = IF session = None THEN None ELSE session.packet
         PROVE  Inv'
    <3>1. /\ call' \in [Calls -> Call \cup {None}] /\ call'[c] = None
          /\ \A d \in Calls : d # c => call'[d] = call[d]
      BY <2>15, Put
    <3>2. TypeOK'
      BY <2>15, <3>1 DEF TypeOK
    <3>3. CallInv(c)'
      BY <3>1 DEF CallInv
    <3>4. PacketInv'
      BY <2>15, <3>1, <3>3, PacketKept
    <3>5. ~lapsed' => session' # Torn
      BY <2>15 DEF ViewInv
    <3>6. ViewInv'
      BY <2>15, <3>1, <3>5, ViewOf DEF At
    <3>. QED
      BY <3>2, <3>4, <3>6
  <2>16. ASSUME NEW c \in Calls, Receive(c) PROVE Inv'
    <3>. PICK p, d : p = call[c].packet /\ d = call[c].delta
      OBVIOUS
    <3>1. /\ call[c] # None /\ call[c].step = "answered" /\ p \in Packet
          /\ d.add \in Packet /\ d.cut \in Packet
          /\ call' = [call EXCEPT ![c] = None]
          /\ UNCHANGED <<born, state, intents, events, requests, cache, session, lapsed, disturbed>>
          /\ view' = CASE d.full -> d.add [] ~d.full /\ (d.same \/ view = None) -> view
                       [] OTHER -> Plus(view, d)
      BY <2>16, CallTyped DEF Receive, At, project, Delta
    <3>2. view' \in Packet \cup {None}
      <4>1. view # None => Plus(view, d) \in Packet
        BY <3>1 DEF TypeOK, Plus, Packet
      <4>. QED
        BY <3>1, <4>1 DEF TypeOK
    <3>3. ASSUME ~lapsed
          PROVE  view' = IF session = None THEN None ELSE session.packet
      <4>1. Answers(c) /\ \A o \in Calls : o # c => call[o] = None
        BY <3>1, <3>3 DEF ViewInv, At
      <4>2. session = Current(c) => session # None /\ session.packet = p
        <5>1. Current(c) \in Session
          BY <3>1, CallTyped DEF Current, Session
        <5>. QED
          BY <5>1 DEF Current
      <4>3. CASE d.full /\ ~d.same /\ d.add = p /\ session = Current(c)
        BY <3>1, <4>2, <4>3
      <4>4. CASE ~d.full /\ d.same
        <5>1. view = IF session = None THEN None ELSE session.packet
          BY <3>1, <3>3, <4>1, <4>4 DEF ViewInv, At
        <5>. QED
          BY <3>1, <4>4, <5>1
      <4>5. CASE /\ ~d.full /\ ~d.same /\ view # None /\ session = Current(c)
                 /\ d.add = Minus(p, view) /\ d.cut = Minus(view, p)
        <5>1. view \in Packet
          BY <4>5 DEF TypeOK
        <5>2. Plus(view, d) = p
          BY <3>1, <4>5, <5>1, MinusPlus
        <5>. QED
          BY <3>1, <4>2, <4>5, <5>2
      <4>. QED
        BY <3>1, <4>1, <4>3, <4>4, <4>5 DEF Answers, At
    <3>. QED
      BY <2>15, <3>1, <3>2, <3>3 DEF TypeOK
  <2>17. ASSUME NEW c \in Calls, Leave(c) PROVE Inv'
    <3>1. /\ call[c] # None /\ call' = [call EXCEPT ![c] = None]
          /\ UNCHANGED <<born, state, intents, requests, cache, session, view, disturbed>>
          /\ events' \in 0..MaxEvents
      BY <2>17, BoundAssumption DEF Leave, project, Event, TypeOK
    <3>2. lapsed' = (lapsed \/ (At(c, "answered") /\ ~call[c].delta.same))
      BY <2>17 DEF Leave
    <3>3. lapsed' \in BOOLEAN
      BY <3>2, Zenon
    <3>4. ASSUME ~lapsed'
          PROVE  ~lapsed /\ view' = IF session = None THEN None ELSE session.packet
      <4>1. ~lapsed /\ (At(c, "answered") => call[c].delta.same)
        BY <3>2, <3>4
      <4>2. \A o \in Calls : At(o, "answered") => o = c
        BY <3>1, <4>1 DEF ViewInv, At
      <4>. QED
        BY <3>1, <4>1, <4>2 DEF ViewInv
    <3>. QED
      BY <2>15, <3>1, <3>3, <3>4 DEF TypeOK
  <2>18. CASE UNCHANGED vars
    <3>1. UNCHANGED <<born, state, intents, cache, session, call, view, lapsed, disturbed,
                      events, requests>>
      BY <2>18 DEF vars
    <3>2. TypeOK'
      BY <3>1 DEF TypeOK
    <3>3. ASSUME NEW c \in Calls PROVE CallInv(c)'
      BY <2>0, <3>1 DEF CallInv, PacketOf, Key
    <3>4. CacheSound' /\ (session' \notin {None, Torn} /\ session'.key # NoKey /\ ~disturbed' =>
                            session'.packet = PacketOf(session.key)')
      BY <3>1 DEF PacketInv, CacheSound, PacketOf
    <3>5. ViewInv'
      BY <3>1 DEF ViewInv, At, Answers, Current
    <3>. QED
      BY <3>2, <3>3, <3>4, <3>5 DEF PacketInv
  <2>. QED
    BY <2>2, <2>3, <2>4, <2>5, <2>7, <2>8, <2>9, <2>10, <2>11, <2>13, <2>14, <2>16, <2>17, <2>18
    DEF Next
<1>. QED
  BY <1>1, <1>2, PTL DEF Spec

\* Every variable keeps its type.
THEOREM TypeCorrect == Spec => []TypeOK
BY DeltaInvariant, PTL

\* A cached packet is what compiling gives for its key (cache.go:29-53).
THEOREM CacheIsSound == Spec => []CacheSound
<1>1. PacketInv => CacheSound
  BY DEF PacketInv
<1>. QED
  BY <1>1, DeltaInvariant, PTL

\* The client is in step with the session (delta.go:63-98).
THEOREM ClientInStep == Spec => []InStep
<1>1. ViewInv => InStep
  BY DEF ViewInv, InStep, Quiet, At
<1>. QED
  BY <1>1, DeltaInvariant, PTL

\* The answer to an undisturbed request brings the client up to date.
THEOREM ClientIsCurrent == Spec => []ClientCurrent
<1>1. TypeOK /\ PacketInv /\ ViewInv => ClientCurrent
  <2>. SUFFICES ASSUME TypeOK, PacketInv, ViewInv, NEW c \in Calls,
                       At(c, "answered"), ~lapsed, ~disturbed,
                       call[c].key = Key(state, call[c].task, intents)
                PROVE  LET d == call[c].delta IN
                       PacketOf(call[c].key) =
                         CASE d.full -> d.add [] d.same -> view [] OTHER -> Plus(view, d)
    BY DEF ClientCurrent
  <2>. PICK p, d, key : p = call[c].packet /\ d = call[c].delta /\ key = call[c].key
    OBVIOUS
  <2>1. /\ call[c] # None /\ call[c].step = "answered" /\ p \in Packet
        /\ call[c].task \in Tasks /\ state \in States /\ intents \in SUBSET Intents
    BY CallTyped DEF At, TypeOK
  <2>2. key # NoKey
    BY <2>1, KeyTyped
  <2>3. p = PacketOf(key)
    BY <2>1, <2>2 DEF PacketInv, CallInv, Whole
  <2>4. Answers(c) /\ \A o \in Calls : o # c => call[o] = None
    BY <2>1 DEF ViewInv, At
  <2>5. CASE d.full /\ ~d.same /\ d.add = p
    BY <2>3, <2>5
  <2>6. CASE ~d.full /\ d.same /\ session # None /\ session.key = key
    <3>1. view = session.packet /\ session # Torn
      BY <2>1, <2>4, <2>6 DEF ViewInv, At
    <3>2. session.packet = PacketOf(key)
      BY <2>2, <2>6, <3>1 DEF PacketInv
    <3>. QED
      BY <2>6, <3>1, <3>2
  <2>7. CASE /\ ~d.full /\ ~d.same /\ view # None
             /\ d.add = Minus(p, view) /\ d.cut = Minus(view, p)
    <3>1. Plus(view, d) = p
      BY <2>1, <2>7, MinusPlus DEF TypeOK
    <3>. QED
      BY <2>3, <2>7, <3>1
  <2>. QED
    BY <2>4, <2>5, <2>6, <2>7 DEF Answers
<1>. QED
  BY <1>1, DeltaInvariant, PTL
=============================================================================
