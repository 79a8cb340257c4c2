---------------------------- MODULE SerenaProofs ----------------------------
(***************************************************************************)
(* What holds of the Serena session for any number of concurrent requests. *)
(* Except for the types and the mutex, it needs a Serena that activates a  *)
(* project when it says so: the code does not look at an error result.     *)
(***************************************************************************)
EXTENDS Serena, TLAPS

LEMMA SessionTyped ==
    ASSUME TypeOK, session # None
    PROVE  /\ session \in Session
           /\ [session EXCEPT !.project = Root] \in Session
           /\ [session EXCEPT !.alive = FALSE] \in Session
           /\ Activated \subseteq Session
           /\ None \notin Activated
BY NullAssumption DEF TypeOK, Session, Projects, Activated

LEMMA FreshTyped == Fresh \in Session /\ Fresh # None
<1>1. Fresh \in Session
  BY DEF Fresh, Session, Projects
<1>. QED
  BY <1>1, NullAssumption

LEMMA CallerTyped ==
    ASSUME TypeOK, NEW c \in Callers, caller[c] # None
    PROVE  caller[c] \in Caller
BY DEF TypeOK

\* A request that moves on without an answer.
LEMMA Moved ==
    ASSUME TypeOK, NEW c \in Callers, caller[c] # None, NEW step \in Steps,
           caller[c].by = None,
           caller[c].retried => step \in {"reactivate", "second", "answered", "failed"},
           Goto(c, step)
    PROVE  /\ caller' \in [Callers -> Caller \cup {None}]
           /\ \A d \in Callers : d # c => caller'[d] = caller[d]
           /\ caller'[c] = [caller[c] EXCEPT !.step = step]
           /\ caller'[c] # None /\ caller'[c] \in Caller
<1>1. [caller[c] EXCEPT !.step = step] \in Caller
  BY CallerTyped DEF Caller
<1>. QED
  BY <1>1, NullAssumption DEF Goto, TypeOK

LEMMA TypeInit == Init => TypeOK
BY DEF Init, TypeOK, Phases, Projects

LEMMA OpenTyped ==
    ASSUME TypeOK,
           OpenConnect \/ OpenActivate \/ OpenRetry \/ Close \/ Restart \/ Die
    PROVE  TypeOK'
<1>1. ASSUME OpenConnect PROVE TypeOK'
  BY <1>1, FreshTyped DEF OpenConnect, TypeOK, Phases
<1>2. ASSUME OpenActivate PROVE TypeOK'
  BY <1>2, FreshTyped, SessionTyped DEF OpenActivate, Answers, TypeOK, Phases, Projects
<1>3. ASSUME OpenRetry PROVE TypeOK'
  BY <1>3, SessionTyped DEF OpenRetry, Answers, TypeOK, Phases, Projects
<1>4. ASSUME Close \/ Restart PROVE TypeOK'
  BY <1>4 DEF Close, Restart, TypeOK, Phases, Projects
<1>5. ASSUME Die PROVE TypeOK'
  BY <1>5, SessionTyped DEF Die, Answers, TypeOK
<1>. QED
  BY <1>1, <1>2, <1>3, <1>4, <1>5

LEMMA RequestTyped ==
    ASSUME TypeOK, NEW c \in Callers,
           \/ \E kind \in {"query", "status"} : Start(c, kind)
           \/ Cancel(c) \/ Lock(c) \/ External(c) \/ Return(c)
    PROVE  TypeOK'
<1>1. ASSUME NEW kind \in {"query", "status"}, Start(c, kind) PROVE TypeOK'
  BY <1>1 DEF Start, TypeOK, Caller, Steps, Projects
<1>2. ASSUME Cancel(c) PROVE TypeOK'
  <2>1. [caller[c] EXCEPT !.cancelled = TRUE] \in Caller
    BY <1>2, CallerTyped DEF Cancel, Caller
  <2>. QED
    BY <1>2, <2>1 DEF Cancel, TypeOK
<1>3. ASSUME Lock(c) PROVE TypeOK'
  <2>1. caller[c] # None /\ caller[c].by = None /\ ~caller[c].retried
    BY <1>3, CallerTyped DEF Lock, At, Caller
  <2>2. \E step \in Steps : Goto(c, step)
    BY <1>3 DEF Lock, Steps
  <2>3. caller' \in [Callers -> Caller \cup {None}]
    BY <2>1, <2>2, Moved
  <2>. QED
    BY <1>3, <2>3 DEF Lock, TypeOK
<1>4. ASSUME NEW step \in Steps, caller[c] # None, caller[c].by = None,
             caller[c].retried => step \in {"reactivate", "second", "answered", "failed"},
             Goto(c, step)
      PROVE  caller' \in [Callers -> Caller \cup {None}]
  BY <1>4, Moved
<1>5. ASSUME Connect(c) PROVE TypeOK'
  <2>1. caller[c] # None /\ caller[c].by = None /\ ~caller[c].retried
    BY <1>5, CallerTyped DEF Connect, At, Caller
  <2>2. caller' \in [Callers -> Caller \cup {None}]
    BY <1>4, <1>5, <2>1 DEF Connect, Fail, Steps
  <2>. QED
    BY <1>5, <2>2, FreshTyped DEF Connect, Fail, TypeOK
<1>6. ASSUME First(c) \/ Second(c) PROVE TypeOK'
  <2>1. /\ caller[c] # None /\ caller[c].by = None /\ caller[c] \in Caller
        /\ caller[c].step = "first" => ~caller[c].retried
    BY <1>6, CallerTyped DEF First, Second, At, Caller
  <2>2. CASE Answers /\ Reply(c) /\ UNCHANGED session
    <3>1. session.project \in Projects
      BY <2>2, SessionTyped DEF Answers, Session
    <3>2. [caller[c] EXCEPT !.step = "answered", !.by = session.project] \in Caller
      BY <2>1, <3>1 DEF Caller, Steps
    <3>. QED
      BY <1>6, <2>2, <3>2 DEF First, Second, Reply, TypeOK
  <2>3. CASE Goto(c, "reconnect") /\ At(c, "first")
    <3>1. caller' \in [Callers -> Caller \cup {None}]
      BY <1>4, <2>1, <2>3 DEF Steps, At
    <3>. QED
      BY <1>6, <2>3, <3>1 DEF First, Second, Reply, Fail, TypeOK, At
  <2>4. CASE Fail(c) /\ At(c, "second")
    <3>1. caller' \in [Callers -> Caller \cup {None}]
      BY <1>4, <2>1, <2>4 DEF Steps, At, Fail
    <3>. QED
      BY <1>6, <2>4, <3>1 DEF First, Second, Reply, Fail, TypeOK, At
  <2>. QED
    BY <1>6, <2>2, <2>3, <2>4 DEF First, Second
<1>7. ASSUME Reconnect(c) PROVE TypeOK'
  <2>1. caller[c] # None /\ caller[c].by = None /\ caller[c] \in Caller
    BY <1>7, CallerTyped DEF Reconnect, At, Caller
  <2>2. \A step \in {"reactivate", "second"} :
          [caller[c] EXCEPT !.retried = TRUE, !.step = step] \in Caller
    BY <2>1 DEF Caller, Steps
  <2>3. CASE Fail(c)
    <3>1. caller' \in [Callers -> Caller \cup {None}]
      BY <1>4, <2>1, <2>3 DEF Steps, Fail
    <3>. QED
      BY <1>7, <2>3, <3>1, FreshTyped DEF Reconnect, Fail, TypeOK
  <2>4. CASE ~Fail(c)
    BY <1>7, <2>2, <2>4, FreshTyped DEF Reconnect, TypeOK
  <2>. QED
    BY <2>3, <2>4
<1>8. ASSUME Reactivate(c) PROVE TypeOK'
  <2>1. caller[c] # None /\ caller[c].by = None /\ caller[c] \in Caller
    BY <1>8, CallerTyped DEF Reactivate, At, Caller
  <2>2. caller' \in [Callers -> Caller \cup {None}]
    BY <1>4, <1>8, <2>1 DEF Reactivate, Fail, Steps
  <2>. QED
    BY <1>8, <2>2, SessionTyped DEF Reactivate, Answers, Fail, TypeOK
<1>9. ASSUME Return(c) PROVE TypeOK'
  BY <1>9 DEF Return, TypeOK
<1>. QED
  BY <1>1, <1>2, <1>3, <1>5, <1>6, <1>7, <1>8, <1>9 DEF External

(* Type correctness, whatever Serena answers.                              *)
THEOREM TypeCorrect == Spec => []TypeOK
<1>1. TypeOK /\ [Next]_vars => TypeOK'
  <2>1. CASE UNCHANGED vars
    BY <2>1 DEF vars, TypeOK
  <2>. QED
    BY <2>1, OpenTyped, RequestTyped DEF Next
<1>. QED
  BY TypeInit, <1>1, PTL DEF Spec

-----------------------------------------------------------------------------
(* The inductive invariant.                                                *)

LEMMA InvInit == Init => SerenaInv
BY NullAssumption DEF Init, SerenaInv, MutexInv, SessionInv, At, Answered

LEMMA OpenKeeps ==
    ASSUME ~Refuses, TypeOK, SerenaInv,
           OpenConnect \/ OpenActivate \/ OpenRetry \/ Close \/ Restart \/ Die
    PROVE  SerenaInv'
<1>1. /\ caller' = caller /\ mu' = mu
      /\ phase # "serving" \/ Close => \A c \in Callers : caller[c] = None
  BY DEF OpenConnect, OpenActivate, OpenRetry, Close, Restart, Die, SerenaInv, MutexInv
<1>2. MutexInv'
  BY <1>1 DEF SerenaInv, MutexInv, OpenConnect, OpenActivate, OpenRetry, Close, Restart, Die
<1>3. ASSUME OpenConnect \/ OpenActivate \/ OpenRetry \/ Close \/ Restart
      PROVE  SessionInv'
  <2>1. \A c \in Callers : caller[c] = None
    BY <1>1, <1>3 DEF OpenConnect, OpenActivate, OpenRetry, Close, Restart
  <2>2. mu = None
    BY <2>1 DEF SerenaInv, MutexInv, TypeOK
  <2>3. Answers => Activated = {[session EXCEPT !.project = Root]}
    BY DEF Activated
  <2>4. Answers /\ session' \in Activated => Activation'
    BY <2>3, SessionTyped DEF Answers, Activation, Session
  <2>5. SessionInv
    BY DEF SerenaInv
  <2>. QED
    BY <1>1, <1>3, <2>1, <2>2, <2>4, <2>5
    DEF SessionInv, At, Answered, OpenConnect, OpenActivate, OpenRetry, Close, Restart
<1>4. ASSUME Die PROVE SessionInv'
  <2>1. /\ session # None /\ session' # None /\ session'.project = session.project
        /\ UNCHANGED <<phase, activeProject, lapsed>>
    BY <1>4, SessionTyped, NullAssumption DEF Die, Answers, Session
  <2>2. /\ Activation' <=> Activation
        /\ \A c \in Callers : \A step \in Steps : At(c, step)' <=> At(c, step)
        /\ \A c \in Callers : Answered(c)' <=> Answered(c)
    BY <1>1, <2>1 DEF Activation, At, Answered
  <2>3. SessionInv
    BY DEF SerenaInv
  <2>4. phase \notin {"connect", "without", "closed"}
    BY <2>1, <2>3 DEF SessionInv
  <2>5. At(mu, "first")' <=> At(mu, "first")
    BY <1>1 DEF At
  <2>. QED
    BY <1>1, <2>1, <2>2, <2>3, <2>4, <2>5 DEF SessionInv, Steps
<1>. QED
  BY <1>2, <1>3, <1>4 DEF SerenaInv

\* What a step of the request that has the mutex must establish.
LEMMA HolderMoves ==
    ASSUME TypeOK, SerenaInv, NEW c \in Callers, mu = c,
           NEW r, r # None, r.step # "lock",
           caller' = [caller EXCEPT ![c] = r],
           mu' = IF r.step \in {"answered", "failed"} THEN None ELSE c,
           UNCHANGED <<phase, activeProject>>,
           lapsed' = IF r.step = "failed" THEN TRUE ELSE lapsed,
           r.step \in {"first", "reactivate"} => session' # None,
           r.step = "connect" => lapsed,
           r.step = "second" => Activation',
           r.step = "first" => lapsed \/ Activation',
           r.step = "answered" => /\ r.retried \/ ~lapsed => r.by = Root
                                  /\ lapsed \/ Activation'
    PROVE  SerenaInv'
<1>1. /\ phase = "serving" /\ phase' = phase /\ activeProject' = Root
      /\ c # None
      /\ caller'[c] = r /\ \A d \in Callers : d # c => caller'[d] = caller[d]
  BY NullAssumption DEF SerenaInv, MutexInv, SessionInv, TypeOK
<1>2. \A d \in Callers : d # c =>
        caller[d] = None \/ caller[d].step \in {"lock", "answered", "failed"}
  BY DEF SerenaInv, MutexInv
<1>3. MutexInv'
  BY <1>1, <1>2, NullAssumption DEF SerenaInv, MutexInv
<1>4. SessionInv'
  <2>1. phase' = "serving" /\ ~lapsed' /\ (mu' = None \/ At(mu, "first")') => Activation'
    BY <1>1 DEF At
  <2>2. ASSUME NEW d \in Callers
        PROVE  /\ At(d, "first")' => session' # None
               /\ At(d, "connect")' => lapsed'
               /\ At(d, "reactivate")' => session' # None
               /\ At(d, "second")' => Activation'
    BY <1>1, <1>2, <2>2 DEF At
  <2>3. ASSUME NEW d \in Callers
        PROVE  /\ caller'[d] # None /\ caller'[d].retried /\ Answered(d)' => caller'[d].by = Root
               /\ ~lapsed' /\ Answered(d)' => caller'[d].by = Root
    <3>1. CASE d = c
      BY <1>1, <3>1 DEF Answered, At
    <3>2. CASE d # c
      BY <1>1, <3>2 DEF Answered, At, SerenaInv, SessionInv
    <3>. QED
      BY <3>1, <3>2
  <2>. QED
    BY <1>1, <2>1, <2>2, <2>3 DEF SessionInv
<1>. QED
  BY <1>3, <1>4 DEF SerenaInv

LEMMA HolderKeeps ==
    ASSUME ~Refuses, TypeOK, SerenaInv, NEW c \in Callers, External(c)
    PROVE  SerenaInv'
<1>1. /\ mu = c /\ c # None /\ activeProject # None
      /\ caller[c] # None /\ caller[c] \in Caller
      /\ UNCHANGED <<phase, activeProject>>
  BY CallerTyped, NullAssumption, RootAssumption
  DEF External, Connect, First, Reconnect, Reactivate, Second, At,
      SerenaInv, MutexInv, SessionInv
<1>2. \A r \in Caller : r # None
  BY NullAssumption
<1>3. SessionInv
  BY DEF SerenaInv
<1>f. ASSUME Fail(c), At(c, "connect") \/ At(c, "reconnect") \/ At(c, "reactivate")
                        \/ At(c, "second")
      PROVE  SerenaInv'
  <2>1. [caller[c] EXCEPT !.step = "failed"] \in Caller
    BY <1>1, <1>f DEF Caller, Steps, At
  <2>. QED
    BY <1>1, <1>2, <1>f, <2>1, HolderMoves DEF Fail, Goto, Caller
<1>4. ASSUME Connect(c), ~Fail(c) PROVE SerenaInv'
  <2>1. [caller[c] EXCEPT !.step = "first"] \in Caller
    BY <1>1, <1>4 DEF Connect, At, Caller, Steps
  <2>2. lapsed
    BY <1>3, <1>4 DEF Connect, SessionInv
  <2>. QED
    BY <1>1, <1>2, <1>4, <2>1, <2>2, FreshTyped, HolderMoves DEF Connect, Goto, Caller
<1>5. ASSUME First(c) PROVE SerenaInv'
  <2>1. CASE Answers /\ Reply(c) /\ UNCHANGED session
    <3>1. [caller[c] EXCEPT !.step = "answered", !.by = session.project] \in Caller
      BY <1>1, <1>5, <2>1, SessionTyped DEF First, At, Answers, Session, Caller, Steps
    <3>2. ~caller[c].retried /\ (lapsed \/ Activation)
      BY <1>1, <1>3, <1>5 DEF First, At, Caller, SessionInv, SerenaInv, MutexInv
    <3>3. lapsed \/ session.project = Root
      BY <3>2 DEF Activation
    <3>4. Activation' <=> Activation
      BY <2>1 DEF Activation
    <3>. DEFINE r == [caller[c] EXCEPT !.step = "answered", !.by = session.project]
    <3>5. /\ r # None /\ r.step = "answered" /\ r.by = session.project
          /\ r.retried = caller[c].retried
      BY <1>1, <1>2, <3>1 DEF Caller
    <3>6. caller' = [caller EXCEPT ![c] = r] /\ mu' = None /\ lapsed' = lapsed
      BY <2>1 DEF Reply
    <3>. HIDE DEF r
    <3>. QED
      BY <1>1, <3>2, <3>3, <3>4, <3>5, <3>6, HolderMoves
  <2>2. CASE Goto(c, "reconnect") /\ UNCHANGED <<mu, lapsed>>
    <3>1. [caller[c] EXCEPT !.step = "reconnect"] \in Caller
      BY <1>1, <1>5 DEF First, At, Caller, Steps
    <3>. QED
      BY <1>1, <1>2, <2>2, <3>1, HolderMoves DEF Goto, Caller
  <2>. QED
    BY <1>5, <2>1, <2>2 DEF First
<1>6. ASSUME Reconnect(c), ~Fail(c) PROVE SerenaInv'
  <2>1. [caller[c] EXCEPT !.retried = TRUE, !.step = "reactivate"] \in Caller
    BY <1>1, <1>6 DEF Reconnect, At, Caller, Steps
  <2>. DEFINE r == [caller[c] EXCEPT !.retried = TRUE, !.step = "reactivate"]
  <2>2. r # None /\ r.step = "reactivate"
    BY <1>1, <1>2, <2>1 DEF Caller
  <2>3. /\ caller' = [caller EXCEPT ![c] = r] /\ session' = Fresh
        /\ mu' = c /\ lapsed' = lapsed
    BY <1>1, <1>6 DEF Reconnect
  <2>. HIDE DEF r
  <2>. QED
    BY <1>1, <2>2, <2>3, FreshTyped, HolderMoves
<1>7. ASSUME Reactivate(c), ~Fail(c) PROVE SerenaInv'
  <2>1. [caller[c] EXCEPT !.step = "second"] \in Caller
    BY <1>1, <1>7 DEF Reactivate, At, Caller, Steps
  <2>2. Activation'
    BY <1>7, SessionTyped DEF Reactivate, Answers, Activated, Activation, Session
  <2>. QED
    BY <1>1, <1>2, <1>7, <2>1, <2>2, HolderMoves DEF Reactivate, Goto, Caller
<1>8. ASSUME Second(c), ~Fail(c) PROVE SerenaInv'
  <2>1. Activation
    BY <1>3, <1>8 DEF Second, SessionInv
  <2>2. [caller[c] EXCEPT !.step = "answered", !.by = Root] \in Caller
    BY <1>1, <1>8 DEF Second, At, Caller, Steps, Projects
  <2>. DEFINE r == [caller[c] EXCEPT !.step = "answered", !.by = Root]
  <2>3. r # None /\ r.step = "answered" /\ r.by = Root
    BY <1>1, <1>2, <2>2 DEF Caller
  <2>4. caller' = [caller EXCEPT ![c] = r] /\ mu' = None /\ lapsed' = lapsed
    BY <1>8, <2>1 DEF Second, Reply, Activation
  <2>5. Activation'
    BY <1>8, <2>1 DEF Second, Activation
  <2>. HIDE DEF r
  <2>. QED
    BY <1>1, <2>3, <2>4, <2>5, HolderMoves
<1>. QED
  BY <1>f, <1>4, <1>5, <1>6, <1>7, <1>8
  DEF External, Connect, Reconnect, Reactivate, Second

LEMMA LocalKeeps ==
    ASSUME TypeOK, SerenaInv, NEW c \in Callers,
           \/ \E kind \in {"query", "status"} : Start(c, kind)
           \/ Cancel(c) \/ Lock(c) \/ Return(c)
    PROVE  SerenaInv'
<1>1. ASSUME NEW kind \in {"query", "status"}, Start(c, kind) PROVE SerenaInv'
  BY <1>1, NullAssumption
  DEF Start, TypeOK, SerenaInv, MutexInv, SessionInv, At, Answered, Activation
<1>2. ASSUME Cancel(c) PROVE SerenaInv'
  BY <1>2, CallerTyped, NullAssumption
  DEF Cancel, TypeOK, Caller, SerenaInv, MutexInv, SessionInv, At, Answered, Activation
<1>3. ASSUME Lock(c) PROVE SerenaInv'
  <2>. DEFINE st == caller'[c].step
  <2>1. /\ caller[c] # None /\ caller[c].step = "lock" /\ mu = None /\ c # None
        /\ caller[c] \in Caller /\ ~caller[c].retried
    BY <1>3, CallerTyped, NullAssumption DEF Lock, At, Caller
  <2>2. /\ \A d \in Callers : d # c => caller'[d] = caller[d]
        /\ UNCHANGED <<phase, session, activeProject, lapsed>>
    BY <1>3 DEF Lock, Goto, TypeOK
  <2>4. /\ caller'[c] # None /\ caller'[c].kind = caller[c].kind
        /\ caller'[c].retried = caller[c].retried
        /\ \/ st = "answered" /\ caller[c].kind = "status" /\ mu' = mu
           \/ st = "connect" /\ session = None /\ mu' = c
           \/ st = "first" /\ session # None /\ mu' = c
    <3>1. \A step \in {"answered", "connect", "first"} :
             /\ [caller[c] EXCEPT !.step = step] \in Caller
             /\ [caller[c] EXCEPT !.step = step] # None
      BY <2>1, NullAssumption DEF Caller, Steps
    <3>. QED
      BY <1>3, <2>1, <3>1 DEF Lock, Goto, TypeOK, Caller
  <2>5. MutexInv'
    BY <2>1, <2>2, <2>4, NullAssumption DEF SerenaInv, MutexInv
  <2>6. phase = "serving"
    BY <2>1 DEF SerenaInv, MutexInv
  <2>7. session' = session /\ (Activation' <=> Activation)
    BY <2>2 DEF Activation
  <2>8. ~lapsed => Activation
    BY <2>1, <2>6 DEF SerenaInv, SessionInv
  <2>9. SessionInv'
    <3>1. ASSUME NEW d \in Callers
          PROVE  /\ At(d, "first")' => session' # None
                 /\ At(d, "connect")' => lapsed'
                 /\ At(d, "reactivate")' => session' # None
                 /\ At(d, "second")' => Activation'
      <4>1. CASE d = c
        BY <2>2, <2>4, <2>8, <4>1 DEF At, Activation
      <4>2. CASE d # c
        BY <2>2, <2>7, <4>2 DEF At, SerenaInv, SessionInv
      <4>. QED
        BY <4>1, <4>2
    <3>2. ASSUME NEW d \in Callers
          PROVE  /\ caller'[d] # None /\ caller'[d].retried /\ Answered(d)' => caller'[d].by = Root
                 /\ ~lapsed' /\ Answered(d)' => caller'[d].by = Root
      <4>1. CASE d = c
        BY <2>1, <2>4, <4>1 DEF Answered, At, Caller
      <4>2. CASE d # c
        BY <2>2, <4>2 DEF Answered, At, SerenaInv, SessionInv
      <4>. QED
        BY <4>1, <4>2
    <3>. QED
      BY <2>2, <2>6, <2>7, <2>8, <3>1, <3>2 DEF SessionInv, SerenaInv
  <2>. QED
    BY <2>5, <2>9 DEF SerenaInv
<1>4. ASSUME Return(c) PROVE SerenaInv'
  BY <1>4, NullAssumption
  DEF Return, TypeOK, SerenaInv, MutexInv, SessionInv, At, Answered, Activation
<1>. QED
  BY <1>1, <1>2, <1>3, <1>4

(* The invariant, for a Serena that activates a project when it says so.   *)
THEOREM SerenaInvariant ==
    ASSUME ~Refuses
    PROVE  Spec => [](TypeOK /\ SerenaInv)
<1>1. TypeOK /\ SerenaInv /\ [Next]_vars => SerenaInv'
  <2>. SUFFICES ASSUME TypeOK, SerenaInv, [Next]_vars PROVE SerenaInv'
    OBVIOUS
  <2>1. CASE UNCHANGED vars
    <3>1. MutexInv'
      BY <2>1 DEF vars, SerenaInv, MutexInv
    <3>2. SessionInv'
      BY <2>1 DEF vars, SerenaInv, SessionInv, At, Answered, Activation, TypeOK
    <3>. QED
      BY <3>1, <3>2 DEF SerenaInv
  <2>. QED
    BY <2>1, OpenKeeps, HolderKeeps, LocalKeeps DEF Next
<1>. QED
  BY InvInit, TypeCorrect, <1>1, PTL DEF Spec

(* Until a request fails, every answer comes from the activated project.   *)
THEOREM AnswersFromActivatedProject ==
    ASSUME ~Refuses
    PROVE  Spec => []AnswersUntilFailure
<1>1. SerenaInv => AnswersUntilFailure
  BY DEF SerenaInv, SessionInv, AnswersUntilFailure, AnswersFromProject
<1>. QED
  BY SerenaInvariant, <1>1, PTL

(* An answer got by reconnecting comes from the activated project.         *)
THEOREM RetriesRepair ==
    ASSUME ~Refuses
    PROVE  Spec => []RetryRepairs
<1>1. SerenaInv => RetryRepairs
  BY DEF SerenaInv, SessionInv, RetryRepairs, Answered, At
<1>. QED
  BY SerenaInvariant, <1>1, PTL

(* No Serena process outlives a failed start, and only a request that will *)
(* release the mutex has it.                                               *)
THEOREM NothingStaysBehind ==
    ASSUME ~Refuses
    PROVE  Spec => []NothingLeftBehind
<1>1. TypeOK /\ SerenaInv => NothingLeftBehind
  BY DEF TypeOK, SerenaInv, MutexInv, SessionInv, NothingLeftBehind
<1>. QED
  BY SerenaInvariant, <1>1, PTL
=============================================================================
