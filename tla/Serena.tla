------------------------------- MODULE Serena -------------------------------
(***************************************************************************)
(* The life of the Serena session: core.Open connects and activates it,    *)
(* then requests query it, each holding Serena.mu from its first line to   *)
(* its last, over a process that may die, refuse, or not answer at all.    *)
(***************************************************************************)
CONSTANTS
    Callers,
    Root,       \* cfg.Root, the only project core.Open activates
    Refuses,    \* Serena may answer activate_project with an error result
    None

ASSUME RefusesAssumption == Refuses \in BOOLEAN
ASSUME RootAssumption == Root # None

VARIABLES
    phase,          \* core.Open, then the service it returned
    session,        \* Serena.session and the process behind it
    activeProject,
    mu,             \* who holds Serena.mu
    caller,         \* the requests in progress
    lapsed          \* history: some request has ended with an error

vars == <<phase, session, activeProject, mu, caller, lapsed>>

Projects == {Root, None}
Phases == {"connect", "activate", "retry", "serving", "without", "closed"}
Session == [alive : BOOLEAN, project : Projects]
Steps == {"lock", "connect", "first", "reconnect", "reactivate", "second",
          "answered", "failed"}
Caller == {r \in [kind : {"query", "status"}, step : Steps, cancelled : BOOLEAN,
                  retried : BOOLEAN, by : Projects] :
             /\ r.retried => r.step \in {"reactivate", "second", "answered", "failed"}
             /\ r.by # None => r.step = "answered"}

ASSUME NullAssumption == None \notin Session \cup Caller \cup Callers

TypeOK ==
    /\ phase \in Phases
    /\ session \in Session \cup {None}
    /\ activeProject \in Projects
    /\ mu \in Callers \cup {None}
    /\ caller \in [Callers -> Caller \cup {None}]
    /\ lapsed \in BOOLEAN

Fresh == [alive |-> TRUE, project |-> None]

Init ==
    /\ phase = "connect"
    /\ session = None
    /\ activeProject = None
    /\ mu = None
    /\ caller = [c \in Callers |-> None]
    /\ lapsed = FALSE

Answers == session # None /\ session.alive

\* What a successful activate_project leaves in the process: callOnceLocked does
\* not look at IsError.
Activated ==
    {[session EXCEPT !.project = Root]} \cup (IF Refuses THEN {session} ELSE {})

-----------------------------------------------------------------------------
(* core.Open, Serena.Activate and the end of the process.                  *)

OpenConnect ==
    /\ phase = "connect"
    /\ \/ phase' = "activate" /\ session' = Fresh
       \/ phase' = "without" /\ UNCHANGED session
    /\ UNCHANGED <<activeProject, mu, caller, lapsed>>

OpenActivate ==
    /\ phase = "activate"
    /\ \/ /\ Answers /\ session' \in Activated
          /\ activeProject' = Root
          /\ phase' = "serving"
       \/ session' = Fresh /\ phase' = "retry" /\ UNCHANGED activeProject
       \/ session' = None /\ phase' = "without" /\ UNCHANGED activeProject
    /\ UNCHANGED <<mu, caller, lapsed>>

\* Mutant: the session of a failed retry is not closed.
OpenRetryLeaking ==
    /\ phase = "retry"
    /\ \/ /\ Answers /\ session' \in Activated
          /\ activeProject' = Root
          /\ phase' = "serving"
       \/ phase' = "without" /\ UNCHANGED <<session, activeProject>>
    /\ UNCHANGED <<mu, caller, lapsed>>

\* Mutant: a retried activation is not remembered.
OpenRetryUnrecorded ==
    /\ phase = "retry"
    /\ \/ /\ Answers /\ session' \in Activated
          /\ phase' = "serving"
       \/ session' = None /\ phase' = "without"
    /\ UNCHANGED <<activeProject, mu, caller, lapsed>>

\* core.Open closes the provider when Activate has failed.
OpenRetry ==
    /\ phase = "retry"
    /\ \/ /\ Answers /\ session' \in Activated
          /\ activeProject' = Root
          /\ phase' = "serving"
       \/ session' = None /\ phase' = "without" /\ UNCHANGED activeProject
    /\ UNCHANGED <<mu, caller, lapsed>>

\* main closes the service when the MCP server has answered all its requests.
Close ==
    /\ phase = "serving" /\ \A c \in Callers : caller[c] = None
    /\ session' = None
    /\ phase' = "closed"
    /\ UNCHANGED <<activeProject, mu, caller, lapsed>>

\* The process ends and is started again.
Restart ==
    /\ phase \in {"without", "closed"}
    /\ phase' = "connect" /\ session' = None /\ activeProject' = None
    /\ lapsed' = FALSE
    /\ UNCHANGED <<mu, caller>>

Die ==
    /\ Answers
    /\ session' = [session EXCEPT !.alive = FALSE]
    /\ UNCHANGED <<phase, activeProject, mu, caller, lapsed>>

-----------------------------------------------------------------------------
(* Serena.call and Serena.Status.                                          *)

At(c, step) == caller[c] # None /\ caller[c].step = step

Start(c, kind) ==
    /\ phase = "serving" /\ caller[c] = None
    /\ caller' = [caller EXCEPT ![c] =
                    [kind |-> kind, step |-> "lock", cancelled |-> FALSE,
                     retried |-> FALSE, by |-> None]]
    /\ UNCHANGED <<phase, session, activeProject, mu, lapsed>>

\* The client gives up: the request's context fails whatever it does from now on.
Cancel(c) ==
    /\ caller[c] # None /\ ~caller[c].cancelled
    /\ caller[c].step \notin {"answered", "failed"}
    /\ caller' = [caller EXCEPT ![c].cancelled = TRUE]
    /\ UNCHANGED <<phase, session, activeProject, mu, lapsed>>

Goto(c, step) == caller' = [caller EXCEPT ![c].step = step]

\* Mutant: a failing request keeps the mutex.
FailHolding(c) ==
    /\ Goto(c, "failed")
    /\ lapsed' = TRUE
    /\ UNCHANGED mu

Fail(c) ==
    /\ Goto(c, "failed")
    /\ mu' = None
    /\ lapsed' = TRUE

Lock(c) ==
    /\ At(c, "lock") /\ mu = None
    /\ IF caller[c].kind = "status"
       THEN Goto(c, "answered") /\ UNCHANGED mu
       ELSE /\ mu' = c
            /\ Goto(c, IF session = None THEN "connect" ELSE "first")
    /\ UNCHANGED <<phase, session, activeProject, lapsed>>

Connect(c) ==
    /\ At(c, "connect")
    /\ \/ /\ ~caller[c].cancelled
          /\ session' = Fresh
          /\ Goto(c, "first")
          /\ UNCHANGED <<mu, lapsed>>
       \/ Fail(c) /\ UNCHANGED session
    /\ UNCHANGED <<phase, activeProject>>

Reply(c) ==
    /\ caller' = [caller EXCEPT ![c].step = "answered", ![c].by = session.project]
    /\ mu' = None
    /\ UNCHANGED lapsed

First(c) ==
    /\ At(c, "first")
    /\ \/ Answers /\ ~caller[c].cancelled /\ Reply(c) /\ UNCHANGED session
       \/ session' = None /\ Goto(c, "reconnect") /\ UNCHANGED <<mu, lapsed>>
    /\ UNCHANGED <<phase, activeProject>>

\* Mutant: the new session is not activated.
ReconnectForgetful(c) ==
    /\ At(c, "reconnect")
    /\ \/ /\ ~caller[c].cancelled
          /\ session' = Fresh
          /\ caller' = [caller EXCEPT ![c].retried = TRUE, ![c].step = "second"]
          /\ UNCHANGED <<mu, lapsed>>
       \/ Fail(c) /\ UNCHANGED session
    /\ UNCHANGED <<phase, activeProject>>

\* Mutant: after reconnecting the request starts over, without a limit.
ReconnectLooping(c) ==
    /\ At(c, "reconnect")
    /\ \/ /\ ~caller[c].cancelled
          /\ session' = Fresh
          /\ caller' = [caller EXCEPT ![c].retried = TRUE, ![c].step = "first"]
          /\ UNCHANGED <<mu, lapsed>>
       \/ Fail(c) /\ UNCHANGED session
    /\ UNCHANGED <<phase, activeProject>>

Reconnect(c) ==
    /\ At(c, "reconnect")
    /\ \/ /\ ~caller[c].cancelled
          /\ session' = Fresh
          /\ caller' = [caller EXCEPT
                         ![c].retried = TRUE,
                         ![c].step = IF activeProject # None THEN "reactivate"
                                     ELSE "second"]
          /\ UNCHANGED <<mu, lapsed>>
       \/ Fail(c) /\ UNCHANGED session
    /\ UNCHANGED <<phase, activeProject>>

Reactivate(c) ==
    /\ At(c, "reactivate")
    /\ \/ /\ Answers /\ ~caller[c].cancelled
          /\ session' \in Activated
          /\ Goto(c, "second")
          /\ UNCHANGED <<mu, lapsed>>
       \/ Fail(c) /\ UNCHANGED session
    /\ UNCHANGED <<phase, activeProject>>

Second(c) ==
    /\ At(c, "second")
    /\ \/ Answers /\ ~caller[c].cancelled /\ Reply(c)
       \/ Fail(c)
    /\ UNCHANGED <<phase, session, activeProject>>

Return(c) ==
    /\ At(c, "answered") \/ At(c, "failed")
    /\ caller' = [caller EXCEPT ![c] = None]
    /\ UNCHANGED <<phase, session, activeProject, mu, lapsed>>

External(c) == Connect(c) \/ First(c) \/ Reconnect(c) \/ Reactivate(c) \/ Second(c)

Next ==
    \/ OpenConnect \/ OpenActivate \/ OpenRetry \/ Close \/ Restart \/ Die
    \/ \E c \in Callers :
         \/ \E kind \in {"query", "status"} : Start(c, kind)
         \/ Cancel(c) \/ Lock(c) \/ External(c) \/ Return(c)

Spec == Init /\ [][Next]_vars

\* The transport reports a dead process, and the context a cancelled request.
Unblocked(c) ==
    \/ caller[c].cancelled
    \/ caller[c].step \in {"first", "reactivate", "second"} /\ ~Answers

\* sync.Mutex starves nobody, and a request that has its result returns.
LocalFairness ==
    \A c \in Callers :
        /\ SF_vars(Lock(c)) /\ WF_vars(Return(c))
        /\ WF_vars(External(c) /\ Unblocked(c))

\* What the code itself guarantees: no call of Serena has a deadline.
FairSpec == Spec /\ LocalFairness

\* With a Serena that sooner or later answers, refuses or dies.
ResponsiveSpec == FairSpec /\ \A c \in Callers : WF_vars(External(c))

-----------------------------------------------------------------------------
(* Properties.                                                             *)

Answered(c) == At(c, "answered") /\ caller[c].kind = "query"

\* ARCHITECTURE_V2.md:45 "launched as an external MCP process and activated
\* against the current project root": every answer a query returns comes from a
\* process the project was activated in (serena.go:96-123).  It does not hold.
AnswersFromProject == \A c \in Callers : Answered(c) => caller[c].by = Root

\* The part of it that holds: until a request has failed, deaths of Serena and
\* reconnects in the middle of requests go unnoticed (serena.go:107-118).
AnswersUntilFailure == ~lapsed => AnswersFromProject

\* An answer got by reconnecting always comes from the project, whatever happened
\* before: the retry repairs a session an earlier failure left without activation.
RetryRepairs ==
    \A c \in Callers : Answered(c) /\ caller[c].retried => caller[c].by = Root

\* A service without Serena has not left a Serena process behind, and the mutex is
\* only held by a request that will give it back (service.go:30, serena.go:97-98).
NothingLeftBehind ==
    /\ phase = "without" => session = None
    /\ mu # None => /\ caller[mu] # None
                    /\ caller[mu].step \notin {"lock", "answered", "failed"}

\* Every request, of the status or of a symbol, returns: nobody keeps the mutex and
\* no reconnect goes round for ever (serena.go:96-123).
EveryRequestReturns ==
    \A c \in Callers : caller[c] # None ~> caller[c] = None

-----------------------------------------------------------------------------
(* Why the safety properties hold: the inductive invariant.                *)

Activation == session # None /\ session.project = Root

\* Requests exist only while the service is open, and one of them has the mutex.
MutexInv ==
    /\ phase # "serving" => \A c \in Callers : caller[c] = None
    /\ \A c \in Callers :
         mu = c <=> caller[c] # None /\ caller[c].step \notin {"lock", "answered", "failed"}

\* Before a failure the session is activated whenever nobody is replacing it; a
\* retry activates its own, because a served project is always remembered.
SessionInv ==
    /\ phase \in {"connect", "without", "closed"} => session = None
    /\ phase = "serving" => activeProject = Root
    /\ phase = "serving" /\ ~lapsed /\ (mu = None \/ At(mu, "first")) => Activation
    /\ \A c \in Callers :
         /\ At(c, "first") => session # None
         /\ At(c, "connect") => lapsed
         /\ At(c, "reactivate") => session # None
         /\ At(c, "second") => Activation
         /\ caller[c] # None /\ caller[c].retried /\ Answered(c) => caller[c].by = Root
         /\ ~lapsed /\ Answered(c) => caller[c].by = Root

SerenaInv == MutexInv /\ SessionInv
=============================================================================
