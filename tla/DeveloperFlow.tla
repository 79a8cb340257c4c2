---------------------------- MODULE DeveloperFlow ----------------------------
(***************************************************************************)
(* The requests that may end in local inference, on top of the brownfield  *)
(* engine: developerflow.Prepare / Run, brain_local_run (and local-run of  *)
(* the CLI), and a localworker.Run whose caller gave no project metadata.  *)
(* What the worker's history, hardware and model answer is left open; what *)
(* each entry point checks before it asks the model is the subject.        *)
(***************************************************************************)
EXTENDS Brownfield

CONSTANT HardTasks      \* tasks whose text matches a hard-risk pattern

ASSUME HardAssumption == HardTasks \subseteq Tasks

VARIABLE job            \* the request each call of the engine belongs to

fvars == <<vcs, tree, work, baseline, call, origin, edits, job>>

Kinds == {"begin", "impact", "flow", "run", "local", "worker"}
Routes == {"strong", "local", "local-verify"}
Outcomes == {"none", "error", "plan", "strong-owner", "fallback", "evidence"}
Job == [kind : Kinds, session : Sessions, task : Tasks,
        step : {"detect", "engine", "decide", "model", "answered"},
        mode : Modes, ready : BOOLEAN, outcome : Outcomes]

ASSUME JobNullAssumption == None \notin Job

FlowTypeOK == TypeOK /\ job \in [Calls -> Job \cup {None}]

FlowInit == Init /\ job = [c \in Calls |-> None]

\* Mutant: the route does not look at the discovery contract.
DecideUngated(t, mode, ready) == IF t \in HardTasks THEN {"strong"} ELSE Routes

(* Router.Decide as these callers use it: no cache hit, no semantic-only.   *)
Decide(t, mode, ready) ==
    IF (mode = "existing" /\ ~ready) \/ t \in HardTasks
    THEN {"strong"} ELSE Routes

EntryOf(kind) ==
    CASE kind \in {"begin", "impact"} -> kind
      [] kind = "worker" -> "ensure"
      [] OTHER -> "prepare"

Submit(c, kind, s, t) ==
    /\ job[c] = None
    /\ job' = [job EXCEPT ![c] =
                [kind |-> kind, session |-> s, task |-> t,
                 step |-> IF kind = "worker" THEN "detect" ELSE "engine",
                 mode |-> "new", ready |-> FALSE, outcome |-> "none"]]
    /\ IF kind = "worker"
       THEN call[c] = None /\ UNCHANGED vars
       ELSE Start(c, EntryOf(kind), s, t)

Answer(c, outcome) ==
    job' = [job EXCEPT ![c].outcome = outcome, ![c].step = "answered"]

(* localworker.Run without project metadata detects the project itself and, *)
(* if it exists, goes through Ensure and Impact.                            *)
WorkerDetect(c) ==
    /\ job[c] # None /\ job[c].step = "detect"
    /\ IF Mode(vcs = "born") = "existing"
       THEN /\ job' = [job EXCEPT ![c].mode = "existing", ![c].step = "engine"]
            /\ Start(c, "ensure", job[c].session, job[c].task)
       ELSE /\ job' = [job EXCEPT ![c].step = "decide"]
            /\ UNCHANGED vars

Engine(c) ==
    /\ job[c] # None /\ job[c].step = "engine"
    /\ CallStep(c)
    /\ UNCHANGED job

EngineFailed(c) ==
    /\ job[c] # None /\ job[c].step = "engine"
    /\ call[c].step = "failed"
    /\ IF job[c].kind = "worker"
       THEN job' = [job EXCEPT ![c].ready = FALSE, ![c].step = "decide"]
       ELSE Answer(c, "error")
    /\ UNCHANGED vars

\* Mutant: the worker recovers readiness and forgets the conflicts.
WorkerRecoveredBlind(c) ==
    /\ job[c] # None /\ job[c].step = "engine" /\ job[c].kind = "worker"
    /\ call[c].step = "done"
    /\ job' = [job EXCEPT ![c].ready = call[c].ready, ![c].step = "decide"]
    /\ UNCHANGED vars

(* The recovered project metadata a worker without any decides with.        *)
WorkerRecovered(c) ==
    /\ job[c] # None /\ job[c].step = "engine" /\ job[c].kind = "worker"
    /\ call[c].step = "done"
    /\ job' = [job EXCEPT ![c].ready = call[c].ready /\ call[c].conflicts = {},
                          ![c].step = "decide"]
    /\ UNCHANGED vars

(* The rest of Prepare, and what Run and brain_local_run do with the plan:  *)
(* the route is decided from the baseline's mode and the impact's           *)
(* readiness; any of the reviews in between may fail the request.           *)
Planned(c) ==
    /\ job[c] # None /\ job[c].step = "engine"
    /\ job[c].kind \in {"flow", "run", "local"} /\ call[c].step = "done"
    /\ LET mode == call[c].begun.mode
           toWorker == job' = [job EXCEPT ![c].mode = mode,
                                          ![c].ready = call[c].ready,
                                          ![c].step = "decide"]
       IN  \/ Answer(c, "error")
           \/ \E route \in Decide(job[c].task, mode, call[c].ready) :
                CASE job[c].kind = "flow" -> Answer(c, "plan")
                  [] job[c].kind = "local" -> toWorker
                  [] OTHER ->
                       CASE route = "strong" -> Answer(c, "strong-owner")
                         [] mode = "existing" /\ ~call[c].ready -> Answer(c, "error")
                         [] call[c].conflicts # {} -> Answer(c, "strong-owner")
                         [] OTHER -> toWorker
    /\ UNCHANGED vars

(* localworker.Run from its own Decide on: a strong route, the hardware     *)
(* policy, or a context above the local budget make it a fallback.          *)
WorkerDecide(c) ==
    /\ job[c] # None /\ job[c].step = "decide"
    /\ \E route \in Decide(job[c].task, job[c].mode, job[c].ready) :
         \/ Answer(c, "fallback")
         \/ /\ route # "strong"
            /\ job' = [job EXCEPT ![c].step = "model"]
    /\ UNCHANGED vars

(* The execution cache, a joined flight, or Ollama answers, or the call     *)
(* fails.                                                                   *)
AskModel(c) ==
    /\ job[c] # None /\ job[c].step = "model"
    /\ \E outcome \in {"evidence", "fallback"} : Answer(c, outcome)
    /\ UNCHANGED vars

(* brain_project_begin and brain_project_impact only pass the answer on.    *)
Passed(c) ==
    /\ job[c] # None /\ job[c].step = "engine"
    /\ job[c].kind \in {"begin", "impact"} /\ call[c].step = "done"
    /\ Answer(c, "plan")
    /\ UNCHANGED vars

Leave(c) ==
    /\ job[c] # None
    /\ job' = [job EXCEPT ![c] = None]
    /\ \/ /\ job[c].step = "answered"
          /\ \/ Return(c)
             \/ call[c] = None /\ UNCHANGED vars
       \/ Crash(c)

FlowStep(c) ==
    \/ WorkerDetect(c) \/ Engine(c) \/ EngineFailed(c) \/ WorkerRecovered(c)
    \/ Planned(c) \/ WorkerDecide(c) \/ AskModel(c) \/ Passed(c)

FlowNext ==
    \/ Developer /\ UNCHANGED job
    \/ \E c \in Calls :
         \/ \E k \in Kinds, s \in Sessions, t \in Tasks : Submit(c, k, s, t)
         \/ FlowStep(c)
         \/ Leave(c)

FlowSpec == FlowInit /\ [][FlowNext]_fvars

-----------------------------------------------------------------------------
(* Properties.                                                             *)

\* The local model is about to be asked, and nothing has moved since the impact
\* this request was planned with.
AskingLocal(c, kinds) ==
    /\ job[c] # None /\ job[c].step = "model" /\ job[c].kind \in kinds
    /\ call[c] # None

NoUnreportedOverlap(kinds) ==
    \A c \in Calls : AskingLocal(c, kinds) /\ Comparable(c) =>
        UserChanged(call[c].session) \cap Dirty \subseteq Quoted

\* BROWNFIELD.md:59, for the entry points that look at the conflicts: neither
\* developer-run nor a worker that recovered the project itself asks the local
\* model while a developer's dirty file differs from its baseline and from HEAD.
LocalRunGuarded == NoUnreportedOverlap({"run", "worker"})

\* BROWNFIELD.md:59 "Guarded local execution is suppressed", for every entry
\* point: also brain_local_run, which :107 says does not bypass the gate.
EveryEntryGuarded == NoUnreportedOverlap(Kinds)

DiscoveryReadyNow(c) ==
    /\ call[c].base.base
    /\ rankFiles(call[c].base.task, AllFiles, Dirty) # {}

\* BROWNFIELD.md:71-77, for sessions whose baseline already saw an existing
\* project: no entry point asks the local model about it without a base commit
\* and an affected file, judged on the repository as it is when the model is asked.
DiscoveryGated ==
    \A c \in Calls :
        /\ AskingLocal(c, Kinds) /\ Comparable(c)
        /\ Mode(vcs = "born") = "existing"
        /\ call[c].begun.mode = "existing"
        => DiscoveryReadyNow(c)

-----------------------------------------------------------------------------
(* Why they hold: the inductive invariant.                                 *)

\* The engine is called on behalf of a request, by its entry point, and only the
\* requests that are meant to run get past the plan.
JobInv(c) ==
    IF job[c] = None THEN call[c] = None
    ELSE /\ call[c] # None => call[c].entry = EntryOf(job[c].kind)
         /\ job[c].step = "detect" => job[c].kind = "worker" /\ call[c] = None
         /\ job[c].step = "engine" => call[c] # None
         /\ job[c].kind = "worker" /\ call[c] # None => job[c].mode = "existing"
         /\ job[c].step \in {"decide", "model"} =>
              job[c].kind \in {"run", "local", "worker"}
         /\ job[c].step = "model" => (job[c].mode = "existing" => job[c].ready)

\* What a request decides with is what the engine has answered it, which stays as
\* it is until the request leaves.
DecidedInv(c) ==
    /\ job[c] # None /\ call[c] # None
    /\ job[c].step \in {"decide", "model"}
    => /\ job[c].kind \in {"run", "local"} =>
            /\ call[c].step = "done"
            /\ job[c].mode = call[c].begun.mode /\ job[c].ready = call[c].ready
       /\ job[c].kind = "run" => call[c].conflicts = {}
       /\ job[c].kind = "worker" /\ job[c].ready =>
            call[c].step = "done" /\ call[c].ready /\ call[c].conflicts = {}

FlowInv == \A c \in Calls : JobInv(c) /\ DecidedInv(c)
=============================================================================
