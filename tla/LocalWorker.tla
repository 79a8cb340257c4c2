---------------------------- MODULE LocalWorker ----------------------------
(***************************************************************************)
(* localworker.Worker.Run in one process: the route is decided from the    *)
(* telemetry of earlier executions, an answer is looked up, or computed by *)
(* one of the requests for the same key (executionFlights, of which only   *)
(* what SharedCalls promises is used), under the semaphore of the worker;  *)
(* and every request is recorded in the telemetry.  Clients may give up at *)
(* any time, and Ollama may never answer.                                  *)
(***************************************************************************)
EXTENDS Integers, FiniteSets

CONSTANTS
    Procs,      \* requests that may overlap
    Workers,    \* the worker of each request,
    WorkerOf,
    MaxWorkers, \* and how many may infer at a time
    Keys,       \* task, context, model, limits, route
    Asks,       \* request -> the keys it may be for
    MinSamples, MinReviewed, TrustReviewed,     \* 5, 3 and 10
    MaxRequests, \* bound on requests
    MaxEvents,   \* bound on clients that give up and failures
    Failed,
    None

ASSUME WorkerAssumption ==
    /\ WorkerOf \in [Procs -> Workers]
    /\ MaxWorkers \in [Workers -> Nat \ {0}]
    /\ Asks \in [Procs -> SUBSET Keys]
ASSUME BoundAssumption ==
    /\ {MinSamples, TrustReviewed, MaxRequests, MaxEvents} \subseteq Nat
    /\ MinReviewed \in Nat \ {0}

Evidence == [of : Keys]
Results == Evidence \cup {Failed}

VARIABLES
    entry,      \* cache/executions/<key>.json
    exec, req,  \* executionFlights, as SharedCalls has it
    call,       \* what each request does
    holds,      \* worker -> requests that hold its semaphore
    stats,      \* what the executions table adds up to
    requests, events

Group == INSTANCE SharedCalls

flights == <<exec, req>>
bounds == <<requests, events>>
vars == <<entry, exec, req, call, holds, stats, requests, events>>

Steps == {"route", "load", "do", "wait", "second", "acquire", "infer", "save",
          "publish", "forget", "record"}
Call == [step : Steps, key : Keys, live : BOOLEAN, review : BOOLEAN,
         val : Results \cup {None}]
Request == [key : Keys, part : BOOLEAN, val : Results \cup {None}]
Stats == [samples : Nat, reviewed : Nat, accepted : Nat, fallbacks : Nat, errors : Nat]

ASSUME NullAssumption ==
    /\ None \notin Call \cup Results \cup Request
    /\ Failed \notin Evidence

TypeOK ==
    /\ entry \in [Keys -> Evidence \cup {None}]
    /\ exec \in [Keys -> [over : BOOLEAN, val : Results \cup {None}]]
    /\ req \in [Procs -> Request \cup {None}]
    /\ call \in [Procs -> Call \cup {None}]
    /\ holds \in [Workers -> SUBSET Procs]
    /\ \A w \in Workers : Cardinality(holds[w]) <= MaxWorkers[w]
    /\ stats \in Stats
    /\ requests \in 0..MaxRequests /\ events \in 0..MaxEvents

Init ==
    /\ entry = [k \in Keys |-> None]
    /\ Group!Init
    /\ call = [p \in Procs |-> None]
    /\ holds = [w \in Workers |-> {}]
    /\ stats = [samples |-> 0, reviewed |-> 0, accepted |-> 0, fallbacks |-> 0, errors |-> 0]
    /\ requests = 0 /\ events = 0

At(p, step) == call[p] # None /\ call[p].step = step
Goto(p, step) == call' = [call EXCEPT ![p].step = step]
Event == events < MaxEvents /\ events' = events + 1 /\ UNCHANGED requests

-----------------------------------------------------------------------------
(* The router.                                                             *)

\* Decide: gates first (DeveloperFlow has them), then what is known of the workload.
Decide(gated, s) ==
    IF gated THEN [route |-> "strong", review |-> TRUE]
    ELSE IF s.samples < MinSamples \/ s.reviewed < MinReviewed
    THEN [route |-> "local-verify", review |-> TRUE]
    ELSE IF \/ 4 * s.fallbacks >= s.samples \/ 100 * s.errors >= 15 * s.samples
            \/ 10 * s.accepted < 7 * s.reviewed
    THEN [route |-> "strong", review |-> TRUE]
    ELSE IF /\ s.reviewed >= TrustReviewed /\ 100 * s.accepted >= 95 * s.reviewed
            /\ 20 * s.fallbacks <= s.samples /\ 100 * s.errors <= 3 * s.samples
    THEN [route |-> "local", review |-> FALSE]
    ELSE [route |-> "local-verify", review |-> TRUE]

-----------------------------------------------------------------------------
(* Run.                                                                    *)

Ask(p, k) ==
    /\ call[p] = None
    /\ requests < MaxRequests /\ requests' = requests + 1
    /\ call' = [call EXCEPT ![p] = [step |-> "route", key |-> k, live |-> TRUE,
                                    review |-> TRUE, val |-> None]]
    /\ UNCHANGED <<entry, flights, holds, stats, events>>

\* The client gives up: its context is cancelled, Run goes on.
Cancel(p) ==
    /\ call[p] # None /\ call[p].live
    /\ Event
    /\ call' = [call EXCEPT ![p].live = FALSE]
    /\ UNCHANGED <<entry, flights, holds, stats>>

\* A strong route, or resources that do not allow the inference, fall back.
Route(p, gated, allowed) ==
    /\ At(p, "route")
    /\ LET d == Decide(gated, stats) IN
       call' = [call EXCEPT ![p].review = d.review,
                  ![p].step = IF d.route # "strong" /\ allowed THEN "load" ELSE "record"]
    /\ UNCHANGED <<entry, flights, holds, stats, bounds>>

Load(p) ==
    /\ At(p, "load")
    /\ LET k == call[p].key IN
         IF entry[k] # None
         THEN /\ call' = [call EXCEPT ![p].step = "record", ![p].val = entry[k]]
              /\ UNCHANGED req
         ELSE Goto(p, "do") /\ req' = [req EXCEPT ![p] = Group!Asked(k)]
    /\ UNCHANGED <<entry, exec, holds, stats, bounds>>

Join(p) ==
    /\ At(p, "do")
    /\ Group!Join(p, call[p].key) \/ Group!Late(p, call[p].key)
    /\ Goto(p, "wait")
    /\ UNCHANGED <<entry, holds, stats, bounds>>

Lead(p) ==
    /\ At(p, "do")
    /\ Group!Begin(p, call[p].key)
    /\ Goto(p, "second")
    /\ UNCHANGED <<entry, holds, stats, bounds>>

SecondLoad(p) ==
    /\ At(p, "second")
    /\ LET e == entry[call[p].key] IN
         call' = [call EXCEPT ![p].step = IF e # None THEN "publish" ELSE "acquire",
                              ![p].val = e]
    /\ UNCHANGED <<entry, flights, holds, stats, bounds>>

\* Mutant: a slot is taken whether one is free or not.
AcquireFull(p) ==
    /\ At(p, "acquire")
    /\ holds' = [holds EXCEPT ![WorkerOf[p]] = @ \cup {p}]
    /\ Goto(p, "infer")
    /\ UNCHANGED <<entry, flights, stats, bounds>>

Acquire(p) ==
    /\ At(p, "acquire")
    /\ LET w == WorkerOf[p] IN
         /\ Cardinality(holds[w]) < MaxWorkers[w]
         /\ holds' = [holds EXCEPT ![w] = @ \cup {p}]
    /\ Goto(p, "infer")
    /\ UNCHANGED <<entry, flights, stats, bounds>>

AcquireCancelled(p) ==
    /\ At(p, "acquire") /\ ~call[p].live
    /\ call' = [call EXCEPT ![p].step = "publish", ![p].val = Failed]
    /\ UNCHANGED <<entry, flights, holds, stats, bounds>>

Infer(p) ==
    /\ At(p, "infer") /\ call[p].live
    /\ call' = [call EXCEPT ![p].step = "save", ![p].val = [of |-> call[p].key]]
    /\ UNCHANGED <<entry, flights, holds, stats, bounds>>

Release(p) == holds' = [w \in Workers |-> holds[w] \ {p}]

\* Mutant: the slot is given back only after an answer.
InferFailsHolding(p) ==
    /\ At(p, "infer")
    /\ call' = [call EXCEPT ![p].step = "publish", ![p].val = Failed]
    /\ UNCHANGED <<entry, flights, holds, stats, bounds>>

\* No Ollama, no valid evidence, the client gave up, or three minutes went by.
InferFails(p) ==
    /\ At(p, "infer")
    /\ call' = [call EXCEPT ![p].step = "publish", ![p].val = Failed]
    /\ Release(p)
    /\ UNCHANGED <<entry, flights, stats, bounds>>

\* The error of Save is ignored.
Save(p) ==
    /\ At(p, "save")
    /\ \/ entry' = [entry EXCEPT ![call[p].key] = call[p].val] /\ UNCHANGED bounds
       \/ Event /\ UNCHANGED entry
    /\ Goto(p, "publish")
    /\ Release(p)
    /\ UNCHANGED <<flights, stats>>

Publish(p) ==
    /\ At(p, "publish")
    /\ Group!End(call[p].key, call[p].val)
    /\ Goto(p, "forget")
    /\ UNCHANGED <<entry, holds, stats, bounds>>

Forget(p) ==
    /\ At(p, "forget")
    /\ Group!Forget(call[p].key)
    /\ Goto(p, "wait")
    /\ UNCHANGED <<entry, holds, stats, bounds>>

DoReturns(p) ==
    /\ At(p, "wait")
    /\ Group!Take(p)
    /\ call' = [call EXCEPT ![p].step = "record", ![p].val = req[p].val]
    /\ UNCHANGED <<entry, holds, stats, bounds>>

\* A request without an answer fell back; in every fallback the reason is the error.
FellBack(p) == call[p].val \notin Evidence

\* Mutant: an execution that did not fall back counts as accepted.
RecordedAccepted(s, fallback) ==
    LET n == IF fallback THEN 1 ELSE 0 IN
    [s EXCEPT !.samples = @ + 1, !.fallbacks = @ + n, !.errors = @ + n,
              !.reviewed = @ + 1 - n, !.accepted = @ + 1 - n]

Recorded(s, fallback) ==
    LET n == IF fallback THEN 1 ELSE 0 IN
    [s EXCEPT !.samples = @ + 1, !.fallbacks = @ + n, !.errors = @ + n]

\* Run answers; nothing is recorded for a client that gave up.
Record(p) ==
    /\ At(p, "record")
    /\ stats' = IF call[p].live THEN Recorded(stats, FellBack(p)) ELSE stats
    /\ call' = [call EXCEPT ![p] = None]
    /\ UNCHANGED <<entry, flights, holds, bounds>>

\* What Run does without its client or Ollama.
Runs(p) ==
    \/ \E gated, allowed \in BOOLEAN : Route(p, gated, allowed)
    \/ Load(p) \/ Join(p) \/ Lead(p) \/ SecondLoad(p)
    \/ Acquire(p) \/ AcquireCancelled(p) \/ InferFails(p) \/ Save(p)
    \/ Publish(p) \/ Forget(p) \/ DoReturns(p) \/ Record(p)

Next ==
    \E p \in Procs :
        \/ \E k \in Asks[p] : Ask(p, k)
        \/ Cancel(p) \/ Infer(p) \/ Runs(p)

\* A step of Run that can be taken is; the HTTP client ends a call that Ollama does
\* not answer; and a channel serves those who wait to send in their order.
Fairness ==
    \A p \in Procs : WF_vars(Runs(p)) /\ SF_vars(Acquire(p))

Spec == Init /\ [][Next]_vars /\ Fairness

-----------------------------------------------------------------------------
(* Properties.                                                             *)

\* Whoever joined whom, gave up or timed out, Run returns: no request waits for ever
\* for a slot or for the leader of its key (worker.go:206-237).
EveryRequestReturns ==
    \A p \in Procs : call[p] # None ~> call[p] = None

\* What a request gets was inferred for its own key, and it was told that a strong
\* model has to review it: nothing that runs ever marks an execution as reviewed, so
\* no history earns a task the route without review (router.go:87-107, worker.go:206-253).
AnswersReviewed ==
    \A p \in Procs : At(p, "record") /\ ~FellBack(p) =>
        call[p].val.of = call[p].key /\ call[p].review

\* One process infers for a key once at a time, and holds a slot only while it does.
SlotsHeld ==
    /\ \A w \in Workers : \A p \in holds[w] : At(p, "infer") \/ At(p, "save")
    /\ \A p, q \in Procs :
         At(p, "infer") /\ At(q, "infer") /\ p # q => call[p].key # call[q].key
=============================================================================
