--------------------------- MODULE HardwarePolicy ---------------------------
(***************************************************************************)
(* The limits of local inference, from detection to the model call: the    *)
(* policy the user accepts for a machine, the autotuner that measures and  *)
(* recommends, and local-run, which reviews the policy, looks at the       *)
(* resources and asks the model or falls back.  The commands and MCP tools *)
(* run in processes of their own on one state directory, which may move to *)
(* another machine; both JSON files are written in place.                  *)
(***************************************************************************)
EXTENDS HardwareLimits

CONSTANTS
    Actors,     \* processes that may overlap
    Commands,   \* actor -> the commands it runs
    Machines,
    Memory,     \* machine -> MB
    Resources,  \* free memory and used swap that may be found
    Overrides,  \* limits a user may pass, NoOverride among them
    Requests,   \* tokens of a compiled context
    Bases,      \* what the router recommends for a kind of task
    MaxEvents,  \* bound on moves, acceptances, benchmarks, failed detections, crashes
    Broken,     \* a file that is no JSON
    None

ASSUME EventAssumption == MaxEvents \in Nat
ASSUME CommandAssumption ==
    Commands \in [Actors -> SUBSET {"accept", "tune", "adopt", "run"}]
ASSUME MemoryAssumption == Memory \in [Machines -> Nat]
ASSUME ResourceAssumption == Resources \subseteq [available : Nat, swap : Nat]
ASSUME OverrideAssumption == Overrides \subseteq Limits /\ NoOverride \in Overrides
ASSUME RequestAssumption ==
    Requests \subseteq Nat /\ Bases \subseteq Nat \ {0}

VARIABLES
    machine,    \* where the state directory is
    policy,     \* hardware-policy.json; None: no such file
    report,     \* autotune-report.json
    cache,      \* cached reports
    act,        \* what each command does
    events,
    chosen,     \* history: limits users asked for, by hardware
    measured    \* history: longest context that completed safely, by hardware

files == <<policy, report, cache>>
vars == <<machine, policy, report, cache, act, events, chosen, measured>>

\* The hardware ID; the GPU is part of it and may fail to be detected.
Id == [machine : Machines, gpu : BOOLEAN]
Policy == [id : Id, override : Limits, tuned : BOOLEAN] \* tuned: history
Report == [id : Id, recommended : Limits \cup {None}]
Key == [id : Id, limits : Limits]

Steps == {"savePolicy", "writePolicy",
          "measure", "trials", "saveReport", "writeReport",
          "adopt", "snapshot", "ask"}
Idle == [step |-> "idle"]

TypeOK ==
    /\ machine \in Machines
    /\ policy \in Policy \cup {None, Broken}
    /\ report \in Report \cup {None, Broken}
    /\ \A k \in DOMAIN cache : k \in Key /\ cache[k] \in Report
    /\ \A a \in Actors :
         LET r == act[a] IN
         /\ r.step \in Steps \cup {"idle"}
         /\ r.step \in {"savePolicy", "writePolicy"} => r.policy \in Policy
         /\ r.step \in {"measure", "trials"} => r.key \in Key
         /\ r.step = "trials" => r.id \in Id /\ r.limits \in Limits /\ r.safe \in Nat
         /\ r.step \in {"saveReport", "writeReport", "adopt"} => r.report \in Report
         /\ r.step \in {"snapshot", "ask"} => r.id \in Id /\ r.limits \in Limits
    /\ events \in 0..MaxEvents
    /\ chosen \in [Id -> SUBSET Limits]
    /\ measured \in [Id -> Nat]

Event(n) == events + n <= MaxEvents /\ events' = events + n

\* A detection that misses the GPU is an event, too.
Costs(id, n) == Event(IF id.gpu THEN n ELSE n + 1)

Init ==
    /\ machine \in Machines
    /\ policy = None /\ report = None
    /\ cache = [k \in {} |-> None]
    /\ act = [a \in Actors |-> Idle]
    /\ events = 0
    /\ chosen = [id \in Id |-> {}]
    /\ measured = [id \in Id |-> 0]

At(a, step) == act[a].step = step

Starts(a, command) == At(a, "idle") /\ command \in Commands[a]

Do(a, r) == act' = [act EXCEPT ![a] = r]

-----------------------------------------------------------------------------
(* Detection and the policy in force.                                      *)

Detected(id) == id.machine = machine

\* Mutant: an accepted policy holds wherever the state directory goes.
EffectiveAnywhere(id) ==
    IF policy = None THEN Recommended(Memory[id.machine])
    ELSE ApplyOverride(Recommended(Memory[id.machine]), policy.override)

\* BuildView: a policy accepted on other hardware is ignored.
Effective(id) ==
    IF policy # None /\ policy.id = id
    THEN ApplyOverride(Recommended(Memory[id.machine]), policy.override)
    ELSE Recommended(Memory[id.machine])

\* Every command but hardware-reset and autotune-show fails if the policy is no JSON.
Review(id) == policy # Broken /\ Detected(id)

-----------------------------------------------------------------------------
(* hardware-accept and hardware-reset.                                     *)

\* Mutant: the policy is accepted for no hardware in particular.
AcceptUnbound(a, id, o) ==
    /\ Starts(a, "accept")
    /\ Review(id) /\ Costs(id, 1)
    /\ Do(a, [step |-> "savePolicy",
              policy |-> [id |-> None, override |-> o, tuned |-> FALSE]])
    /\ chosen' = [chosen EXCEPT ![id] = @ \cup ({o} \ {NoOverride})]
    /\ UNCHANGED <<machine, files, measured>>

Accept(a, id, o) ==
    /\ Starts(a, "accept")
    /\ Review(id) /\ Costs(id, 1)
    /\ Do(a, [step |-> "savePolicy",
              policy |-> [id |-> id, override |-> o, tuned |-> FALSE]])
    /\ chosen' = [chosen EXCEPT ![id] = @ \cup ({o} \ {NoOverride})]
    /\ UNCHANGED <<machine, files, measured>>

\* os.WriteFile: another that has the file open writes over the same bytes.
SavePolicyCreate(a) ==
    /\ At(a, "savePolicy")
    /\ policy' = Broken
    /\ act' = [b \in Actors |->
                 IF b = a THEN [step |-> "writePolicy", policy |-> act[a].policy, open |-> TRUE,
                                torn |-> \E c \in Actors : At(c, "writePolicy") /\ act[c].open]
                 ELSE IF At(b, "writePolicy") THEN [act[b] EXCEPT !.torn = TRUE]
                 ELSE act[b]]
    /\ UNCHANGED <<machine, report, cache, events, chosen, measured>>

\* A file that was removed meanwhile is written, and gone.
SavePolicyWrite(a) ==
    /\ At(a, "writePolicy")
    /\ policy' \in IF ~act[a].open THEN {policy}
                   ELSE {act[a].policy} \cup (IF act[a].torn THEN {Broken} ELSE {})
    /\ Do(a, Idle)
    /\ UNCHANGED <<machine, report, cache, events, chosen, measured>>

Reset ==
    /\ policy # None
    /\ policy' = None
    /\ act' = [a \in Actors |-> IF At(a, "writePolicy")
                                THEN [act[a] EXCEPT !.open = FALSE] ELSE act[a]]
    /\ UNCHANGED <<machine, report, cache, events, chosen, measured>>

-----------------------------------------------------------------------------
(* autotune: RunCached, Run and SaveReport.                                *)

\* The key is of what holds now; a hit answers at once.
Tune(a, id, force) ==
    /\ Starts(a, "tune")
    /\ Review(id)
    /\ LET key == [id |-> id, limits |-> Effective(id)] IN
       IF ~force /\ key \in DOMAIN cache
       THEN Costs(id, 0) /\ Do(a, [step |-> "saveReport", report |-> cache[key]])
       ELSE Costs(id, 1) /\ Do(a, [step |-> "measure", key |-> key])
    /\ UNCHANGED <<machine, files, chosen, measured>>

\* Run looks at hardware, policy and resources for itself.
Measure(a, id, r) ==
    /\ At(a, "measure")
    /\ Review(id) /\ Costs(id, 0)
    /\ Do(a, [step |-> "trials", key |-> act[a].key, id |-> id, limits |-> Effective(id),
              baseline |-> r, todo |-> Contexts(Effective(id)), safe |-> 0])
    /\ UNCHANGED <<machine, files, chosen, measured>>

MeasureFails(a) ==
    /\ At(a, "measure") /\ policy = Broken
    /\ Do(a, Idle)
    /\ UNCHANGED <<machine, files, events, chosen, measured>>

\* Contexts rise; a trial that fails does not end the benchmark.
Trial(a, c, answered, sample) ==
    /\ At(a, "trials") /\ c \in act[a].todo
    /\ \A d \in act[a].todo : c <= d
    /\ LET r == act[a]
           safe == answered /\ TrialSafe(Memory[machine], r.baseline, sample)
       IN  /\ Do(a, [r EXCEPT !.todo = @ \ {c}, !.safe = IF safe THEN c ELSE @])
           /\ measured' = IF safe THEN [measured EXCEPT ![r.id] = Bigger(@, c)] ELSE measured
    /\ UNCHANGED <<machine, files, events, chosen>>

\* The report is cached under the key of the start, and saved by the command.
Finish(a, fast) ==
    /\ At(a, "trials") /\ act[a].todo = {}
    /\ LET r == act[a]
           rep == [id |-> r.id, recommended |->
                     IF r.safe = 0 THEN None ELSE Recommend(r.limits, r.safe, fast)]
       IN  /\ cache' = [k \in DOMAIN cache \cup {r.key} |->
                          IF k = r.key THEN rep ELSE cache[k]]
           /\ Do(a, [step |-> "saveReport", report |-> rep])
    /\ UNCHANGED <<machine, policy, report, events, chosen, measured>>

SaveReportCreate(a) ==
    /\ At(a, "saveReport")
    /\ report' = Broken
    /\ act' = [b \in Actors |->
                 IF b = a THEN [step |-> "writeReport", report |-> act[a].report,
                                torn |-> \E c \in Actors : At(c, "writeReport")]
                 ELSE IF At(b, "writeReport") THEN [act[b] EXCEPT !.torn = TRUE]
                 ELSE act[b]]
    /\ UNCHANGED <<machine, policy, cache, events, chosen, measured>>

SaveReportWrite(a) ==
    /\ At(a, "writeReport")
    /\ report' \in {act[a].report} \cup (IF act[a].torn THEN {Broken} ELSE {})
    /\ Do(a, Idle)
    /\ UNCHANGED <<machine, policy, cache, events, chosen, measured>>

-----------------------------------------------------------------------------
(* autotune-accept.                                                        *)

LoadReport(a) ==
    /\ Starts(a, "adopt")
    /\ report \notin {None, Broken}
    /\ Do(a, [step |-> "adopt", report |-> report])
    /\ UNCHANGED <<machine, files, events, chosen, measured>>

\* Mutant: any report with a recommendation will do.
ValidateUsable(r, id) == r.recommended # None

\* ValidateReportForHardware
Validate(r, id) == r.id = id /\ r.recommended # None

\* With limits of the user on top, or without.
Adopt(a, id, o) ==
    /\ At(a, "adopt")
    /\ Review(id) /\ Costs(id, 0)
    /\ Validate(act[a].report, id)
    /\ Do(a, [step |-> "savePolicy",
              policy |-> [id |-> id, tuned |-> o = NoOverride,
                          override |-> IF o = NoOverride THEN act[a].report.recommended
                                       ELSE ApplyOverride(act[a].report.recommended, o)]])
    /\ chosen' = [chosen EXCEPT ![id] = @ \cup ({o} \ {NoOverride})]
    /\ UNCHANGED <<machine, files, measured>>

AdoptFails(a, id) ==
    /\ At(a, "adopt")
    /\ \/ policy = Broken /\ UNCHANGED events
       \/ Review(id) /\ Costs(id, 0) /\ ~Validate(act[a].report, id)
    /\ Do(a, Idle)
    /\ UNCHANGED <<machine, files, chosen, measured>>

-----------------------------------------------------------------------------
(* local-run.                                                              *)

LocalRun(a, id) ==
    /\ Starts(a, "run")
    /\ Review(id) /\ Costs(id, 0)
    /\ Do(a, [step |-> "snapshot", id |-> id, limits |-> Effective(id),
              tuned |-> policy # None /\ policy.id = id /\ policy.tuned])
    /\ UNCHANGED <<machine, files, chosen, measured>>

\* Worker.Run asks under the limits of the review, given the resources of now.
Snapshot(a, r, base, requested) ==
    /\ At(a, "snapshot")
    /\ IF MayAsk(act[a].limits, Memory[machine], r, base, requested)
       THEN Do(a, [step |-> "ask", id |-> act[a].id, limits |-> act[a].limits,
                   tuned |-> act[a].tuned, resources |-> r, prompt |-> requested,
                   numCtx |-> NumCtx(act[a].limits, base, requested)])
       ELSE Do(a, Idle)
    /\ UNCHANGED <<machine, files, events, chosen, measured>>

Answered(a) ==
    /\ At(a, "ask")
    /\ Do(a, Idle)
    /\ UNCHANGED <<machine, files, events, chosen, measured>>

-----------------------------------------------------------------------------
Crash(a) ==
    /\ ~At(a, "idle")
    /\ Event(1)
    /\ Do(a, Idle)
    /\ UNCHANGED <<machine, files, chosen, measured>>

\* The state directory is opened on another machine.
Move(m) ==
    /\ m # machine /\ \A a \in Actors : At(a, "idle")
    /\ Event(1)
    /\ machine' = m
    /\ UNCHANGED <<files, act, chosen, measured>>

Command(a) ==
    \/ \E id \in Id :
         \/ \E o \in Overrides : Accept(a, id, o) \/ Adopt(a, id, o)
         \/ \E force \in BOOLEAN : Tune(a, id, force)
         \/ \E r \in Resources : Measure(a, id, r)
         \/ AdoptFails(a, id) \/ LocalRun(a, id)
    \/ SavePolicyCreate(a) \/ SavePolicyWrite(a)
    \/ MeasureFails(a) \/ LoadReport(a)
    \/ At(a, "trials") /\ \E c \in act[a].todo, answered \in BOOLEAN, sample \in Resources :
                             Trial(a, c, answered, sample)
    \/ \E fast \in BOOLEAN : Finish(a, fast)
    \/ SaveReportCreate(a) \/ SaveReportWrite(a)
    \/ \E r \in Resources, base \in Bases, requested \in Requests :
         Snapshot(a, r, base, requested)
    \/ Answered(a) \/ Crash(a)

Next == Reset \/ (\E m \in Machines : Move(m)) \/ \E a \in Actors : Command(a)

Spec == Init /\ [][Next]_vars

-----------------------------------------------------------------------------
(* Properties.                                                             *)

Asking == {a \in Actors : At(a, "ask")}

\* AUTOTUNE.md:101 "The runtime resource guard remains authoritative after
\* autotuning": whatever was accepted, measured or moved, the model is asked only with
\* a gigabyte left beside the reserve, never under critical pressure, and with a
\* prompt within the soft and a window within the hard limit (worker.go:155-205).
AskSafe ==
    \A a \in Asking :
        LET r == act[a]
            total == Memory[machine]
        IN  /\ r.prompt <= r.limits.soft /\ r.numCtx <= r.limits.hard
            /\ Pressure(total, r.resources) # "unknown" =>
                 /\ Pressure(total, r.resources) # "critical"
                 /\ r.resources.available - r.limits.reserve >= 1024

\* No chain of policies, reports, cache hits and machines raises a limit on its own: a
\* run has at most the hard limit of this machine, or one a user asked for on it
\* (policy.go:70-108, report.go:37-49).
LimitsChosen ==
    \A a \in Actors : act[a].step \in {"snapshot", "ask"} =>
        \/ act[a].limits.hard <= Recommended(Memory[machine]).hard
        \/ \E o \in chosen[act[a].id] : act[a].limits.hard \in {o.soft, o.hard}

\* AUTOTUNE.md:95 "rejects a report generated on different hardware": under a
\* recommendation accepted as it is, no window is larger than a context that completed
\* safely on hardware with this ID, although the report may be cached under the key of
\* other hardware or an older policy (cache.go:26-53).
TunedMeasured ==
    \A a \in Asking : act[a].tuned => act[a].numCtx <= measured[act[a].id]
=============================================================================
