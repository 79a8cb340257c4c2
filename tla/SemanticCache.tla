--------------------------- MODULE SemanticCache ---------------------------
(***************************************************************************)
(* semantic.CachedProvider: the answers of Serena, kept under the state of *)
(* the repository, the operation and its arguments.  The provider of each  *)
(* process has a single flight of its own (economy.Group, of which only    *)
(* what SharedCalls promises is used); all processes share the cache       *)
(* directory.  The state is read before the query, and the developer edits *)
(* in between.                                                             *)
(***************************************************************************)
EXTENDS Integers

CONSTANTS
    Procs,      \* goroutines that query
    Hosts,      \* operating system processes
    HostOf,     \* goroutine -> process
    States,     \* what StateID tells apart
    FirstState,
    Queries,    \* operation and arguments
    Failed,     \* a query that came back with an error
    MaxEvents,  \* bound on edits, failures and crashes
    None

ASSUME HostAssumption == HostOf \in [Procs -> Hosts]
ASSUME StateAssumption == FirstState \in States
ASSUME EventAssumption == MaxEvents \in Nat

\* What Serena says of a query in a state of the worktree.
Answer == [query : Queries, tree : States]
Key == [state : States, query : Queries]
FlightKey == [host : Hosts, key : Key]
Results == Answer \cup {Failed}

VARIABLES
    tree,       \* the state of the repository
    entry,      \* cache/semantic/<key>.json, None if missing or unreadable
    exec, req,  \* the single flights, as SharedCalls has them
    call,       \* what each goroutine does
    events,
    mixed,      \* history: keys a query was answered for after an edit
    answered,   \* history: flight keys whose query has been answered
    lost        \* history: a query or save failed, or a process died

Group == INSTANCE SharedCalls WITH Keys <- FlightKey

repo == <<tree, events>>
flights == <<exec, req>>
history == <<mixed, answered, lost>>
vars == <<tree, entry, exec, req, call, events, mixed, answered, lost>>

Steps == {"state", "direct", "load", "do", "wait", "second", "query", "save",
          "publish", "forget", "return"}
Call == [step : Steps, query : Queries, key : Key \cup {None},
         val : Results \cup {None},
         calm : BOOLEAN]        \* history: no edit since the state was read

Request == [key : FlightKey, part : BOOLEAN, val : Results \cup {None}]

ASSUME NullAssumption ==
    /\ None \notin Call \cup Key \cup Results \cup Request
    /\ Failed \notin Answer

TypeOK ==
    /\ tree \in States
    /\ entry \in [Key -> Answer \cup {None}]
    /\ exec \in [FlightKey -> [over : BOOLEAN, val : Results \cup {None}]]
    /\ req \in [Procs -> Request \cup {None}]
    /\ call \in [Procs -> Call \cup {None}]
    /\ events \in 0..MaxEvents
    /\ mixed \subseteq Key
    /\ answered \subseteq FlightKey
    /\ lost \in BOOLEAN

Init ==
    /\ tree = FirstState
    /\ entry = [k \in Key |-> None]
    /\ Group!Init
    /\ call = [p \in Procs |-> None]
    /\ events = 0
    /\ mixed = {} /\ answered = {} /\ lost = FALSE

At(p, step) == call[p] # None /\ call[p].step = step
Goto(p, step) == call' = [call EXCEPT ![p].step = step]
FlightOf(p) == [host |-> HostOf[p], key |-> call[p].key]

Event == events < MaxEvents /\ events' = events + 1

\* Something fails that the code survives.
Lose == Event /\ lost' = TRUE /\ UNCHANGED <<tree, mixed, answered>>

Edit(s) ==
    /\ s # tree
    /\ Event
    /\ tree' = s
    /\ call' = [p \in Procs |-> IF call[p] # None THEN [call[p] EXCEPT !.calm = FALSE]
                               ELSE None]
    /\ UNCHANGED <<entry, flights, history>>

Ask(p, q) ==
    /\ call[p] = None
    /\ call' = [call EXCEPT ![p] =
                  [step |-> "state", query |-> q, key |-> None, val |-> None,
                   calm |-> TRUE]]
    /\ UNCHANGED <<entry, flights, repo, history>>

\* Mutant: the key does not cover the state of the repository.
ReadStateConstant(p) ==
    /\ At(p, "state")
    /\ call' = [call EXCEPT ![p].step = "load", ![p].calm = TRUE,
                  ![p].key = [state |-> FirstState, query |-> call[p].query]]
    /\ UNCHANGED <<entry, flights, repo, history>>

ReadState(p) ==
    /\ At(p, "state")
    /\ call' = [call EXCEPT ![p].step = "load", ![p].calm = TRUE,
                  ![p].key = [state |-> tree, query |-> call[p].query]]
    /\ UNCHANGED <<entry, flights, repo, history>>

\* git fails, as it does without a commit: the query runs uncached.
ReadStateFailed(p) ==
    /\ At(p, "state")
    /\ Goto(p, "direct")
    /\ Event
    /\ UNCHANGED <<tree, entry, flights, history>>

Direct(p, v) ==
    /\ At(p, "direct")
    /\ call' = [call EXCEPT ![p].step = "return", ![p].val = v]
    /\ UNCHANGED <<entry, flights, repo, history>>

Load(p) ==
    /\ At(p, "load")
    /\ LET e == entry[call[p].key] IN
         IF e # None
         THEN /\ call' = [call EXCEPT ![p].step = "return", ![p].val = e]
              /\ UNCHANGED req
         ELSE Goto(p, "do") /\ req' = [req EXCEPT ![p] = Group!Asked(FlightOf(p))]
    /\ UNCHANGED <<entry, exec, repo, history>>

\* Do: wait for the execution there is ...
Join(p) ==
    /\ At(p, "do")
    /\ Group!Join(p, FlightOf(p)) \/ Group!Late(p, FlightOf(p))
    /\ Goto(p, "wait")
    /\ UNCHANGED <<entry, repo, history>>

\* ... or begin one.
Lead(p) ==
    /\ At(p, "do")
    /\ Group!Begin(p, FlightOf(p))
    /\ Goto(p, "second")
    /\ UNCHANGED <<entry, repo, history>>

\* Mutant: the leader does not look again.
SecondLoadSkipped(p) ==
    /\ At(p, "second")
    /\ Goto(p, "query")
    /\ UNCHANGED <<entry, flights, repo, history>>

\* The leader looks again: an execution may have ended since its first lookup.
SecondLoad(p) ==
    /\ At(p, "second")
    /\ LET e == entry[call[p].key] IN
         call' = [call EXCEPT ![p].step = IF e # None THEN "publish" ELSE "query",
                              ![p].val = e]
    /\ UNCHANGED <<entry, flights, repo, history>>

\* Serena answers from the worktree as it is now.
Query(p) ==
    /\ At(p, "query")
    /\ call' = [call EXCEPT ![p].step = "save",
                  ![p].val = [query |-> call[p].query, tree |-> tree]]
    /\ answered' = answered \cup {FlightOf(p)}
    /\ mixed' = IF call[p].calm THEN mixed ELSE mixed \cup {call[p].key}
    /\ UNCHANGED <<entry, flights, repo, lost>>

\* Mutant: the error is saved like an answer.
QueryFailedCached(p) ==
    /\ At(p, "query")
    /\ call' = [call EXCEPT ![p].step = "save", ![p].val = Failed]
    /\ Lose
    /\ UNCHANGED <<entry, flights>>

\* Serena fails, or the leader's client cancels: an error for everybody.
QueryFailed(p) ==
    /\ At(p, "query")
    /\ call' = [call EXCEPT ![p].step = "publish", ![p].val = Failed]
    /\ Lose
    /\ UNCHANGED <<entry, flights>>

\* Mutant: the answer is filed under the state there is now.
SaveLate(p) ==
    /\ At(p, "save")
    /\ entry' = [entry EXCEPT ![[state |-> tree, query |-> call[p].query]] = call[p].val]
    /\ Goto(p, "publish")
    /\ UNCHANGED <<flights, repo, history>>

Save(p) ==
    /\ At(p, "save")
    /\ entry' = [entry EXCEPT ![call[p].key] = call[p].val]
    /\ Goto(p, "publish")
    /\ UNCHANGED <<flights, repo, history>>

\* The error of Save is ignored; saves of two processes that overlap may leave
\* an entry no load can read.
SaveFailed(p) ==
    /\ At(p, "save")
    /\ \E e \in {entry[call[p].key], None} : entry' = [entry EXCEPT ![call[p].key] = e]
    /\ Goto(p, "publish")
    /\ Lose
    /\ UNCHANGED flights

Publish(p) ==
    /\ At(p, "publish")
    /\ Group!End(FlightOf(p), call[p].val)
    /\ Goto(p, "forget")
    /\ UNCHANGED <<entry, repo, history>>

Forget(p) ==
    /\ At(p, "forget")
    /\ Group!Forget(FlightOf(p))
    /\ Goto(p, "wait")
    /\ UNCHANGED <<entry, repo, history>>

\* Do returns, to the leader as to those who joined.
DoReturns(p) ==
    /\ At(p, "wait")
    /\ Group!Take(p)
    /\ call' = [call EXCEPT ![p].step = "return", ![p].val = req[p].val]
    /\ UNCHANGED <<entry, repo, history>>

Return(p) ==
    /\ At(p, "return")
    /\ call' = [call EXCEPT ![p] = None]
    /\ UNCHANGED <<entry, flights, repo, history>>

\* A process dies with its goroutines and its flights; the cache stays.
Crash(h) ==
    /\ \E p \in Procs : HostOf[p] = h /\ call[p] # None
    /\ call' = [p \in Procs |-> IF HostOf[p] = h THEN None ELSE call[p]]
    /\ req' = [p \in Procs |-> IF HostOf[p] = h THEN None ELSE req[p]]
    /\ exec' = [f \in FlightKey |-> IF f.host = h THEN Group!Idle ELSE exec[f]]
    /\ Lose
    /\ UNCHANGED entry

Step(p) ==
    \/ \E q \in Queries : Ask(p, q)
    \/ ReadState(p) \/ ReadStateFailed(p)
    \/ Direct(p, [query |-> call[p].query, tree |-> tree]) \/ Direct(p, Failed)
    \/ Load(p) \/ Join(p) \/ Lead(p)
    \/ SecondLoad(p) \/ Query(p) \/ QueryFailed(p)
    \/ Save(p)
    \/ SaveFailed(p)
    \/ Publish(p) \/ Forget(p) \/ DoReturns(p) \/ Return(p)

Next ==
    \/ \E p \in Procs : Step(p)
    \/ \E s \in States : Edit(s)
    \/ \E h \in Hosts : Crash(h)

Spec == Init /\ [][Next]_vars

-----------------------------------------------------------------------------
(* Properties.                                                             *)

\* An answer for a key during whose queries nobody edited is the answer of that
\* query in that state, whether it was computed, loaded, or computed by another
\* goroutine or process, before or after a crash (cached.go:71-113).
Right(v, k) ==
    v \in Answer /\ k \notin mixed => v = [query |-> k.query, tree |-> k.state]

AnswerOfState ==
    \A p \in Procs : At(p, "return") /\ call[p].key # None => Right(call[p].val, call[p].key)

\* cached_test.go:70 "expected one provider call": while nothing fails, a process
\* has a query of a key answered once, whoever looked the key up before, during
\* or after it (cached.go:87-99: the second Load).
OneQueryPerKey ==
    [][\A p \in Procs : At(p, "query") /\ call'[p] # None /\ call'[p].step = "save"
                          => FlightOf(p) \notin answered \/ lost]_vars
=============================================================================
