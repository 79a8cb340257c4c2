# Project Brain: TLA+ specifications

TLA+ models of the Go core of Project Brain (`src/internal`, `src/cmd`), TLC
configurations that check them on small instances, and TLAPS proofs of the
properties that matter most. Paths below are relative to `src/`.

## 1. The system

Project Brain is a process beside a coding agent. An MCP client (or the CLI)
sends it requests; every handler runs in a goroutine of its own, and several
processes (an MCP server per agent, CLI commands, `serve-worker`) may work on one
repository and one `.project-brain` directory at the same time. The developer
edits, commits and stashes all the while. Nothing but a few mutexes, the file
system's rename and SQLite orders these actors.

| Component | State it keeps | Operations | What is hard | What makes it correct |
|---|---|---|---|---|
| Brownfield engine `internal/projectmode` | a baseline file per session: task, mode, dirty developer files and their hashes | `Begin`, `Ensure`, `Impact`, `Detect` | check-then-write of the baseline; git is read in several commands while the developer edits; a crash in a write in place | a baseline never changes; the ownership report is exact; Begin is idempotent |
| Developer flow `internal/developerflow` and the entry points `internal/mcpserver`, `cmd/brain-core` | none of its own: what one step knows is passed to the next | `Prepare`, `Run`, `brain_*` tools | five ways to the local model, each with its own checks | no local run over a developer's file, none in a project the discovery contract does not admit |
| Single flight `economy.Group` | key -> flight; a flight's result and channel | `Do` | result, close and delete are three steps, joiners come between them | one execution of a key at a time, everyone gets its result, nobody waits for ever |
| File cache `economy.FileCache` | `<key>.json`, `<key>.json.tmp` | `Load`, `Save` | all savers of a key share one temporary name; a saver may die | an entry is whole; a later save heals |
| Serena session `semantic.Serena`, `core.Open/Close` | an MCP session with a child process, the active project, a mutex | `Connect`, `Activate`, symbol queries with reconnect, `Status`, `Close` | Serena dies, refuses or hangs; a reconnect is four steps and each may fail | answers come from the activated project; no request is stuck |
| Context compiler, cache and deltas `internal/context` | packet per context key; baseline per session | `Compile`, `CompileCached`, `CompileDelta` | key computed before the packet; delta against a baseline the client may not have | the key covers the packet; full answers and deltas add up to the current packet |
| Git state `internal/gitctx` | none | `StateID`, `Snapshot` | several git commands, no snapshot | two states with different content differ |
| Semantic answer cache `semantic/cached.go` | answer per (state, query); a flight per process | symbol queries | the state is read before the query runs; leaders fail, processes die | an answer is the one of its state; a process asks once |
| Repository map `internal/repomap` | analysis per git blob in `repomap.json` | `Build` | dirty files are analysed from the worktree and kept under the blob of the index; builds overlap | a told change is analysed anew, an unedited file is never stale, the map is ranked and within its budget |
| Local worker `internal/localworker`, router `internal/router`, store `internal/store` | flights, a semaphore, an execution cache, telemetry | `Run`, `Decide`, `RecordExecution` | the router reads what the worker records; a request holds a flight and then waits for a slot; clients give up | an answer is of its key and is reviewed; slots are given back; every request returns |
| Hardware and autotune `internal/hardware`, `internal/autotune` | policy, report, cached reports | review, accept, reset, tune, adopt, `local-run` | a benchmark takes minutes while the policy changes; the state directory moves; detection flaps | the model is asked within what the machine has left; no chain raises a limit; a tuned window was measured |
| Verification capsule, configuration, domain types, session lookup | - | pure builders and readers | - | - |
| Python MVP `project_brain` | JSONL telemetry, intent directories | append, mark, close | rewrite against append; close in two steps | nothing recorded is lost |

Interactions: the flow calls the brownfield engine and hands its answers to the
worker; the worker recovers project metadata from the engine when the caller gave
none; the worker and the semantic cache use the single flight over the file
cache; the context compiler asks git, the store, Serena and the repository map,
and keeps packets and session baselines in the file cache; every local run reviews the
hardware policy before it asks the router, and the router reads the telemetry of the
runs before it.

## 2. Modules

| Module | Models | Instance / proofs |
|---|---|---|
| `Brownfield` | `projectmode/engine.go`, `ensure.go` | `MCBrownfield`, `BrownfieldProofs` |
| `DeveloperFlow` (extends `Brownfield`) | `developerflow/flow.go`, the tools of `mcpserver/server.go`, the gates of `localworker/worker.go`, `router.go` `Decide` | `MCDeveloperFlow`, `BrownfieldProofs` |
| `Singleflight`, `SharedCalls` (abstract) | `economy/cache.go` `Group` | `MCSingleflight`, `EconomyProofs` |
| `FileCache` | `economy/cache.go` `FileCache` | `MCFileCache`, `EconomyProofs` |
| `Serena` | `semantic/serena.go`, `core/service.go` | `MCSerena`, `SerenaProofs` |
| `ContextDelta` | `context/cache.go`, `delta.go`, `compiler.go` | `MCContextDelta`, `ContextDeltaProofs` |
| `SemanticCache` (over `SharedCalls`) | `semantic/cached.go` | `MCSemanticCache`, `SemanticCacheProofs` |
| `LocalWorker` (over `SharedCalls`) | `localworker/worker.go` `Run`, `router.go` `Decide` after its gates, `store.go` `RecordExecution` and `WorkloadStats` | `MCLocalWorker`, `LocalWorkerProofs` |
| `RepoRank` (operators), `RepoMap` | `repomap/map.go` | `MCRepoMap`, `RepoMapProofs` |
| `HardwareLimits` (operators), `HardwarePolicy` | `hardware/*.go`, `autotune/*.go`, the limits in `worker.go` and `router.go`, the commands in `cmd/brain-core` | `MCHardwarePolicy`, `HardwarePolicyProofs` |

**Brownfield.** The project is `vcs` (no repository, no commit, born), `tree`
(HEAD) and `work` (the worktree); the dirty list is what differs. A call of
`Begin`, `Ensure` or `Impact` is a record in `call` that goes through the code's
steps: look the baseline up, ask for HEAD, ask for the status, hash the dirty
files one at a time, create the file, write it. The developer acts between any two
of them, and `Crash` ends a call anywhere, so an empty baseline is a reachable
state, as `os.WriteFile` leaves it. `Ensure` and `Impact` start with their own
lookups (`EnsureLoad`, `ImpactLoad`). `Quoted` are the names git prints with
escapes, which `porcelainFiles` does not undo. `origin` and the `calm` flag of a
call are history: what the project was when the baseline was captured, and whether
anything moved during a call; no action reads them.

**DeveloperFlow** gives every call of the engine a `job`: which entry point it
serves and what that entry point does with the answer. `Decide` leaves the history,
the hardware and the task's risk score open and keeps the two rules that are
unconditional: an existing project that is not ready and a hard-risk task go to the
strong model.

**Singleflight.** A critical section under the group's lock is one step; the three
statements outside it (result, close, delete) are one step each. A flight is an
object of a pool, reused when nobody refers to it, as after a garbage collection.
**SharedCalls** says what callers may rely on, without flights and channels.

**FileCache** is one entry: a directory entry, a temporary name, inodes and open
file descriptors. A save opens (creating or truncating), writes and renames; a load
opens and reads. What a descriptor refers to is followed through renames.

**Serena.** `phase` is the life of the service (`core.Open`, serving, closed),
`session` the connected process if any, `activeProject` what the code remembers and
`session.project` what the process really has. Each step of `call` that waits for
the process is an action that succeeds, fails or never happens; `Die` and `Cancel`
may happen anywhere. `lapsed` is history: a request has failed.

**ContextDelta** is one session: `CompileCached` (state identifier, lookup, git
snapshot, intents and map, save) and `CompileDelta` (compare, store), and a client
that puts the packet together from the answers. Every step may fail as the code
lets it fail. Of a packet the model has what a delta tells (changed files, relevant
files, intents, diff); recent commits, semantic results and the symbols of a file
are in full answers only, so a client that follows deltas is not told of them. One
token budget is used throughout; in the code it is part of the context key. A file of `Files` stands for a path, `Changed` and `Relevant` for what
git and the map's ranking answer for a state; the task stands for the normalized
text. `lapsed` (an answer or list entry was lost, requests overlapped) and
`disturbed` (something changed or failed while a packet was being compiled) are
history.

**SemanticCache.** A query of a goroutine goes through `CachedProvider.cached`: read the
state, look the key up, enter the single flight, look again as its leader, ask
Serena, save, publish. Each process (`Hosts`) has flights of its own, all processes
share the entries. The flights are those of `SharedCalls`, which `Singleflight`
implements, so the two modules compose. The developer edits between any two steps;
the query, the save, the state and the process may fail. `mixed` (keys a query was
answered for after an edit), `answered` and `lost` are history.

**LocalWorker** is `Worker.Run` inside one process: decide the route from the
telemetry, look the answer up, lead or join the execution of the key, take a slot of
the worker's semaphore, ask the model, save, record. A client may cancel at any time,
the model may never answer. `Decide` is the ladder of `router.go` over sample,
review, acceptance, fallback and error counts, with the rates as cross-multiplied
integers and the three thresholds as constants; its gates are a free choice here and
are those of `DeveloperFlow`.

**RepoMap** has for each file what HEAD, the index and the worktree hold, and builds
that go file by file in the order of paths: reuse the analysis under the blob, or read
the worktree. `repomap.json` is truncated and then written, and two builds may do so
at once. A build of the compiler knows what git shows as changed, one of the MCP tool
what its client names, one of the command nothing. `RepoRank` has the dependency graph,
the seeds, the propagation of ranks and the budget as pure operators; what a parser
finds in a content is a constant, and so is the logarithm of a degree (`Log1p`, of which
`LogAssumption` says that it is at least ln 2). The seven iterations (`Rank`) and the pass
over the sorted files (`Select`) are recursive functions. Scores are in thousandths,
rounded down where the code has floats. `dirty`, `seen` and `soiled` are history.

**HardwarePolicy** has the two JSON files, written in place, the cached reports and
the commands on them, which overlap, crash and may come from different machines. A
benchmark is several steps: the command computes its key, `Run` reviews the hardware
and the policy again, one trial per context length follows, the report is cached and
then saved. `HardwareLimits` has what a machine is recommended, how an override, a
trial and a report change it, and when the worker may ask, in MB and tokens with
the thresholds of the code. `chosen` (limits users asked for), `measured` (longest
context that completed safely) and the `tuned` mark of a policy are history.

## 3. Runs

| Run | Checks | Result |
|---|---|---|
| `Brownfield` | `TypeOK`, `OwnershipExact`, `SettledBaselineStable` | hold; 2 racing calls, 1 session, 1 edit, crashes |
| `DeveloperFlow` | `FlowTypeOK`, `OwnershipExact`, `LocalRunGuarded`, `DiscoveryGated`, `BaselineImmutable` | hold; one request at a time, every entry point, plain and quoted names |
| `FlowLocalRun` | `EveryEntryGuarded` (BROWNFIELD.md:59, :107) | violated by `brain_local_run` |
| `Singleflight` | `TypeOK`, `OneExecution`, `FlightSound`, `ImplementsShared`, `EveryCallReturns` | hold; 3 goroutines, 2 keys |
| `FileCache` | `CacheTypeOK`, `EntryWhole`, `SoloSaveStored` | hold; 3 goroutines, 2 values |
| `Serena` | `TypeOK`, `AnswersUntilFailure`, `RetryRepairs`, `NothingLeftBehind`, `EveryRequestReturns` | hold; 2 concurrent requests |
| `ContextDelta` | `TypeOK`, `CacheSound`, `InStep`, `ClientCurrent` | hold; 4 requests of 2 tasks, 2 events (edits, commits, intents, failures) |
| `ContextNoChanges` | `NoChangesMeansNone` (delta.go:105) | violated without a commit: two empty keys are equal |
| `SemanticCache` | `TypeOK`, `AnswerOfState`, `OneQueryPerKey` | hold; 3 goroutines of 2 processes, 2 states, 1 query, 2 events (edits, failures, crashes) |
| `LocalWorker` | `TypeOK`, `AnswersReviewed`, `SlotsHeld`, `EveryRequestReturns` | hold; 3 requests of 2 workers with one slot each, 2 keys, 1 event |
| `RepoMap` | `TypeOK`, `ChangedReanalyzed`, `CleanRight`, `MapRanked` | hold; 2 builds, 3 files, one of them edited, 2 commits with or without staged changes, 2 events |
| `HardwarePolicy` | `TypeOK`, `AskSafe`, `LimitsChosen`, `TunedMeasured` | hold; 2 processes, machines of 8 and 16 GB, 2 events |

What the runs show, component by component. A baseline is immutable while requests
come one at a time (`BaselineImmutable`); when they race it is final once every Begin
that missed it is over (`SettledBaselineStable`). The report of `Impact` is exactly
what differs from HEAD and from the baseline. Serena's answers are right until the
first failed request, and again after each reconnect inside a request. A semantic
answer is right for the state in its key unless somebody edited during one of that
key's queries (`AnswerOfState`), whoever computed it and whichever process died; the
second lookup inside the flight is what makes `OneQueryPerKey` true. An inference
belongs to its key and is always sent to review, since nothing the program does ever
marks an execution as reviewed (`AnswersReviewed`); a slot comes back on every path
(`SlotsHeld`) and, slots and flights taken together, no request waits for ever. A map
has the worktree's version of every file its build knew to be changed
(`ChangedReanalyzed`), and of every file no build ever met with unstaged changes
(`CleanRight`). Policies, reports, cache hits and moves never add up to an unsafe
question (`AskSafe`), to a limit nobody chose (`LimitsChosen`) or to a window nobody
measured (`TunedMeasured`).

**Bounds and why they are enough.** In `Brownfield` two calls are the smallest
race; a third adds nothing to a check-then-write of one file. Two contents tell
"changed" from "unchanged" and from HEAD; one edit falls between every two steps.
One file keeps two calls within reach, and `DeveloperFlow` has two files, one of
them quoted, with one call and two edits (away from and back to a state); its tasks
are a plain one, the same with other spaces (`NormalizeTask`) and a hard-risk one.
`Singleflight` has a leader, a joiner and a late caller for one key while another key
is in flight; flights are as many as goroutines, as each holds at most one.
`FileCache` needs three goroutines for two overlapping savers and a reader, and four
inodes because a new one is only made when the temporary name is gone. `Serena` has a
request in every step and one waiting for the mutex. `ContextDelta` has enough
requests for a full answer, two deltas and a "no changes" with a change of task, and
two calls so that requests overlap; `Limit` = 1 stands for the 12 entries of
`limitDelta`. `SemanticCache` has a leader and a joiner in one process and a leader in
the other; two events are an edit and a failure, or an edit there and back. In
`LocalWorker` two requests compete for one slot and all three may want the same key;
the thresholds of the router (`MinSamples` 2, `MinReviewed` 1, `TrustReviewed` 2,
instead of 5, 3 and 10) let three requests climb every rung of `Decide` that its
telemetry could open. `RepoMap` has a file that imports one of two others and, in
another version, ties with one of them; the budget holds two of the three. Two
events are an edit and its staging, an edit there and back, or the commit of what was
staged and an edit, before, inside or between two builds.
`HardwarePolicy` has one process that tunes and runs and one that accepts, adopts and
tunes; memory that is enough, short or unknown; an override above the soft limit of both
machines and above the hard limit of one. The theorems below cover any number of each,
where there is one.

`MaxRequests`, `MaxEvents` and `MaxEdits` are the only bounds on behaviours.
`ContextDelta`, `ContextNoChanges` and `LocalWorker` may stop, when their requests are
used up, hence `CHECK_DEADLOCK FALSE` there; a deadlock of `LocalWorker` before that
would violate `EveryRequestReturns`. Symmetry is used for contents, goroutines,
inodes, calls and builds, in runs that check no liveness.

**Fairness.** `Singleflight`: weak fairness of each goroutine's step. The scheduler
runs runnable goroutines and the lock is held for a few statements; that `fn`
returns is an assumption the code justifies for the worker (its HTTP client has a
timeout of three minutes, `localworker/worker.go:93`) and not for semantic queries.
`Serena`: `LocalFairness` is the scheduler's (strong fairness for the mutex: a Go
mutex goes to a starving waiter after a millisecond; weak fairness for the code's own
steps), and `ResponsiveSpec` adds that Serena sooner or later answers, refuses or
dies. The code has no deadline for a query and `Status` takes the same mutex, so
without that addition a hung Serena hangs `brain_status` too: `EveryRequestReturns`
is checked under `ResponsiveSpec` only.
`LocalWorker`: weak fairness of what `Run` does on its own (the scheduler; a call of
the model ends after three minutes at the latest, `worker.go:93`) and strong fairness
of taking a slot (a Go channel serves blocked senders in order). That a model answers,
or that a client cancels, is never assumed.

## 4. What is proved

All of it for every value of the constants, from the assumptions named in the
modules (null values are outside the sets they extend).

- `BrownfieldProofs`: `TypeCorrect`; `OwnershipInvariant`, `OwnershipReport`
  (`OwnershipExact`); `BaselineFinal` (`SettledBaselineStable`). A report is
  computed from a stored file and a scan, so `OwnershipExact` is not inductive.
  `OwnershipInv` says in addition that the scan of an undisturbed call agrees with
  the worktree for the files it is through with (`ScanInv`), that a baseline on disk
  taken undisturbed holds the hashes of the state it was taken from (`BaselineInv`),
  and that an Impact holds such a baseline and its answer was computed from it
  (`ImpactInv`). The proof goes action by action. `BaselineFinal` needs only types:
  while no Begin that missed the file is left, no step can start one.
- `BrownfieldProofs`, of the flow: `FlowTypeCorrect` (`FlowTypeOK`), `FlowInvariant`,
  `LocalRunsGuarded` (`LocalRunGuarded`), `DiscoveryIsGated` (`DiscoveryGated`), and
  `FlowImplementsEngine`: a step of the flow is a step of the engine or leaves its
  variables alone, so that `FlowOwnershipReport` (`OwnershipExact`,
  `SettledBaselineStable`) is what was proved of the engine. Whether the local model
  may be asked depends on an answer the engine gave some steps ago, which the request
  carries on. `AnswerInv` (theorem `AnswerInvariant`) is about the engine: in which phase
  a call can be, given where it was entered (`PhaseInv`), and that the readiness an
  undisturbed Impact answers is the discovery contract on the project as it is
  (`ReadyInv`). `FlowInv` is about the requests: who calls the engine for what and which
  requests get past the plan (`JobInv`), and that a request decides with the mode,
  readiness and conflicts of its own finished call (`DecidedInv`). One assumption on a
  constant: the null value is no request (`JobNullAssumption`).
- `OneAtATime`, `FlowOneAtATime` (`BaselineImmutable`) have a hypothesis: there is one
  call, `\A c, d \in Calls : c = d`, as in the run that checks the property. With two
  it is false (section 5). The invariant is `SerialInv`: while a call that missed the
  baseline of a session is under way, the session has none.
- `EconomyProofs`, of `Singleflight`: `TypeCorrect`, `GroupInvariant`,
  `AtMostOneExecution`, `FlightsSound`, `Implementation`. `GroupInv` ties every flight to its leader and
  to the table: a leader's flight is the one in the table, an open flight somebody
  waits for is in the table under that key, and every entry of the table has a
  leader. The refinement maps a flight in the table to "running" or "over" and a
  caller with a closed flight to an answered one; each step of the group is a step
  of `SharedCalls` or a stutter.
- `EconomyProofs`, of `FileCache`: `CacheTypeCorrect`, `FileInvariant`,
  `EntryAlwaysWhole`, `SoloSaveHeals`. `FileInv`: a saver no other overlapped owns the temporary file,
  then the entry; before the first overlap readers have files nobody writes.
- `SerenaProofs`: `TypeCorrect` in general; `SerenaInvariant`,
  `AnswersFromActivatedProject`, `RetriesRepair`, `NothingStaysBehind` under
  `~Refuses` (below). `SerenaInv` relates the mutex to the steps of requests and the
  activation to what has failed so far.

- `SemanticCacheProofs`: `TypeCorrect`; `AnswerInvariant`, `AnswersOfState`
  (`AnswerOfState`); `OnceInvariant`, `OneQuery` (`OneQueryPerKey`). The answer a
  request returns was computed, loaded or taken from a flight, perhaps in another
  process, so the invariant says that whatever is kept (`StoreInv`), published in a
  flight or carried by a request (`CallInv`) is right for its key. For `OneQueryPerKey`
  a key has one leader in a process, and its answered key is in the cache or about to
  be saved by that leader, so that the second lookup finds it.
- `ContextDeltaProofs`: `TypeCorrect`; `DeltaInvariant`, `CacheIsSound`, `ClientInStep`,
  `ClientIsCurrent`. `PacketInv`: the part of a packet compiled so far is that of the
  key of its request, unless disturbed, and so is every packet in the cache. `ViewInv`:
  the client's view is the stored session, and a delta in flight is the difference
  between the two packets it was computed from, so that applying it gives the next.
- `LocalWorkerProofs`: `TypeCorrect`; `WorkInvariant`, `AnswersAreReviewed`;
  `LeaderInvariant`, `SlotsAreHeld`. The telemetry never counts a reviewed execution,
  so below `MinReviewed` (at least 1, `BoundAssumption`) `Decide` always asks for
  review; every answer kept, published or carried is of its key; who holds a slot is
  at the inference or the save, and a key has one leader.
- `HardwarePolicyProofs`: `TypeCorrect`; `ChainInvariant`, `AskIsSafe`,
  `LimitsAreChosen`, `TunedIsMeasured`. The limits of a run may come from a policy, that
  from a report, that from the cache, that from a benchmark of an older policy. The
  invariant says the same of every link: limits for a hardware ID are at most what its
  machine is recommended or a user asked for on it (closed under override, recommendation
  and the choice of contexts), and a recommendation is at most what was measured
  there. Both histories only grow.

- `RepoMapProofs`: `MapInvariant`, `ChangedAreReanalyzed` (`ChangedReanalyzed`),
  `CleanAreRight` (`CleanRight`). A map is built from analyses of earlier builds, so
  `MapInv` says of every analysis that is kept, loaded or fresh that it is of its blob
  (`Analysed`), of every blob a build has listed that the worktree holds it
  (`RefsInv`), of every file a build is through with that the worktree held it
  meanwhile (`FreshInv`), all but for files some build met with unstaged changes, and
  of a build that knows what changed that it has read those files (`ToldInv`).
  `Formed` are the types this argument needs: all of `TypeOK` but for the map itself.
  `RankInvariant`, `TypeCorrect`, `MapsAreRanked` (`MapRanked`) are about that map: a
  finished build has the entries `Ranked` makes of its analyses, and those are typed,
  within budget and in order for every graph, cost and budget. Three facts about folds
  carry it. The sum of a function over a finite set is the same whichever element is
  taken first (`SumFirst`), so it grows by one term at a time (`SumRemove`). `Order` finds
  each file by counting the files before it; as these sets are nested and no two of them
  are of one size, every position has a file (`OrderRanks`). `Chosen` is the loop invariant
  of `Select`: after `k` files the entries are some of the first `k`, in order, and
  `used` is their cost. Each induction is written out without an induction principle:
  the numbers or subsets for which the claim fails would have a smallest one.

Proved beside the properties of the runs, as the inductive invariants they rest on:
`OwnershipInv`, `AnswerInv`, `FlowInv`, `SerialInv`, `GroupInv`, `FileInv`, `SerenaInv`,
`MapInv`, `RankInv` and those named above.

Only model-checked: liveness (`EveryCallReturns`, `EveryRequestReturns` of `Serena` and
`LocalWorker`), which is beyond the prover.

## 5. Divergences

Two runs end in a violation; they are findings in `PROJECT.json`, with the line of the
document or comment each contradicts. Others were met while modelling and are visible
in the models without a run of their own:

- a developer's file that is put back to HEAD leaves the dirty list and is not reported
  as changed again (BROWNFIELD.md:59): `UserChangeReported` in `Brownfield`;
- a second Begin that overlaps the first replaces the baseline that server.go:38 calls
  immutable: `BaselineImmutable` holds for one request at a time;
- a crash inside `os.WriteFile` leaves an empty baseline, after which Begin fails
  instead of being idempotent (BROWNFIELD.md:105): `BeginIdempotent`;
- after a failed reactivation Serena answers from no project (ARCHITECTURE_V2.md:45):
  `AnswersFromProject` in `Serena`;
- `callOnceLocked` does not look at `IsError` (`serena.go:80`), so a refused
  `activate_project` counts as done: with `Refuses = TRUE` `AnswersUntilFailure` is
  violated, and the theorems assume `~Refuses`;
- the repo-map command names no changed files, so a dirty file keeps the analysis an
  earlier build stored under its blob (README.md:130, ARCHITECTURE_V2.md:75), and a
  file analysed while dirty stays stale after a revert: `DirtyReanalyzed` in `RepoMap`;
- a name git quotes is never unquoted (`engine.go:274`), so such a file hashes as
  missing for ever and its changes are not reported: `OwnershipExact` and
  `LocalRunGuarded` speak of the other names (`Quoted`);
- the route follows the mode in the baseline (`flow.go:69`), so a session that began
  before the first commit is never gated: `DiscoveryGated` speaks of sessions whose
  baseline is of an existing project.

`CacheSound`, `ClientCurrent` and `AnswerOfState` speak of requests nothing disturbed:
the code computes the key before the packet or answer, and stores what was computed
from a newer state (for packets also while git, Serena or the map failed) under it.
The semaphore belongs to a `Worker` and the entry points make one per request, so
across workers only the single flight bounds inference: `SlotsHeld` is per worker.

## 6. What is not modelled, and why

Language and framework detection, history and the regression window of the
brownfield report, the reconnect counter, estimates, savings records and rendering
are display data that nothing branches on. The index is not distinguished from the
worktree in `Brownfield` (the code asks `git status` and hashes the worktree).
Semantic results in a packet change with Serena's availability like the map and are
folded into its failure.

- Autotune's scores, stability runs and the choice among installed models: the model
  has one installed model; how fast it was is a free choice (`fast`). The preferred
  model of a policy is a name nothing here compares.
- `Verification` builds one document out of a packet and a result; it has no state and
  nothing depends on its content.
- Configuration is a set of defaults and one JSON file read at start, domain types are
  declarations, and `LatestSession` is a reader that only its test calls.
- Intents and batches are rows of SQLite, which is external; `ContextDelta` has the
  list of active intents as one value that changes.
- The Python MVP is the predecessor the Go core replaces: short commands on JSON and
  Markdown files. Its two file hazards are listed in `PROJECT.json`.
- The read-only MCP tools and commands (status, economy, telemetry) print
  what others stored. The BAML sources are prompt definitions.

## 7. Plan

What is left, in this order:

1. Autotune with two installed models and their scores.
2. `Telemetry` and `IntentStore` of the Python MVP: append against rewrite, close in
   two steps.
