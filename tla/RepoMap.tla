------------------------------ MODULE RepoMap ------------------------------
(***************************************************************************)
(* repomap.Builder.Build and its cache: analyses of files, kept under the  *)
(* blob git has in its index.  The files are read from the worktree, one   *)
(* after the other, while the developer edits, stages and commits.  All    *)
(* builds, of one process or several, share repomap.json, which is written *)
(* in place.                                                               *)
(***************************************************************************)
EXTENDS RepoRank

CONSTANTS
    Builds,     \* calls of Build that may overlap
    Edited,     \* files the developer touches
    Heads,      \* what the first commit and the index may be
    MaxEvents,  \* bound on what the developer does, failures and crashes
    Absent,     \* no such file, or one too large to be read
    Worktree,   \* the blob of an untracked file
    None

ASSUME EventAssumption == MaxEvents \in Nat /\ Edited \subseteq Files
ASSUME HeadAssumption == Heads \subseteq [Files -> Contents \cup {Absent}]

VARIABLES
    head, index, work,  \* content of each file in HEAD, the index, the worktree
    cache,              \* repomap.json: file -> entry; None if it cannot be read
    build,              \* what each Build does
    events,
    soiled              \* history: files with unstaged changes while a build ran

project == <<head, index, work>>
vars == <<head, index, work, cache, build, events, soiled>>

Content == Contents \cup {Absent}
Blob == Contents \cup {Worktree}
Entry == [blob : Blob, node : Contents]
Cache == [Files -> Entry \cup {None}]
NoCache == [f \in Files |-> None]

Map == [score : [Files -> Nat], entries : Seq(Files), used : Nat]

\* A request of the context compiler says what git diff HEAD shows; the repo-map
\* tool what its client names, the repo-map command nothing.
Steps == {"snapshot", "refs", "load", "files", "create", "write", "done"}
BuildWith(maps) ==
    [step : Steps,
     compile : BOOLEAN,
     told : BOOLEAN,       \* knows the changed files
     changed : SUBSET Files,
     refs : [Files -> Blob \cup {None}],
     cached : Cache,
     fresh : Cache,
     todo : SUBSET Files,
     torn : BOOLEAN,       \* another build has the file open, too
     map : maps,
     dirty : SUBSET Files, \* history: never as in HEAD since the snapshot
     seen : [Files -> SUBSET Content]] \* history: worktree since the snapshot
Build == BuildWith(Map \cup {None})

ASSUME NullAssumption ==
    /\ None \notin Map \cup Build \cup Entry \cup Blob \cup Cache
    /\ Absent \notin Contents /\ Worktree \notin Contents /\ Worktree # None

TypeOK ==
    /\ {head, index, work} \subseteq [Files -> Content]
    /\ cache \in Cache \cup {None}
    /\ build \in [Builds -> Build \cup {None}]
    /\ events \in 0..MaxEvents
    /\ soiled \subseteq Files

Running == {b \in Builds : build[b] # None /\ build[b].step # "done"}
At(b, step) == build[b] # None /\ build[b].step = step

\* A checkout, perhaps with changes that are staged.
Init ==
    /\ head \in Heads /\ index \in Heads
    /\ work = index
    /\ cache = None
    /\ build = [b \in Builds |-> None]
    /\ events = 0
    /\ soiled = {}

Event == events < MaxEvents /\ events' = events + 1

-----------------------------------------------------------------------------
(* The developer.                                                          *)

\* git diff --name-only HEAD and the untracked files.
Untracked(f) == index[f] = Absent /\ work[f] # Absent
Differs(f) == work[f] # head[f]
Unstaged(i, w) == {f \in Files : i[f] # Absent /\ w[f] # i[f]}

\* What a running build lives through.
Change(h, i, w) ==
    /\ Event
    /\ head' = h /\ index' = i /\ work' = w
    /\ soiled' = IF Running = {} THEN soiled ELSE soiled \cup Unstaged(i, w)
    /\ build' = [b \in Builds |->
                   IF b \notin Running THEN build[b]
                   ELSE [build[b] EXCEPT
                           !.dirty = {f \in @ : w[f] # h[f]},
                           !.seen = [f \in Files |-> @[f] \cup {w[f]}]]]
    /\ UNCHANGED cache

Edit(f, c) == work[f] # c /\ Change(head, index, [work EXCEPT ![f] = c])
Stage(f) == index[f] # work[f] /\ Change(head, [index EXCEPT ![f] = work[f]], work)
Commit == head # index /\ Change(index, index, work)

Developer ==
    \/ \E f \in Edited, c \in Content : Edit(f, c)
    \/ \E f \in Edited : Stage(f)
    \/ Commit

-----------------------------------------------------------------------------
(* Build.                                                                  *)

Start(b, compile, named) ==
    /\ build[b] \in {None} \/ At(b, "done")
    /\ build' = [build EXCEPT ![b] =
          [step |-> IF compile THEN "snapshot" ELSE "refs", compile |-> compile,
           told |-> FALSE, changed |-> named, refs |-> [f \in Files |-> None],
           cached |-> NoCache, fresh |-> NoCache, todo |-> {}, torn |-> FALSE, map |-> None,
           dirty |-> {f \in Files : Differs(f)},
           seen |-> [f \in Files |-> {work[f]}]]]
    /\ soiled' = soiled \cup Unstaged(index, work)
    /\ UNCHANGED <<project, cache, events>>

Snapshot(b) ==
    /\ At(b, "snapshot")
    /\ build' = [build EXCEPT ![b].step = "refs", ![b].told = TRUE,
                   ![b].changed = {f \in Files : Differs(f) \/ Untracked(f)},
                   ![b].dirty = {f \in Files : Differs(f)},
                   ![b].seen = [f \in Files |-> {work[f]}]]
    /\ UNCHANGED <<project, cache, events, soiled>>

\* The compiler goes on without the changed files.
SnapshotFailed(b) ==
    /\ At(b, "snapshot")
    /\ Event
    /\ build' = [build EXCEPT ![b].step = "refs"]
    /\ UNCHANGED <<project, cache, soiled>>

\* git ls-files -s, and the untracked files, which have no blob.
FileRefs(b) ==
    /\ At(b, "refs")
    /\ LET refs == [f \in Files |-> IF index[f] # Absent THEN index[f]
                                    ELSE IF work[f] # Absent THEN Worktree ELSE None]
       IN build' = [build EXCEPT ![b].step = "load", ![b].refs = refs,
                      ![b].todo = {f \in Files : refs[f] # None}]
    /\ UNCHANGED <<project, cache, events, soiled>>

LoadCache(b) ==
    /\ At(b, "load")
    /\ build' = [build EXCEPT ![b].step = "files",
                   ![b].cached = IF cache = None THEN NoCache ELSE cache]
    /\ UNCHANGED <<project, cache, events, soiled>>

\* The files are taken in the order of their paths.
Turn(b, f) ==
    /\ At(b, "files") /\ f \in build[b].todo
    /\ \A g \in build[b].todo : f <= g

\* Mutant: a blob that has not changed is reused, changed file or not.
ReusableByBlob(r, f) == r.cached[f] # None /\ r.cached[f].blob = r.refs[f]

Reusable(r, f) ==
    /\ r.cached[f] # None /\ r.cached[f].blob = r.refs[f]
    /\ f \notin r.changed
    /\ r.refs[f] # Worktree

Keep(r, f, e) == [r EXCEPT !.todo = @ \ {f}, !.fresh[f] = e]

\* Mutant: an analysis is reused whatever blob it was made for.
ReuseAny(b, f) ==
    /\ Turn(b, f)
    /\ build[b].cached[f] # None /\ f \notin build[b].changed
    /\ build' = [build EXCEPT ![b] = Keep(@, f, @.cached[f])]
    /\ UNCHANGED <<project, cache, events, soiled>>

Reuse(b, f) ==
    /\ Turn(b, f)
    /\ Reusable(build[b], f)
    /\ build' = [build EXCEPT ![b] = Keep(@, f, @.cached[f])]
    /\ UNCHANGED <<project, cache, events, soiled>>

\* Mutant: a file that cannot be read is kept, without an analysis.
AnalyzeAll(b, f) ==
    /\ Turn(b, f)
    /\ ~Reusable(build[b], f)
    /\ build' = [build EXCEPT ![b] = Keep(@, f, [blob |-> @.refs[f], node |-> work[f]])]
    /\ UNCHANGED <<project, cache, events, soiled>>

\* The worktree is read; a file that cannot be read is left out.
Analyze(b, f) ==
    /\ Turn(b, f)
    /\ ~Reusable(build[b], f)
    /\ build' = [build EXCEPT ![b] =
          Keep(@, f, IF work[f] = Absent THEN None
                     ELSE [blob |-> @.refs[f], node |-> work[f]])]
    /\ UNCHANGED <<project, cache, events, soiled>>

\* os.WriteFile truncates repomap.json and writes it; a build that loads it in
\* between starts without a cache.
SaveCreate(b) ==
    /\ At(b, "files") /\ build[b].todo = {}
    /\ cache' = None
    /\ build' = [c \in Builds |->
                   IF c = b THEN [build[b] EXCEPT !.step = "write",
                                    !.torn = \E d \in Builds : At(d, "write")]
                   ELSE IF At(c, "write") THEN [build[c] EXCEPT !.torn = TRUE]
                   ELSE build[c]]
    /\ UNCHANGED <<project, events, soiled>>

\* The files that could be read; ranked and cut to the budget.
Nodes(r) == [f \in {g \in Files : r.fresh[g] # None} |-> r.fresh[f].node]

Ranked(r) == Select(Nodes(r), Rank(Nodes(r), r.changed, r.compile))

\* Two writers may leave what is no JSON; the error of a save is ignored.
SaveWrite(b) ==
    /\ At(b, "write")
    /\ cache' \in {build[b].fresh} \cup (IF build[b].torn THEN {None} ELSE {})
    /\ build' = [build EXCEPT ![b].step = "done", ![b].refs = [f \in Files |-> None],
                   ![b].cached = NoCache, ![b].torn = FALSE,
                   ![b].map = Ranked(build[b])]
    /\ UNCHANGED <<project, events, soiled>>

Crash(b) ==
    /\ b \in Running
    /\ Event
    /\ build' = [build EXCEPT ![b] = None]
    /\ UNCHANGED <<project, cache, soiled>>

Step(b) ==
    \/ Start(b, TRUE, {}) \/ \E named \in SUBSET Edited : Start(b, FALSE, named)
    \/ Snapshot(b) \/ SnapshotFailed(b) \/ FileRefs(b) \/ LoadCache(b)
    \/ \E f \in Files : Reuse(b, f) \/ Analyze(b, f)
    \/ SaveCreate(b) \/ SaveWrite(b) \/ Crash(b)

Next == Developer \/ \E b \in Builds : Step(b)

Spec == Init /\ [][Next]_vars

-----------------------------------------------------------------------------
(* Properties.                                                             *)

Done == {b \in Builds : At(b, "done")}

\* README.md:130 "Dirty and untracked source files are reanalyzed.", of a build that
\* was told what changed: a file that was not as in HEAD all the while is in the map
\* with an analysis of what the worktree had meanwhile (map.go:120).
ChangedReanalyzed ==
    \A b \in Done : build[b].told =>
        \A f \in build[b].dirty :
            build[b].fresh[f] # None => build[b].fresh[f].node \in build[b].seen[f]

\* ARCHITECTURE_V2.md:75: the map is right for files builds never met with changes
\* that were not staged, whoever else built, wrote the cache or died (map.go:110-134).
CleanRight ==
    \A b \in Done : \A f \in Files \ soiled :
        IF build[b].fresh[f] = None THEN Absent \in build[b].seen[f]
        ELSE build[b].fresh[f].node \in build[b].seen[f]

\* The same of every file, whoever asks: what the documents say, and the repo-map
\* command does not do (no run checks it: it does not hold).
DirtyReanalyzed ==
    \A b \in Done : \A f \in build[b].dirty :
        build[b].fresh[f] # None => build[b].fresh[f].node \in build[b].seen[f]

\* The entries fit the budget, in the order of their scores; none that is left out
\* would still fit; and a file with a dependency is put before an otherwise equal
\* one without, which is what the map is for (map.go:139-190, 434-490).
MapRanked ==
    \A b \in Done :
        LET r == build[b]
            nodes == Nodes(r)
            in == ToSet(r.map.entries)
            seed == [f \in DOMAIN nodes |-> Seed(f, nodes, r.changed, r.compile)]
            near == Near(nodes)
        IN  /\ SumFunctionOnSet(Cost, in) = r.map.used
            /\ r.map.used <= TokenBudget
            /\ \A i, j \in DOMAIN r.map.entries :
                 i < j => r.map.score[r.map.entries[i]] >= r.map.score[r.map.entries[j]]
            /\ Len(r.map.entries) < MaxEntries =>
                 \A f \in DOMAIN nodes \ in : r.map.used + Cost[f] > TokenBudget
            /\ \A f, g \in DOMAIN nodes :
                 seed[f] = seed[g] /\ near[f] # {} /\ near[g] = {}
                   => r.map.score[f] > r.map.score[g]
-----------------------------------------------------------------------------
(* Why ChangedReanalyzed and CleanRight hold: the inductive invariant.     *)

\* The types, but for what Rank and Select compute.
Formed ==
    /\ {head, index, work} \subseteq [Files -> Content]
    /\ cache \in Cache \cup {None}
    /\ soiled \subseteq Files
    /\ build = [b \in Builds |-> build[b]]
    /\ \A b \in Builds : build[b] # None => build[b] \in BuildWith({build[b].map})

\* The analyses kept under a blob are of that blob.
Analysed(entries) ==
    \A f \in Files \ soiled :
        entries[f] # None /\ entries[f].blob # Worktree =>
            entries[f].node = entries[f].blob

\* The blobs a build has listed are what the worktree holds.
RefsInv(r) ==
    /\ \A f \in r.todo : r.refs[f] # None
    /\ \A f \in Files \ soiled :
         r.refs[f] \in Contents => r.refs[f] = work[f] /\ index[f] = work[f]

\* What a build is through with comes from the worktree it has seen.
FreshInv(r) ==
    \A f \in Files \ (soiled \cup r.todo) :
        IF r.fresh[f] = None THEN Absent \in r.seen[f]
        ELSE r.fresh[f].node \in r.seen[f]

\* A build that was told what changed reads the changed files.
ToldInv(r) ==
    r.told =>
        /\ r.dirty \subseteq r.changed
        /\ \A f \in r.dirty : r.fresh[f] # None => r.fresh[f].node \in r.seen[f]

BuildInv(r) ==
    /\ r.step # "done" => \A f \in Files : work[f] \in r.seen[f]
    /\ r.step \in {"snapshot", "refs", "load"} => r.fresh = NoCache
    /\ r.step \in {"write", "done"} => r.todo = {}
    /\ r.step \in {"load", "files", "write"} => RefsInv(r)
    /\ r.step \in {"load", "files", "write", "done"} => FreshInv(r)
    /\ Analysed(r.cached) /\ Analysed(r.fresh)
    /\ ToldInv(r)

\* A finished build has the map of its analyses.
RankInv ==
    \A b \in Builds : build[b] # None =>
        build[b].map = IF build[b].step = "done" THEN Ranked(build[b]) ELSE None

MapInv ==
    /\ cache # None => Analysed(cache)
    /\ Running # {} => Unstaged(index, work) \subseteq soiled
    /\ \A b \in Builds : build[b] # None => BuildInv(build[b])
=============================================================================
