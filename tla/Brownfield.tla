----------------------------- MODULE Brownfield -----------------------------
(***************************************************************************)
(* The brownfield engine, internal/projectmode: Begin captures a session's *)
(* ownership baseline in a file, Ensure reuses it, Impact compares the     *)
(* worktree with it.  Every git command, file hash and file access is a    *)
(* step of its own, because the developer keeps editing while a call runs  *)
(* and the MCP server and the CLI serve several calls at once, with no     *)
(* lock between them.                                                      *)
(***************************************************************************)
EXTENDS Naturals, FiniteSets

CONSTANTS
    Files,      \* paths of the project, the state directory excluded
    Contents,   \* what a present file can hold, told apart by its hash
    Absent,     \* no such file; also fileHash's "missing"
    Clean,      \* not in UserDirtyHashes / not in the dirty list
    Quoted,     \* files whose name git prints with octal escapes
    Sessions,
    Tasks,      \* task texts as the caller spells them
    Norm,       \* normalizeTask: spelling -> canonical spelling
    Relevant,   \* task -> files whose path contains a term of the task
    Calls,      \* requests that can be in progress at the same time
    NoFile, Empty, Torn,    \* baseline file: absent, truncated, unparsable
    None,
    MaxEdits    \* bound: changes the developer makes in one behaviour

ASSUME FileAssumption ==
    /\ Absent \notin Contents
    /\ Clean \notin Contents \cup {Absent}
    /\ Quoted \subseteq Files
ASSUME TaskAssumption ==
    /\ Norm \in [Tasks -> Tasks]
    /\ \A t \in Tasks : Norm[Norm[t]] = Norm[t]
    /\ Relevant \in [Tasks -> SUBSET Files]
ASSUME BoundAssumption == MaxEdits \in Nat

VARIABLES
    vcs,        \* "none": no repository; "unborn": no commit; "born"
    tree,       \* what HEAD holds
    work,       \* what the worktree holds
    baseline,   \* session -> its file under <state>/brownfield
    call,       \* the requests in progress
    origin,     \* history: the worktree a session's baseline was taken from
    edits       \* bound counter

vars == <<vcs, tree, work, baseline, call, origin, edits>>
repo == <<vcs, tree, work, edits>>

Hashes == Contents \cup {Absent}
Snapshots == [Files -> Hashes]
HashMaps == [Files -> Hashes \cup {Clean}]
Modes == {"new", "existing"}
\* base: BaseHead # "".  An "existing" project was detected with a HEAD.
Baseline == {b \in [task : Tasks, mode : Modes, base : BOOLEAN, hash : HashMaps] :
               b.mode = "existing" => b.base}
Origin == [work : Snapshots, dirty : SUBSET Files, calm : BOOLEAN]

Entries == {"begin", "impact", "prepare", "ensure"}
Phases == {"ensure", "begin", "impact"}
Steps == {"load", "head", "status", "hash", "write", "done", "failed"}
Call == {r \in
        [step : Steps, phase : Phases, entry : Entries,
         session : Sessions, task : Tasks,
         head : BOOLEAN, mode : Modes, todo : SUBSET Files, seen : HashMaps,
         begun : Baseline \cup {None}, base : Baseline \cup {None}, ready : BOOLEAN,
         brain : SUBSET Files, conflicts : SUBSET Files,
         calm : BOOLEAN] :
            /\ r.mode = "existing" => r.head /\ r.step \in {"hash", "write", "done"}
            /\ r.entry = "begin" => r.phase = "begin"}

ASSUME NullAssumption ==
    /\ {NoFile, Empty, Torn} \cap Baseline = {}
    /\ Cardinality({NoFile, Empty, Torn}) = 3
    /\ None \notin Baseline /\ None \notin Call /\ None \notin Origin

TypeOK ==
    /\ vcs \in {"none", "unborn", "born"}
    /\ tree \in Snapshots
    /\ work \in Snapshots
    /\ baseline \in [Sessions -> Baseline \cup {NoFile, Empty, Torn}]
    /\ call \in [Calls -> Call \cup {None}]
    /\ origin \in [Sessions -> Origin \cup {None}]
    /\ edits \in 0..MaxEdits

-----------------------------------------------------------------------------
(* What git and the file system answer.                                    *)

NoSeen == [f \in Files |-> Clean]
Tracked == {f \in Files : tree[f] # Absent}
Dirty == IF vcs = "none" THEN {} ELSE {f \in Files : work[f] # tree[f]}
AllFiles ==
    IF vcs = "none" THEN {} ELSE Tracked \cup {f \in Files : work[f] # Absent}

\* An escaped name names no file on disk, so its hash is "missing".
fileHash(f) == IF f \in Quoted THEN Absent ELSE work[f]

\* A changed path scores only if ls-files spells it as the status list does.
rankFiles(t, all, changed) == all \cap (Relevant[t] \cup (changed \ Quoted))

\* Mutant: the mode from ls-files alone.
ModeUnborn(head) == IF Tracked # {} THEN "existing" ELSE "new"

Mode(head) == IF head /\ Tracked # {} THEN "existing" ELSE "new"

UserDirty(b) == {f \in Files : b.hash[f] # Clean}

\* Mutant: every dirty file is BRAIN_DELTA, its hash is not compared.
BrainDeltaUnhashed(b, seen) == {f \in Files : seen[f] # Clean}

\* The files of the current dirty list the task's own edits account for,
\* and those of them the developer had already changed.
BrainDelta(b, seen) == {f \in Files : seen[f] # Clean /\ seen[f] # b.hash[f]}
Conflicts(b, seen) == BrainDelta(b, seen) \cap UserDirty(b)

-----------------------------------------------------------------------------
Init ==
    /\ vcs \in {"none", "unborn", "born"}
    /\ tree \in IF vcs = "born" THEN Snapshots ELSE {[f \in Files |-> Absent]}
    /\ work \in Snapshots
    /\ baseline = [s \in Sessions |-> NoFile]
    /\ call = [c \in Calls |-> None]
    /\ origin = [s \in Sessions |-> None]
    /\ edits = 0

(* The developer, or the agent that applies a result.                      *)

Disturbed(cs) ==
    [c \in Calls |-> IF call[c] # None /\ c \in cs
                     THEN [call[c] EXCEPT !.calm = FALSE] ELSE call[c]]

Change ==
    /\ edits < MaxEdits
    /\ edits' = edits + 1
    /\ call' = Disturbed(Calls)
    /\ UNCHANGED <<baseline, origin>>

Edit(f, h) ==
    /\ work[f] # h
    /\ Change
    /\ work' = [work EXCEPT ![f] = h]
    /\ UNCHANGED <<vcs, tree>>

GitInit ==
    /\ vcs = "none"
    /\ Change
    /\ vcs' = "unborn"
    /\ UNCHANGED <<tree, work>>

Commit(fs) ==
    /\ vcs # "none"
    /\ fs # {} /\ fs \subseteq Dirty
    /\ Change
    /\ vcs' = "born"
    /\ tree' = [f \in Files |-> IF f \in fs THEN work[f] ELSE tree[f]]
    /\ UNCHANGED work

Developer ==
    \/ \E f \in Files, h \in Hashes : Edit(f, h)
    \/ GitInit
    \/ \E fs \in SUBSET Files : Commit(fs)

-----------------------------------------------------------------------------
(* The steps of a call.                                                    *)

FirstPhase(entry) ==
    CASE entry = "ensure" -> "ensure" [] entry = "impact" -> "impact"
      [] OTHER -> "begin"

Start(c, entry, s, t) ==
    /\ call[c] = None
    /\ call' = [call EXCEPT ![c] =
                 [step |-> "load", phase |-> FirstPhase(entry), entry |-> entry,
                  session |-> s, task |-> t,
                  head |-> FALSE, mode |-> "new", todo |-> {}, seen |-> NoSeen,
                  begun |-> None, base |-> None, ready |-> FALSE, brain |-> {}, conflicts |-> {},
                  calm |-> TRUE]]
    /\ UNCHANGED <<repo, baseline, origin>>

At(c, phase, step) ==
    call[c] # None /\ call[c].phase = phase /\ call[c].step = step

Goto(c, step) == call' = [call EXCEPT ![c].step = step]

\* Begin alone answers with the baseline; the others go on to Impact.
Begun(c, b) ==
    [call[c] EXCEPT !.begun = b,
        !.phase = IF call[c].entry = "begin" THEN @ ELSE "impact",
        !.step = IF call[c].entry = "begin" THEN "done" ELSE "load",
        !.head = FALSE, !.mode = "new", !.todo = {}, !.seen = NoSeen,
        !.calm = IF call[c].entry = "begin" THEN @ ELSE TRUE]

EnsureLoad(c) ==
    LET s == call[c].session IN
    /\ At(c, "ensure", "load")
    /\ CASE baseline[s] = NoFile ->
              call' = [call EXCEPT ![c].phase = "begin"]
         [] baseline[s] \in {Empty, Torn} -> Goto(c, "failed")
         [] OTHER ->
              IF baseline[s].task = call[c].task
              THEN call' = [call EXCEPT ![c] = Begun(c, baseline[s])]
              ELSE Goto(c, "failed")
    /\ UNCHANGED <<repo, baseline, origin>>

\* Mutant: another task's baseline is replaced instead of refused.
BeginLoadReplacing(c) ==
    LET s == call[c].session IN
    /\ At(c, "begin", "load")
    /\ CASE baseline[s] \in {Empty, Torn} -> Goto(c, "failed")
         [] baseline[s] # NoFile /\ Norm[baseline[s].task] = Norm[call[c].task] ->
              call' = [call EXCEPT ![c] = Begun(c, baseline[s])]
         [] OTHER -> Goto(c, "head")
    /\ UNCHANGED <<repo, baseline, origin>>

BeginLoad(c) ==
    LET s == call[c].session IN
    /\ At(c, "begin", "load")
    /\ CASE baseline[s] = NoFile -> Goto(c, "head")
         [] baseline[s] \in {Empty, Torn} -> Goto(c, "failed")
         [] OTHER ->
              IF Norm[baseline[s].task] = Norm[call[c].task]
              THEN call' = [call EXCEPT ![c] = Begun(c, baseline[s])]
              ELSE Goto(c, "failed")
    /\ UNCHANGED <<repo, baseline, origin>>

ImpactLoad(c) ==
    LET s == call[c].session IN
    /\ At(c, "impact", "load")
    /\ IF baseline[s] \in {NoFile, Empty, Torn}
       THEN Goto(c, "failed")
       ELSE call' = [call EXCEPT ![c].base = baseline[s], ![c].step = "head"]
    /\ UNCHANGED <<repo, baseline, origin>>

(* Detect, called by Begin and by Impact: rev-parse HEAD, then ls-files and *)
(* status.  Impact's own ls-files and rankFiles are part of the second step.*)
DetectHead(c) ==
    /\ call[c] # None /\ call[c].step = "head"
    /\ call' = [call EXCEPT ![c].head = (vcs = "born"), ![c].step = "status"]
    /\ UNCHANGED <<repo, baseline, origin>>

Missing(b, mode, all, changed) ==
    IF mode # "existing" THEN {}
    ELSE {x \in {"affected_files", "base_head", "repository_files"} :
            \/ x = "affected_files" /\ rankFiles(b.task, all, changed) = {}
            \/ x = "base_head" /\ ~b.base
            \/ x = "repository_files" /\ all = {}}

DetectStatus(c) ==
    LET mode == Mode(call[c].head) IN
    /\ call[c] # None /\ call[c].step = "status"
    /\ call' = [call EXCEPT
                 ![c].mode = mode,
                 ![c].todo = Dirty,
                 ![c].ready = /\ call[c].phase = "impact"
                              /\ Missing(call[c].base, mode, AllFiles, Dirty) = {},
                 ![c].step = "hash"]
    /\ UNCHANGED <<repo, baseline, origin>>

\* Begin's and computeOwnership's loops: one read of one dirty file.
HashFile(c, f) ==
    /\ call[c] # None /\ call[c].step = "hash" /\ f \in call[c].todo
    /\ call' = [call EXCEPT ![c].todo = @ \ {f}, ![c].seen[f] = fileHash(f)]
    /\ UNCHANGED <<repo, baseline, origin>>

\* os.WriteFile truncates the file, then writes it.
SaveCreate(c) ==
    LET s == call[c].session IN
    /\ At(c, "begin", "hash") /\ call[c].todo = {}
    /\ baseline' = [baseline EXCEPT ![s] = Empty]
    /\ Goto(c, "write")
    /\ UNCHANGED <<repo, origin>>

Captured(c) ==
    [task |-> call[c].task, mode |-> call[c].mode,
     base |-> call[c].head, hash |-> call[c].seen]

\* A second writer writes from offset 0 over whatever the first one left: the
\* tail of a longer text makes the file unparsable.
SaveWrite(c) ==
    LET s == call[c].session IN
    /\ At(c, "begin", "write")
    /\ \E stored \in {Captured(c)} \cup IF baseline[s] = Empty THEN {} ELSE {Torn} :
          /\ baseline' = [baseline EXCEPT ![s] = stored]
          /\ origin' = [origin EXCEPT ![s] =
                         IF stored = Torn THEN None
                         ELSE [work |-> work, calm |-> call[c].calm,
                               dirty |-> UserDirty(Captured(c))]]
    /\ call' = [Disturbed({d \in Calls \ {c} : call[d] # None /\ call[d].session = s})
                  EXCEPT ![c] = Begun(c, Captured(c))]
    /\ UNCHANGED repo

ImpactReport(c) ==
    /\ At(c, "impact", "hash") /\ call[c].todo = {}
    /\ call' = [call EXCEPT
                 ![c].brain = BrainDelta(call[c].base, call[c].seen),
                 ![c].conflicts = Conflicts(call[c].base, call[c].seen),
                 ![c].step = "done"]
    /\ UNCHANGED <<repo, baseline, origin>>

\* The answer reaches the caller, or the process dies before it does.
Return(c) ==
    /\ call[c] # None
    /\ call[c].step \in {"done", "failed"}
    /\ call' = [call EXCEPT ![c] = None]
    /\ UNCHANGED <<repo, baseline, origin>>

Crash(c) ==
    /\ call[c] # None
    /\ call[c].step \notin {"done", "failed"}
    /\ call' = [call EXCEPT ![c] = None]
    /\ UNCHANGED <<repo, baseline, origin>>

CallStep(c) ==
    \/ EnsureLoad(c) \/ BeginLoad(c) \/ ImpactLoad(c)
    \/ DetectHead(c) \/ DetectStatus(c)
    \/ \E f \in Files : HashFile(c, f)
    \/ SaveCreate(c) \/ SaveWrite(c) \/ ImpactReport(c)

Next ==
    \/ Developer
    \/ \E c \in Calls :
         \/ \E e \in Entries, s \in Sessions, t \in Tasks : Start(c, e, s, t)
         \/ CallStep(c)
         \/ Return(c)
         \/ Crash(c)

Spec == Init /\ [][Next]_vars

-----------------------------------------------------------------------------
(* Properties.                                                             *)

HasBaseline(s) == baseline[s] \notin {NoFile, Empty, Torn}

\* A Begin that found no baseline and has not finished writing its own.
Missed(c, s) ==
    /\ call[c] # None
    /\ call[c].session = s /\ call[c].phase = "begin"
    /\ call[c].step \in {"head", "status", "hash", "write"}

Settled(s) == HasBaseline(s) /\ \A c \in Calls : ~Missed(c, s)

\* "Capture an immutable developer-task baseline": once a session's baseline is
\* on disk no call of Begin, Ensure or Impact changes it (engine.go:118-143).
BaselineImmutable ==
    [][\A s \in Sessions : HasBaseline(s) => baseline'[s] = baseline[s]]_vars

\* What the code guarantees however many calls race: when every Begin that missed
\* the file is over, the baseline on disk is final, and no later call gets past
\* the lookup to capture another one.
SettledBaselineStable ==
    [][\A s \in Sessions :
         Settled(s) => Settled(s)' /\ baseline'[s] = baseline[s]]_vars

\* The answer of an Impact during which nothing moved, against a baseline during
\* whose capture nothing moved.
Comparable(c) ==
    /\ At(c, "impact", "done") /\ call[c].calm
    /\ origin[call[c].session] # None
    /\ origin[call[c].session].calm

\* What changed in the developer's dirty files since the baseline.
UserChanged(s) ==
    {f \in origin[s].dirty : work[f] # origin[s].work[f]}

\* BRAIN_DELTA is exactly what differs from HEAD now and was clean, or different,
\* when the baseline was taken; a conflict is exactly a file of it the developer
\* had already changed (computeOwnership, across the two calls and the file).
OwnershipExact ==
    \A c \in Calls : Comparable(c) =>
        LET s == call[c].session
            readable == Files \ Quoted
            changed == {f \in Dirty \cap readable :
                          f \in origin[s].dirty => f \in UserChanged(s)}
        IN  /\ call[c].brain \cap readable = changed
            /\ call[c].conflicts \cap readable = changed \cap origin[s].dirty

\* BROWNFIELD.md:59 "If a file in USER_DIRTY changes again after the baseline, it
\* is reported as an ownership conflict": every such file, also one the change
\* made equal to HEAD.  No run checks it: it does not hold.
UserChangeReported ==
    \A c \in Calls : Comparable(c) =>
        UserChanged(call[c].session) \subseteq call[c].conflicts

\* BROWNFIELD.md:105 "brain_project_begin is idempotent for the same session/task":
\* Begin refuses a session only because it has another task's baseline.
\* No run checks it: it does not hold.
BeginIdempotent ==
    \A c \in Calls : At(c, "begin", "failed") =>
        LET b == baseline[call[c].session] IN
        HasBaseline(call[c].session) /\ Norm[b.task] # Norm[call[c].task]

-----------------------------------------------------------------------------
(* Why OwnershipExact holds: the inductive invariant behind it.            *)

Scanning(c) ==
    \/ call[c].step \in {"hash", "write"}
    \/ call[c].phase = "impact" /\ call[c].step = "done"

\* An undisturbed scan has seen the dirty files it is through with, as they are.
ScanInv(c) ==
    /\ call[c].step \in {"load", "head", "status"} => call[c].seen = NoSeen
    /\ call[c].step = "write" => call[c].phase = "begin"
    /\ Scanning(c) /\ call[c].calm =>
         /\ call[c].step # "hash" => call[c].todo = {}
         /\ call[c].todo \subseteq Dirty
         /\ \A f \in Files : call[c].seen[f] =
              IF f \in Dirty \ call[c].todo THEN fileHash(f) ELSE Clean

\* A baseline taken undisturbed holds the hashes of the files dirty at that time.
TakenFrom(b, o) ==
    o.calm => \A f \in Files : b.hash[f] =
        CASE f \notin o.dirty -> Clean
          [] f \in o.dirty \cap Quoted -> Absent
          [] OTHER -> o.work[f]

BaselineInv ==
    \A s \in Sessions : HasBaseline(s) =>
        origin[s] # None /\ TakenFrom(baseline[s], origin[s])

\* An undisturbed Impact compares with the baseline the session's origin describes,
\* and its answer is computed from that baseline and its scan.
ImpactInv(c) ==
    call[c].phase = "impact" =>
        /\ call[c].step \in {"head", "status", "hash", "done"} =>
             /\ call[c].base # None
             /\ call[c].calm /\ origin[call[c].session] # None =>
                  TakenFrom(call[c].base, origin[call[c].session])
        /\ call[c].step = "done" =>
             /\ call[c].brain = BrainDelta(call[c].base, call[c].seen)
             /\ call[c].conflicts = Conflicts(call[c].base, call[c].seen)

OwnershipInv ==
    /\ BaselineInv
    /\ \A c \in Calls : call[c] # None => ScanInv(c) /\ ImpactInv(c)

\* A call is where its entry point leads: Begin's answer is kept on the way to the
\* impact, and only an entry that wants no more is done in Begin.
PhaseInv(c) ==
    /\ call[c].phase = "ensure" => call[c].step \in {"load", "failed"}
    /\ call[c].phase = "begin" /\ call[c].step = "done" => call[c].entry = "begin"
    /\ call[c].phase = "impact" /\ call[c].entry # "impact" => call[c].begun # None

\* The readiness an undisturbed Impact answers is the discovery contract on the
\* project as it is.
ReadyInv(c) ==
    call[c].phase = "impact" /\ call[c].calm =>
        /\ call[c].step \in {"status", "hash", "done"} => call[c].head = (vcs = "born")
        /\ call[c].step \in {"hash", "done"} =>
             call[c].ready = (Missing(call[c].base, Mode(vcs = "born"), AllFiles, Dirty) = {})

AnswerInv == \A c \in Calls : call[c] # None => PhaseInv(c) /\ ReadyInv(c)

\* With one request at a time, whoever missed the baseline is the one to write it.
SerialInv ==
    \A c \in Calls, s \in Sessions : Missed(c, s) => ~HasBaseline(s)
=============================================================================
