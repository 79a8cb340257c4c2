--------------------------- MODULE BrownfieldProofs ---------------------------
(***************************************************************************)
(* What holds of the brownfield engine for any project, any sessions and   *)
(* any number of requests in progress.                                     *)
(***************************************************************************)
EXTENDS DeveloperFlow, TLAPS

LEMMA CallTyped ==
    ASSUME TypeOK, NEW c \in Calls, call[c] # None
    PROVE  call[c] \in Call
BY DEF TypeOK

LEMMA GotoTyped ==
    ASSUME TypeOK, NEW c \in Calls, call[c] # None, NEW st \in Steps, Goto(c, st),
           st = "write" \/ call[c].step = "load"
    PROVE  call' \in [Calls -> Call \cup {None}]
<1>1. call[c] \in Call
  BY CallTyped
<1>2. [call[c] EXCEPT !.step = st] \in Call
  BY <1>1 DEF Call
<1>. QED
  BY <1>2 DEF TypeOK, Goto

LEMMA DisturbedTyped ==
    ASSUME TypeOK, NEW cs \in SUBSET Calls
    PROVE  Disturbed(cs) \in [Calls -> Call \cup {None}]
<1>. SUFFICES ASSUME NEW c \in Calls
              PROVE  Disturbed(cs)[c] \in Call \cup {None}
  BY DEF Disturbed
<1>1. CASE call[c] = None
  BY <1>1 DEF Disturbed
<1>2. CASE call[c] # None
  <2>1. call[c] \in Call
    BY <1>2, CallTyped
  <2>2. [call[c] EXCEPT !.calm = FALSE] \in Call
    BY <2>1 DEF Call
  <2>. QED
    BY <2>1, <2>2 DEF Disturbed
<1>. QED
  BY <1>1, <1>2

LEMMA BegunTyped ==
    ASSUME TypeOK, NEW c \in Calls, call[c] # None, NEW b \in Baseline
    PROVE  Begun(c, b) \in Call
<1>1. call[c] \in Call
  BY CallTyped
<1>2. NoSeen \in HashMaps
  BY DEF NoSeen, HashMaps
<1>3. CASE call[c].entry = "begin"
  <2>1. Begun(c, b) = [call[c] EXCEPT !.begun = b,
                          !.step = "done", !.head = FALSE, !.mode = "new",
                          !.todo = {}, !.seen = NoSeen]
    BY <1>1, <1>3 DEF Begun, Call
  <2>. QED
    BY <1>1, <1>2, <2>1 DEF Call, Phases, Steps, Modes
<1>4. CASE call[c].entry # "begin"
  <2>1. Begun(c, b) = [call[c] EXCEPT !.begun = b, !.phase = "impact",
                          !.step = "load", !.head = FALSE, !.mode = "new",
                          !.todo = {}, !.seen = NoSeen, !.calm = TRUE]
    BY <1>1, <1>4 DEF Begun, Call
  <2>. QED
    BY <1>1, <1>2, <1>4, <2>1 DEF Call, Phases, Steps, Modes
<1>. QED
  BY <1>3, <1>4

LEMMA HashesTyped ==
    ASSUME TypeOK
    PROVE  /\ NoSeen \in HashMaps
           /\ Dirty \subseteq Files
           /\ \A f \in Files : fileHash(f) \in Hashes
BY DEF TypeOK, NoSeen, HashMaps, Dirty, fileHash, Snapshots, Hashes

LEMMA TypeStep ==
    ASSUME TypeOK, [Next]_vars
    PROVE  TypeOK'
<1>1. CASE Developer
  <2>0. Disturbed(Calls) \in [Calls -> Call \cup {None}]
    BY DisturbedTyped
  <2>c. ASSUME Change PROVE /\ call' \in [Calls -> Call \cup {None}]
                            /\ edits' \in 0..MaxEdits
                            /\ baseline' = baseline /\ origin' = origin
    BY <2>0, <2>c, BoundAssumption DEF Change, TypeOK
  <2>1. ASSUME NEW f \in Files, NEW h \in Hashes, Edit(f, h) PROVE TypeOK'
    BY <2>c, <2>1 DEF Edit, TypeOK, Snapshots
  <2>2. CASE GitInit
    BY <2>c, <2>2 DEF GitInit, TypeOK
  <2>3. ASSUME NEW fs \in SUBSET Files, Commit(fs) PROVE TypeOK'
    BY <2>c, <2>3 DEF Commit, TypeOK, Snapshots
  <2>. QED
    BY <1>1, <2>1, <2>2, <2>3 DEF Developer
<1>2. ASSUME NEW c \in Calls, NEW e \in Entries, NEW s \in Sessions, NEW t \in Tasks,
             Start(c, e, s, t)
      PROVE  TypeOK'
  <2>1. FirstPhase(e) \in Phases /\ (e = "begin" => FirstPhase(e) = "begin")
    BY DEF FirstPhase, Phases
  <2>. QED
    BY <1>2, <2>1, HashesTyped DEF Start, TypeOK, repo, Call, Steps, Modes
<1>3. ASSUME NEW c \in Calls, CallStep(c) PROVE TypeOK'
  <2>0. ASSUME call[c] # None PROVE call[c] \in Call
    BY <2>0, CallTyped
  <2>1. CASE EnsureLoad(c)
    <3>1. call[c] # None /\ call[c].session \in Sessions
      BY <2>0, <2>1 DEF EnsureLoad, At, Call
    <3>2. CASE call' = [call EXCEPT ![c].phase = "begin"]
      <4>1. [call[c] EXCEPT !.phase = "begin"] \in Call
        BY <2>0, <3>1 DEF Call, Phases
      <4>. QED
        BY <2>1, <3>2, <4>1 DEF EnsureLoad, TypeOK, repo
    <3>3. CASE Goto(c, "failed")
      BY <2>1, <3>1, <3>3, GotoTyped DEF EnsureLoad, At, TypeOK, repo, Steps
    <3>4. CASE /\ baseline[call[c].session] \in Baseline
               /\ call' = [call EXCEPT ![c] = Begun(c, baseline[call[c].session])]
      BY <2>1, <3>1, <3>4, BegunTyped DEF EnsureLoad, TypeOK, repo
    <3>. QED
      BY <2>1, <3>1, <3>2, <3>3, <3>4 DEF EnsureLoad, TypeOK
  <2>2. CASE BeginLoad(c)
    <3>1. call[c] # None /\ call[c].session \in Sessions
      BY <2>0, <2>2 DEF BeginLoad, At, Call
    <3>2. CASE Goto(c, "failed") \/ Goto(c, "head")
      BY <2>2, <3>1, <3>2, GotoTyped DEF BeginLoad, At, TypeOK, repo, Steps
    <3>3. CASE /\ baseline[call[c].session] \in Baseline
               /\ call' = [call EXCEPT ![c] = Begun(c, baseline[call[c].session])]
      BY <2>2, <3>1, <3>3, BegunTyped DEF BeginLoad, TypeOK, repo
    <3>. QED
      BY <2>2, <3>1, <3>2, <3>3 DEF BeginLoad, TypeOK
  <2>3. CASE ImpactLoad(c)
    <3>1. call[c] # None /\ call[c].session \in Sessions
      BY <2>0, <2>3 DEF ImpactLoad, At, Call
    <3>2. CASE Goto(c, "failed")
      BY <2>3, <3>1, <3>2, GotoTyped DEF ImpactLoad, At, TypeOK, repo, Steps
    <3>3. CASE /\ baseline[call[c].session] \in Baseline
               /\ call' = [call EXCEPT ![c].base = baseline[call[c].session],
                                       ![c].step = "head"]
      <4>1. [call[c] EXCEPT !.base = baseline[call[c].session], !.step = "head"] \in Call
        BY <2>0, <2>3, <3>1, <3>3 DEF ImpactLoad, At, Call, Steps
      <4>. QED
        BY <2>3, <3>1, <3>3, <4>1 DEF ImpactLoad, TypeOK, repo
    <3>. QED
      BY <2>3, <3>1, <3>2, <3>3 DEF ImpactLoad, TypeOK
  <2>4. CASE DetectHead(c)
    <3>1. [call[c] EXCEPT !.head = (vcs = "born"), !.step = "status"] \in Call
      BY <2>0, <2>4 DEF DetectHead, Call, Steps
    <3>. QED
      BY <2>4, <3>1 DEF DetectHead, TypeOK, repo
  <2>5. CASE DetectStatus(c)
    <3>. DEFINE m == Mode(call[c].head)
                r == /\ call[c].phase = "impact"
                     /\ Missing(call[c].base, m, AllFiles, Dirty) = {}
    <3>1. m \in Modes /\ (m = "existing" => call[c].head)
      BY DEF Mode, Modes
    <3>2. r \in BOOLEAN
      OBVIOUS
    <3>. HIDE DEF m, r
    <3>3. [call[c] EXCEPT !.mode = m, !.todo = Dirty, !.ready = r, !.step = "hash"] \in Call
      BY <2>0, <2>5, <3>1, <3>2, HashesTyped DEF DetectStatus, Call, Steps
    <3>4. call' = [call EXCEPT ![c].mode = m, ![c].todo = Dirty,
                               ![c].ready = r, ![c].step = "hash"]
      BY <2>5 DEF DetectStatus, m, r
    <3>5. UNCHANGED <<repo, baseline, origin>>
      BY <2>5 DEF DetectStatus
    <3>. QED
      BY <3>3, <3>4, <3>5 DEF TypeOK, repo
  <2>6. ASSUME NEW f \in Files, HashFile(c, f) PROVE TypeOK'
    <3>1. [call[c] EXCEPT !.todo = @ \ {f}, !.seen[f] = fileHash(f)] \in Call
      BY <2>0, <2>6, HashesTyped DEF HashFile, Call, HashMaps
    <3>. QED
      BY <2>6, <3>1 DEF HashFile, TypeOK, repo
  <2>7. CASE SaveCreate(c)
    BY <2>0, <2>7, GotoTyped DEF SaveCreate, At, TypeOK, repo, Steps
  <2>8. CASE SaveWrite(c)
    <3>1. call[c] \in Call
      BY <2>0, <2>8 DEF SaveWrite, At
    <3>2. call[c].session \in Sessions
      BY <3>1 DEF Call
    <3>3. Captured(c) \in Baseline
      BY <3>1 DEF Captured, Call, Baseline
    <3>4. UserDirty(Captured(c)) \subseteq Files
      BY DEF UserDirty
    <3>5. [work |-> work, calm |-> call[c].calm, dirty |-> UserDirty(Captured(c))] \in Origin
      BY <3>1, <3>4 DEF Origin, TypeOK, Call
    <3>6. Begun(c, Captured(c)) \in Call
      BY <2>8, <3>3, BegunTyped DEF SaveWrite, At
    <3>7. call' \in [Calls -> Call \cup {None}]
      BY <2>8, <3>6, DisturbedTyped DEF SaveWrite
    <3>8. PICK stored \in {Captured(c)} \cup (IF baseline[call[c].session] = Empty
                                              THEN {} ELSE {Torn}) :
             /\ baseline' = [baseline EXCEPT ![call[c].session] = stored]
             /\ origin' = [origin EXCEPT ![call[c].session] =
                            IF stored = Torn THEN None
                            ELSE [work |-> work, calm |-> call[c].calm,
                                  dirty |-> UserDirty(Captured(c))]]
      BY <2>8 DEF SaveWrite
    <3>h. stored \in Baseline \cup {Torn}
      BY <3>3, <3>8
    <3>9. baseline' \in [Sessions -> Baseline \cup {NoFile, Empty, Torn}]
      BY <3>2, <3>8, <3>h DEF TypeOK
    <3>10. origin' \in [Sessions -> Origin \cup {None}]
      BY <3>2, <3>5, <3>8 DEF TypeOK
    <3>. QED
      BY <2>8, <3>7, <3>9, <3>10 DEF SaveWrite, TypeOK, repo
  <2>9. CASE ImpactReport(c)
    <3>. DEFINE bd == BrainDelta(call[c].base, call[c].seen)
                cf == Conflicts(call[c].base, call[c].seen)
    <3>1. bd \subseteq Files /\ cf \subseteq Files
      BY DEF BrainDelta, Conflicts
    <3>. HIDE DEF bd, cf
    <3>2. [call[c] EXCEPT !.brain = bd, !.conflicts = cf, !.step = "done"] \in Call
      BY <2>0, <2>9, <3>1 DEF ImpactReport, At, Call, Steps
    <3>3. call' = [call EXCEPT ![c].brain = bd, ![c].conflicts = cf, ![c].step = "done"]
      BY <2>9 DEF ImpactReport, bd, cf
    <3>. QED
      BY <2>9, <3>2, <3>3 DEF ImpactReport, TypeOK, repo
  <2>. QED
    BY <1>3, <2>1, <2>2, <2>3, <2>4, <2>5, <2>6, <2>7, <2>8, <2>9 DEF CallStep
<1>4. ASSUME NEW c \in Calls, Return(c) \/ Crash(c) PROVE TypeOK'
  BY <1>4 DEF Return, Crash, TypeOK, repo
<1>5. CASE UNCHANGED vars
  BY <1>5 DEF vars, TypeOK
<1>. QED
  BY <1>1, <1>2, <1>3, <1>4, <1>5 DEF Next

(* Type correctness: every baseline on disk and every request in progress  *)
(* stays well-formed, and a project is only ever recorded as "existing"    *)
(* together with a base commit (engine.go:93-112, :135).                   *)
THEOREM TypeCorrect == Spec => []TypeOK
<1>1. Init => TypeOK
  BY BoundAssumption DEF Init, TypeOK, Snapshots, Hashes
<1>2. TypeOK /\ [Next]_vars => TypeOK'
  BY TypeStep
<1>. QED
  BY <1>1, <1>2, PTL DEF Spec

-----------------------------------------------------------------------------
(* A baseline no Begin has missed is final.                                *)

\* A step of the engine changes only the call that takes it, and another call of
\* the session at most loses its calm.
LEMMA OtherCalls ==
    ASSUME TypeOK, NEW c \in Calls, NEW d \in Calls, c # d, call[d] # None,
           CallStep(c) \/ Return(c) \/ Crash(c)
                       \/ \E e \in Entries, s \in Sessions, t \in Tasks : Start(c, e, s, t)
    PROVE  /\ ~SaveWrite(c) => call'[d] = call[d]
           /\ call'[d] = call[d] \/ call'[d] = [call[d] EXCEPT !.calm = FALSE]
<1>1. CASE SaveWrite(c)
  BY <1>1 DEF SaveWrite, Disturbed, TypeOK
<1>2. CASE ~SaveWrite(c)
  BY <1>2 DEF CallStep, EnsureLoad, BeginLoad, ImpactLoad, DetectHead, DetectStatus,
      HashFile, SaveCreate, ImpactReport, Return, Crash, Start, Goto, TypeOK
<1>. QED
  BY <1>1, <1>2

\* Missing the baseline depends on nothing the developer can do to a call.
LEMMA MissedKept ==
    ASSUME TypeOK, NEW d \in Calls, NEW s \in Sessions, call[d] # None, ~Missed(d, s),
           call'[d] = call[d] \/ call'[d] = [call[d] EXCEPT !.calm = FALSE]
    PROVE  ~Missed(d, s)'
<1>1. call[d] \in Call
  BY CallTyped
<1>. QED
  BY <1>1 DEF Missed, Call

LEMMA SettledStep ==
    ASSUME TypeOK, [Next]_vars, NEW s \in Sessions, Settled(s)
    PROVE  Settled(s)' /\ baseline'[s] = baseline[s]
<1>. SUFFICES /\ baseline'[s] = baseline[s]
              /\ \A c \in Calls : ~Missed(c, s)'
  BY DEF Settled, HasBaseline
<1>1. CASE Developer
  <2>1. baseline' = baseline /\ call' = Disturbed(Calls)
    BY <1>1 DEF Developer, Edit, GitInit, Commit, Change
  <2>2. ASSUME NEW d \in Calls PROVE ~Missed(d, s)'
    <3>1. CASE call[d] = None
      BY <2>1, <3>1 DEF Disturbed, Missed
    <3>2. CASE call[d] # None
      <4>1. call'[d] = [call[d] EXCEPT !.calm = FALSE]
        BY <2>1, <3>2 DEF Disturbed
      <4>. QED
        BY <3>2, <4>1, MissedKept DEF Settled
    <3>. QED
      BY <3>1, <3>2
  <2>. QED
    BY <2>1, <2>2
<1>2. ASSUME NEW c \in Calls,
             CallStep(c) \/ Return(c) \/ Crash(c)
               \/ \E e \in Entries, z \in Sessions, t \in Tasks : Start(c, e, z, t)
      PROVE  baseline'[s] = baseline[s] /\ \A d \in Calls : ~Missed(d, s)'
  <2>1. ASSUME NEW d \in Calls, d # c PROVE ~Missed(d, s)'
    <3>1. CASE call[d] = None
      BY <1>2, <2>1, <3>1 DEF CallStep, EnsureLoad, BeginLoad, ImpactLoad, DetectHead,
          DetectStatus, HashFile, SaveCreate, SaveWrite, ImpactReport, Return, Crash,
          Start, Goto, TypeOK, Disturbed, Missed
    <3>2. CASE call[d] # None
      BY <1>2, <2>1, <3>2, OtherCalls, MissedKept DEF Settled
    <3>. QED
      BY <3>1, <3>2
  <2>2. ~Missed(c, s)
    BY DEF Settled
  <2>3. baseline[s] \notin {NoFile, Empty, Torn}
    BY DEF Settled, HasBaseline
  <2>4. ASSUME call[c] # None PROVE call[c] \in Call
    BY <2>4, CallTyped
  <2>5. CASE EnsureLoad(c)
    <3>1. baseline' = baseline
      BY <2>5 DEF EnsureLoad
    <3>2. call'[c] = [call[c] EXCEPT !.phase = "begin"]
          \/ call'[c] = [call[c] EXCEPT !.step = "failed"]
          \/ call'[c] = Begun(c, baseline[call[c].session])
      BY <2>5, <2>4 DEF EnsureLoad, At, Goto, TypeOK
    <3>3. call[c] \in Call /\ call[c].step = "load"
      BY <2>4, <2>5 DEF EnsureLoad, At
    <3>4. ~Missed(c, s)'
      BY <3>2, <3>3 DEF Missed, Begun, Call
    <3>. QED
      BY <2>1, <3>1, <3>4
  <2>6. CASE BeginLoad(c)
    <3>1. baseline' = baseline
      BY <2>6 DEF BeginLoad
    <3>3. call[c] \in Call /\ call[c].step = "load"
      BY <2>4, <2>6 DEF BeginLoad, At
    <3>2. \/ call[c].session # s /\ call'[c] = [call[c] EXCEPT !.step = "head"]
          \/ call'[c] = [call[c] EXCEPT !.step = "failed"]
          \/ call'[c] = Begun(c, baseline[call[c].session])
      BY <2>6, <2>3 DEF BeginLoad, At, Goto, TypeOK
    <3>4. ~Missed(c, s)'
      BY <3>2, <3>3 DEF Missed, Begun, Call
    <3>. QED
      BY <2>1, <3>1, <3>4
  <2>7. CASE ImpactLoad(c)
    BY <2>1, <2>4, <2>7 DEF ImpactLoad, At, Goto, TypeOK, Missed, Call
  <2>8. CASE DetectHead(c)
    BY <2>1, <2>2, <2>4, <2>8 DEF DetectHead, TypeOK, Missed, Call
  <2>9. CASE DetectStatus(c)
    <3>1. /\ call[c] \in Call /\ call[c].step = "status"
          /\ baseline' = baseline
          /\ call'[c].phase = call[c].phase /\ call'[c].session = call[c].session
      BY <2>4, <2>9 DEF DetectStatus, TypeOK, Call
    <3>. QED
      BY <2>1, <2>2, <2>9, <3>1 DEF Missed, DetectStatus
  <2>10. ASSUME NEW f \in Files, HashFile(c, f)
         PROVE  baseline'[s] = baseline[s] /\ \A d \in Calls : ~Missed(d, s)'
    BY <2>1, <2>2, <2>4, <2>10 DEF HashFile, TypeOK, Missed, Call
  <2>11. CASE SaveCreate(c)
    BY <2>1, <2>2, <2>4, <2>11 DEF SaveCreate, At, Goto, TypeOK, Missed, Call
  <2>12. CASE SaveWrite(c)
    <3>1. call[c] \in Call /\ call[c].session # s
      BY <2>2, <2>4, <2>12 DEF SaveWrite, At, Missed
    <3>2. baseline'[s] = baseline[s]
      BY <2>12, <3>1 DEF SaveWrite, TypeOK
    <3>3. call'[c] = Begun(c, Captured(c))
      BY <2>12 DEF SaveWrite, Disturbed
    <3>4. call'[c].session = call[c].session
      BY <3>1, <3>3 DEF Begun, Call
    <3>. QED
      BY <2>1, <3>1, <3>2, <3>4 DEF Missed
  <2>13. CASE ImpactReport(c)
    <3>1. /\ call[c] \in Call /\ baseline' = baseline
          /\ call'[c].step = "done"
      BY <2>4, <2>13 DEF ImpactReport, At, TypeOK, Call
    <3>. QED
      BY <2>1, <3>1 DEF Missed
  <2>14. CASE Return(c) \/ Crash(c)
    BY <2>1, <2>14 DEF Return, Crash, TypeOK, Missed
  <2>15. ASSUME NEW e \in Entries, NEW z \in Sessions, NEW t \in Tasks, Start(c, e, z, t)
         PROVE  baseline'[s] = baseline[s] /\ \A d \in Calls : ~Missed(d, s)'
    BY <2>1, <2>15 DEF Start, TypeOK, Missed
  <2>. QED
    BY <1>2, <2>5, <2>6, <2>7, <2>8, <2>9, <2>10, <2>11, <2>12, <2>13, <2>14, <2>15
       DEF CallStep
<1>3. CASE UNCHANGED vars
  BY <1>3 DEF vars, Missed, Settled
<1>. QED
  BY <1>1, <1>2, <1>3 DEF Next

(* However many calls of Begin race, the baseline that is on disk when the *)
(* last of them is over is never written again (engine.go:118-143).        *)
THEOREM BaselineFinal == Spec => SettledBaselineStable
<1>1. TypeOK /\ [Next]_vars =>
        [\A s \in Sessions : Settled(s) => Settled(s)' /\ baseline'[s] = baseline[s]]_vars
  BY SettledStep
<1>. QED
  BY <1>1, TypeCorrect, PTL DEF Spec, SettledBaselineStable

-----------------------------------------------------------------------------
(* The ownership report.                                                   *)

\* The conjuncts of OwnershipInv about call c survive a step that leaves the
\* repository, the session's baseline origin and c's record alone.
LEMMA CallInvKept ==
    ASSUME TypeOK, OwnershipInv, NEW d \in Calls, call[d] # None,
           UNCHANGED repo, call'[d] = call[d],
           call[d].calm => origin'[call[d].session] = origin[call[d].session]
    PROVE  ScanInv(d)' /\ ImpactInv(d)'
<1>1. ScanInv(d) /\ ImpactInv(d)
  BY DEF OwnershipInv
<1>2. ScanInv(d)'
  BY <1>1 DEF ScanInv, Scanning, Dirty, fileHash, repo
<1>3. ImpactInv(d)'
  BY <1>1 DEF ImpactInv, TakenFrom, BrainDelta, Conflicts, UserDirty
<1>. QED
  BY <1>2, <1>3

\* A call that has lost its calm owes nothing about the repository.
LEMMA CallInvDisturbed ==
    ASSUME TypeOK, OwnershipInv, NEW d \in Calls, call[d] # None,
           call'[d] = [call[d] EXCEPT !.calm = FALSE]
    PROVE  ScanInv(d)' /\ ImpactInv(d)'
<1>1. ScanInv(d) /\ ImpactInv(d) /\ call[d] \in Call
  BY CallTyped DEF OwnershipInv
<1>2. /\ ~call'[d].calm
      /\ call'[d].step = call[d].step /\ call'[d].phase = call[d].phase
      /\ call'[d].seen = call[d].seen /\ call'[d].base = call[d].base
      /\ call'[d].brain = call[d].brain /\ call'[d].conflicts = call[d].conflicts
  BY <1>1 DEF Call
<1>3. ScanInv(d)'
  BY <1>1, <1>2 DEF ScanInv, Scanning, NoSeen
<1>4. ImpactInv(d)'
  BY <1>1, <1>2 DEF ImpactInv, BrainDelta, Conflicts, UserDirty
<1>. QED
  BY <1>3, <1>4

LEMMA BaselineInvKept ==
    ASSUME OwnershipInv, UNCHANGED <<baseline, origin>>
    PROVE  BaselineInv'
BY DEF OwnershipInv, BaselineInv, HasBaseline, TakenFrom

\* What is left to show of a step by call c that keeps baselines and origins.
LEMMA OneCallStep ==
    ASSUME TypeOK, OwnershipInv, NEW c \in Calls, UNCHANGED <<repo, baseline, origin>>,
           \A d \in Calls : d # c => call'[d] = call[d],
           call'[c] # None => ScanInv(c)' /\ ImpactInv(c)'
    PROVE  OwnershipInv'
<1>1. BaselineInv'
  BY BaselineInvKept
<1>2. ASSUME NEW d \in Calls, call'[d] # None PROVE ScanInv(d)' /\ ImpactInv(d)'
  BY <1>2, CallInvKept DEF repo
<1>. QED
  BY <1>1, <1>2 DEF OwnershipInv

\* A call about to load: nothing seen, nothing reported.
LEMMA AboutToLoad ==
    ASSUME NEW c \in Calls, call'[c].step = "load", call'[c].seen = NoSeen
    PROVE  ScanInv(c)' /\ ImpactInv(c)'
BY DEF ScanInv, ImpactInv, Scanning, NoSeen

LEMMA BegunInv ==
    ASSUME TypeOK, NEW c \in Calls, call[c] # None, NEW b \in Baseline,
           call'[c] = Begun(c, b)
    PROVE  ScanInv(c)' /\ ImpactInv(c)'
<1>1. call[c] \in Call
  BY CallTyped
<1>2. CASE call[c].entry = "begin"
  <2>1. call'[c].step = "done" /\ call'[c].phase = "begin"
    BY <1>1, <1>2 DEF Begun, Call
  <2>. QED
    BY <2>1 DEF ScanInv, ImpactInv, Scanning
<1>3. CASE call[c].entry # "begin"
  <2>1. call'[c].step = "load" /\ call'[c].seen = NoSeen
    BY <1>1, <1>3 DEF Begun, Call
  <2>. QED
    BY <2>1, AboutToLoad
<1>. QED
  BY <1>2, <1>3

LEMMA OwnershipStep ==
    ASSUME TypeOK, OwnershipInv, [Next]_vars
    PROVE  OwnershipInv'
<1>1. CASE Developer
  <2>1. UNCHANGED <<baseline, origin>> /\ call' = Disturbed(Calls)
    BY <1>1 DEF Developer, Edit, GitInit, Commit, Change
  <2>2. BaselineInv'
    BY <2>1, BaselineInvKept
  <2>3. ASSUME NEW d \in Calls, call'[d] # None PROVE ScanInv(d)' /\ ImpactInv(d)'
    BY <2>1, <2>3, CallInvDisturbed DEF Disturbed
  <2>. QED
    BY <2>2, <2>3 DEF OwnershipInv
<1>2. ASSUME NEW c \in Calls, NEW e \in Entries, NEW s \in Sessions, NEW t \in Tasks,
             Start(c, e, s, t)
      PROVE  OwnershipInv'
  <2>1. /\ UNCHANGED <<repo, baseline, origin>>
        /\ \A d \in Calls : d # c => call'[d] = call[d]
        /\ call'[c].step = "load" /\ call'[c].seen = NoSeen
    BY <1>2 DEF Start, TypeOK, repo
  <2>. QED
    BY <2>1, AboutToLoad, OneCallStep
<1>3. ASSUME NEW c \in Calls, CallStep(c) PROVE OwnershipInv'
  <2>0. call[c] # None
    BY <1>3 DEF CallStep, EnsureLoad, BeginLoad, ImpactLoad, DetectHead, DetectStatus,
        HashFile, SaveCreate, SaveWrite, ImpactReport, At
  <2>t. call[c] \in Call
    BY <2>0, CallTyped
  <2>i. ScanInv(c) /\ ImpactInv(c)
    BY <2>0 DEF OwnershipInv
  <2>1. ASSUME EnsureLoad(c) \/ BeginLoad(c) PROVE OwnershipInv'
    <3>1. /\ UNCHANGED <<repo, baseline, origin>>
          /\ call[c].step = "load" /\ call[c].phase # "impact"
          /\ \A d \in Calls : d # c => call'[d] = call[d]
      BY <2>1 DEF EnsureLoad, BeginLoad, At, Goto, TypeOK
    <3>2. \/ call'[c] = [call[c] EXCEPT !.phase = "begin"]
          \/ call'[c] = [call[c] EXCEPT !.step = "failed"]
          \/ call'[c] = [call[c] EXCEPT !.step = "head"]
          \/ /\ baseline[call[c].session] \in Baseline
             /\ call'[c] = Begun(c, baseline[call[c].session])
      BY <2>1, <2>t DEF EnsureLoad, BeginLoad, At, Goto, TypeOK, Call
    <3>3. CASE call'[c] = Begun(c, baseline[call[c].session])
               /\ baseline[call[c].session] \in Baseline
      BY <2>0, <3>1, <3>3, BegunInv, OneCallStep
    <3>4. CASE \/ call'[c] = [call[c] EXCEPT !.phase = "begin"]
               \/ call'[c] = [call[c] EXCEPT !.step = "failed"]
               \/ call'[c] = [call[c] EXCEPT !.step = "head"]
      <4>1. ScanInv(c)' /\ ImpactInv(c)'
        BY <2>t, <2>i, <3>1, <3>4 DEF ScanInv, ImpactInv, Scanning, NoSeen, Call
      <4>. QED
        BY <3>1, <4>1, OneCallStep
    <3>. QED
      BY <3>2, <3>3, <3>4
  <2>2. CASE ImpactLoad(c)
    <3>1. /\ UNCHANGED <<repo, baseline, origin>>
          /\ call[c].step = "load" /\ call[c].phase = "impact"
          /\ \A d \in Calls : d # c => call'[d] = call[d]
      BY <2>2 DEF ImpactLoad, At, Goto, TypeOK
    <3>2. CASE call'[c] = [call[c] EXCEPT !.step = "failed"]
      <4>1. ScanInv(c)' /\ ImpactInv(c)'
        BY <2>t, <2>i, <3>1, <3>2 DEF ScanInv, ImpactInv, Scanning, NoSeen, Call
      <4>. QED
        BY <3>1, <4>1, OneCallStep
    <3>3. CASE /\ HasBaseline(call[c].session)
               /\ call'[c] = [call[c] EXCEPT !.base = baseline[call[c].session],
                                             !.step = "head"]
      <4>1. /\ call'[c].step = "head" /\ call'[c].phase = "impact"
            /\ call'[c].seen = NoSeen /\ call'[c].session = call[c].session
            /\ call'[c].base = baseline[call[c].session]
        BY <2>t, <2>i, <3>1, <3>3 DEF ScanInv, Call
      <4>2. /\ call[c].session \in Sessions
            /\ baseline[call[c].session] \in Baseline
            /\ TakenFrom(baseline[call[c].session], origin[call[c].session])
        BY <2>t, <3>3 DEF Call, TypeOK, OwnershipInv, BaselineInv, HasBaseline
      <4>3. ScanInv(c)'
        BY <4>1 DEF ScanInv, Scanning, NoSeen
      <4>4. ImpactInv(c)'
        BY <3>1, <4>1, <4>2, NullAssumption DEF ImpactInv, TakenFrom
      <4>. QED
        BY <3>1, <4>3, <4>4, OneCallStep
    <3>. QED
      BY <2>2, <2>t, <3>2, <3>3 DEF ImpactLoad, At, Goto, TypeOK, HasBaseline
  <2>3. CASE DetectHead(c)
    <3>1. /\ UNCHANGED <<repo, baseline, origin>>
          /\ \A d \in Calls : d # c => call'[d] = call[d]
          /\ call[c].step = "head"
          /\ call'[c] = [call[c] EXCEPT !.head = (vcs = "born"), !.step = "status"]
      BY <2>3 DEF DetectHead, TypeOK
    <3>2. ScanInv(c)' /\ ImpactInv(c)'
      BY <2>t, <2>i, <3>1 DEF ScanInv, ImpactInv, Scanning, NoSeen, TakenFrom, Call
    <3>. QED
      BY <3>1, <3>2, OneCallStep
  <2>4. CASE DetectStatus(c)
    <3>1. /\ UNCHANGED <<repo, baseline, origin>>
          /\ \A d \in Calls : d # c => call'[d] = call[d]
          /\ call[c].step = "status"
      BY <2>4 DEF DetectStatus, TypeOK
    <3>2. /\ call'[c].step = "hash" /\ call'[c].todo = Dirty
          /\ call'[c].seen = call[c].seen /\ call'[c].phase = call[c].phase
          /\ call'[c].base = call[c].base /\ call'[c].session = call[c].session
          /\ call'[c].calm = call[c].calm
      BY <2>4, <2>t DEF DetectStatus, TypeOK, Call
    <3>3. ScanInv(c)'
      <4>1. call[c].seen = NoSeen /\ Dirty' = Dirty
        BY <2>i, <3>1 DEF ScanInv, repo, Dirty
      <4>. QED
        BY <3>2, <4>1 DEF ScanInv, Scanning, NoSeen
    <3>4. ImpactInv(c)'
      BY <2>i, <3>1, <3>2 DEF ImpactInv, TakenFrom
    <3>. QED
      BY <3>1, <3>3, <3>4, OneCallStep
  <2>5. ASSUME NEW f \in Files, HashFile(c, f) PROVE OwnershipInv'
    <3>1. /\ UNCHANGED <<repo, baseline, origin>>
          /\ \A d \in Calls : d # c => call'[d] = call[d]
          /\ call[c].step = "hash" /\ f \in call[c].todo
          /\ call'[c] = [call[c] EXCEPT !.todo = @ \ {f}, !.seen[f] = fileHash(f)]
      BY <2>5 DEF HashFile, TypeOK
    <3>2. /\ call'[c].step = "hash" /\ call'[c].todo = call[c].todo \ {f}
          /\ call'[c].seen = [call[c].seen EXCEPT ![f] = fileHash(f)]
          /\ call'[c].phase = call[c].phase /\ call'[c].calm = call[c].calm
          /\ call'[c].base = call[c].base /\ call'[c].session = call[c].session
      BY <2>t, <3>1 DEF Call
    <3>3. ScanInv(c)'
      <4>1. Dirty' = Dirty /\ \A g \in Files : fileHash(g)' = fileHash(g)
        BY <3>1 DEF repo, Dirty, fileHash
      <4>2. ASSUME call[c].calm
            PROVE  /\ call'[c].todo \subseteq Dirty
                   /\ \A g \in Files : call'[c].seen[g] =
                        IF g \in Dirty \ call'[c].todo THEN fileHash(g) ELSE Clean
        BY <2>t, <2>i, <3>1, <3>2, <4>2 DEF ScanInv, Scanning, Call, HashMaps
      <4>. QED
        BY <3>2, <4>1, <4>2 DEF ScanInv, Scanning
    <3>4. ImpactInv(c)'
      BY <2>i, <3>1, <3>2 DEF ImpactInv, TakenFrom
    <3>. QED
      BY <3>1, <3>3, <3>4, OneCallStep
  <2>6. CASE SaveCreate(c)
    <3>1. /\ UNCHANGED <<repo, origin>>
          /\ call[c].step = "hash" /\ call[c].phase = "begin" /\ call[c].todo = {}
          /\ \A d \in Calls : d # c => call'[d] = call[d]
          /\ call'[c] = [call[c] EXCEPT !.step = "write"]
          /\ baseline' = [baseline EXCEPT ![call[c].session] = Empty]
      BY <2>6 DEF SaveCreate, At, Goto, TypeOK
    <3>2. BaselineInv'
      BY <3>1 DEF TypeOK, OwnershipInv, BaselineInv, HasBaseline, TakenFrom
    <3>3. /\ call'[c].step = "write" /\ call'[c].phase = "begin"
          /\ call'[c].todo = {} /\ call'[c].seen = call[c].seen
          /\ call'[c].calm = call[c].calm
      BY <2>t, <3>1 DEF Call
    <3>4. Dirty' = Dirty /\ \A g \in Files : fileHash(g)' = fileHash(g)
      BY <3>1 DEF repo, Dirty, fileHash
    <3>5. ScanInv(c)' /\ ImpactInv(c)'
      BY <2>i, <3>1, <3>3, <3>4 DEF ScanInv, ImpactInv, Scanning
    <3>6. ASSUME NEW d \in Calls, d # c, call'[d] # None
          PROVE  ScanInv(d)' /\ ImpactInv(d)'
      BY <3>1, <3>6, CallInvKept
    <3>. QED
      BY <3>2, <3>5, <3>6 DEF OwnershipInv
  <2>7. CASE SaveWrite(c)
    <3>. DEFINE s == call[c].session
                b == Captured(c)
                o == [work |-> work, calm |-> call[c].calm, dirty |-> UserDirty(b)]
    <3>1. /\ call[c].step = "write" /\ call[c].phase = "begin"
          /\ s \in Sessions /\ UNCHANGED repo
      BY <2>7, <2>t DEF SaveWrite, At, Call
    <3>2. PICK stored \in {b} \cup (IF baseline[s] = Empty THEN {} ELSE {Torn}) :
             /\ baseline' = [baseline EXCEPT ![s] = stored]
             /\ origin' = [origin EXCEPT ![s] = IF stored = Torn THEN None ELSE o]
      BY <2>7 DEF SaveWrite
    <3>3. b \in Baseline
      BY <2>t DEF Captured, Call, Baseline
    <3>4. o \in Origin
      BY <2>t DEF Origin, TypeOK, Call, UserDirty
    <3>5. TakenFrom(b, o)
      <4>. SUFFICES ASSUME call[c].calm, NEW f \in Files
                    PROVE  b.hash[f] = CASE f \notin UserDirty(b) -> Clean
                             [] f \in UserDirty(b) \cap Quoted -> Absent
                             [] OTHER -> work[f]
        BY DEF TakenFrom
      <4>1. b.hash[f] = call[c].seen[f]
        BY DEF Captured
      <4>2. call[c].seen[f] = IF f \in Dirty THEN fileHash(f) ELSE Clean
        BY <2>i, <3>1 DEF ScanInv, Scanning
      <4>. QED
        BY <4>1, <4>2 DEF UserDirty, fileHash
    <3>6. BaselineInv'
      <4>. SUFFICES ASSUME NEW z \in Sessions, HasBaseline(z)'
                    PROVE  origin'[z] # None /\ TakenFrom(baseline'[z], origin'[z])
        BY DEF BaselineInv, TakenFrom
      <4>1. CASE z = s
        <5>1. stored = b /\ baseline'[s] = b
          BY <3>1, <3>2, <4>1 DEF HasBaseline, TypeOK
        <5>2. b # Torn
          BY <3>3, NullAssumption
        <5>3. origin'[s] = o
          BY <3>1, <3>2, <5>1, <5>2 DEF TypeOK
        <5>. QED
          BY <3>4, <3>5, <4>1, <5>1, <5>3, NullAssumption
      <4>2. CASE z # s
        <5>1. baseline'[z] = baseline[z] /\ origin'[z] = origin[z]
          BY <3>2, <4>2 DEF TypeOK
        <5>. QED
          BY <5>1 DEF OwnershipInv, BaselineInv, HasBaseline
      <4>. QED
        BY <4>1, <4>2
    <3>7. call'[c] = Begun(c, b)
      BY <2>7 DEF SaveWrite, Disturbed
    <3>8. ScanInv(c)' /\ ImpactInv(c)'
      BY <2>0, <3>3, <3>7, BegunInv
    <3>9. ASSUME NEW d \in Calls, d # c, call'[d] # None
          PROVE  ScanInv(d)' /\ ImpactInv(d)'
      <4>1. CASE call[d] # None /\ call[d].session = s
        <5>1. call'[d] = [call[d] EXCEPT !.calm = FALSE]
          BY <2>7, <3>9, <4>1 DEF SaveWrite, Disturbed
        <5>. QED
          BY <4>1, <5>1, CallInvDisturbed
      <4>2. CASE ~(call[d] # None /\ call[d].session = s)
        <5>1. call'[d] = call[d]
          BY <2>7, <3>9, <4>2 DEF SaveWrite, Disturbed
        <5>2. call[d] # None /\ call[d].session # s
          BY <3>9, <4>2, <5>1
        <5>3. origin'[call[d].session] = origin[call[d].session]
          BY <3>2, <5>2, CallTyped DEF TypeOK, Call
        <5>. QED
          BY <3>1, <5>1, <5>2, <5>3, CallInvKept
      <4>. QED
        BY <4>1, <4>2
    <3>. QED
      BY <3>6, <3>8, <3>9 DEF OwnershipInv
  <2>8. CASE ImpactReport(c)
    <3>1. /\ UNCHANGED <<repo, baseline, origin>>
          /\ \A d \in Calls : d # c => call'[d] = call[d]
          /\ call[c].step = "hash" /\ call[c].phase = "impact" /\ call[c].todo = {}
      BY <2>8 DEF ImpactReport, At, TypeOK
    <3>2. /\ call'[c].step = "done" /\ call'[c].phase = "impact"
          /\ call'[c].todo = {} /\ call'[c].seen = call[c].seen
          /\ call'[c].base = call[c].base /\ call'[c].session = call[c].session
          /\ call'[c].calm = call[c].calm
          /\ call'[c].brain = BrainDelta(call[c].base, call[c].seen)
          /\ call'[c].conflicts = Conflicts(call[c].base, call[c].seen)
      BY <2>8, <2>t, <3>1 DEF ImpactReport, TypeOK, Call
    <3>3. Dirty' = Dirty /\ \A g \in Files : fileHash(g)' = fileHash(g)
      BY <3>1 DEF repo, Dirty, fileHash
    <3>4. ScanInv(c)'
      BY <2>i, <3>1, <3>2, <3>3 DEF ScanInv, Scanning
    <3>5. ImpactInv(c)'
      BY <2>i, <3>1, <3>2 DEF ImpactInv, TakenFrom, BrainDelta, Conflicts, UserDirty
    <3>. QED
      BY <3>1, <3>4, <3>5, OneCallStep
  <2>. QED
    BY <1>3, <2>1, <2>2, <2>3, <2>4, <2>5, <2>6, <2>7, <2>8 DEF CallStep
<1>4. ASSUME NEW c \in Calls, Return(c) \/ Crash(c) PROVE OwnershipInv'
  <2>1. /\ UNCHANGED <<repo, baseline, origin>> /\ call'[c] = None
        /\ \A d \in Calls : d # c => call'[d] = call[d]
    BY <1>4 DEF Return, Crash, TypeOK
  <2>. QED
    BY <2>1, OneCallStep
<1>5. CASE UNCHANGED vars
  <2>1. UNCHANGED repo /\ UNCHANGED <<baseline, origin, call>>
    BY <1>5 DEF vars, repo
  <2>. QED
    BY <2>1, BaselineInvKept, CallInvKept DEF OwnershipInv
<1>. QED
  BY <1>1, <1>2, <1>3, <1>4, <1>5 DEF Next

LEMMA OwnershipInvExact ==
    ASSUME TypeOK, OwnershipInv
    PROVE  OwnershipExact
<1>. SUFFICES ASSUME NEW c \in Calls, Comparable(c), NEW f \in Files \ Quoted
              PROVE  LET s == call[c].session
                         changed == /\ f \in Dirty
                                    /\ f \in origin[s].dirty => f \in UserChanged(s)
                     IN  /\ f \in call[c].brain <=> changed
                         /\ f \in call[c].conflicts <=> changed /\ f \in origin[s].dirty
  <2>1. ASSUME NEW c \in Calls, Comparable(c)
        PROVE  call[c] \in Call /\ origin[call[c].session].dirty \subseteq Files
    BY <2>1, CallTyped DEF Comparable, At, TypeOK, Call, Origin
  <2>. QED
    BY <2>1 DEF OwnershipExact, Dirty, Call
<1>. DEFINE s == call[c].session
            o == origin[s]
<1>1. /\ call[c] \in Call /\ s \in Sessions /\ o \in Origin
      /\ call[c].phase = "impact" /\ call[c].step = "done" /\ call[c].calm /\ o.calm
  BY CallTyped DEF Comparable, At, TypeOK, Call
<1>2. /\ work[f] \in Hashes /\ o.work[f] \in Hashes
      /\ Clean \notin Hashes
  BY <1>1, FileAssumption DEF TypeOK, Snapshots, Origin, Hashes
<1>3. call[c].seen[f] = IF f \in Dirty THEN work[f] ELSE Clean
  BY <1>1 DEF OwnershipInv, ScanInv, Scanning, Comparable, At, fileHash
<1>4. call[c].base.hash[f] = IF f \in o.dirty THEN o.work[f] ELSE Clean
  BY <1>1 DEF OwnershipInv, ImpactInv, TakenFrom, Comparable, At
<1>5. /\ call[c].brain = BrainDelta(call[c].base, call[c].seen)
      /\ call[c].conflicts = Conflicts(call[c].base, call[c].seen)
  BY <1>1 DEF OwnershipInv, ImpactInv, Comparable, At
<1>6. f \in UserChanged(s) <=> f \in o.dirty /\ work[f] # o.work[f]
  BY DEF UserChanged
<1>7. f \in call[c].brain <=>
        f \in Dirty /\ (f \in o.dirty => work[f] # o.work[f])
  BY <1>2, <1>3, <1>4, <1>5 DEF BrainDelta
<1>8. f \in call[c].conflicts <=> f \in call[c].brain /\ f \in o.dirty
  BY <1>2, <1>4, <1>5 DEF Conflicts, UserDirty
<1>. QED
  BY <1>6, <1>7, <1>8

(* The inductive invariant: scans, baselines on disk and loaded baselines  *)
(* agree with the worktrees they were taken from, while undisturbed.       *)
THEOREM OwnershipInvariant == Spec => []OwnershipInv
<1>1. Init => OwnershipInv
  BY DEF Init, OwnershipInv, BaselineInv, HasBaseline
<1>2. TypeOK /\ OwnershipInv /\ [Next]_vars => OwnershipInv'
  BY OwnershipStep
<1>. QED
  BY <1>1, <1>2, TypeCorrect, PTL DEF Spec

(* The ownership report is exact for any files, sessions, tasks and racing *)
(* calls: BRAIN_DELTA and the conflicts are what the developer's and the   *)
(* task's edits make them (engine.go:118-143, :145-184, :227-242).         *)
THEOREM OwnershipReport == Spec => []OwnershipExact
BY OwnershipInvariant, OwnershipInvExact, TypeCorrect, PTL

-----------------------------------------------------------------------------
(* What a call answers: its way through the phases, and readiness.         *)

LEMMA AnswerKept ==
    ASSUME AnswerInv, NEW d \in Calls, call[d] # None,
           UNCHANGED repo, call'[d] = call[d]
    PROVE  PhaseInv(d)' /\ ReadyInv(d)'
<1>1. PhaseInv(d) /\ ReadyInv(d)
  BY DEF AnswerInv
<1>2. PhaseInv(d)'
  BY <1>1 DEF PhaseInv
<1>3. ReadyInv(d)'
  BY <1>1 DEF ReadyInv, repo, Missing, Mode, Tracked, AllFiles, Dirty, rankFiles
<1>. QED
  BY <1>2, <1>3

LEMMA AnswerDisturbed ==
    ASSUME TypeOK, AnswerInv, NEW d \in Calls, call[d] # None,
           call'[d] = [call[d] EXCEPT !.calm = FALSE]
    PROVE  PhaseInv(d)' /\ ReadyInv(d)'
<1>1. call[d] \in Call
  BY CallTyped
<1>2. PhaseInv(d)
  BY DEF AnswerInv
<1>. QED
  BY <1>1, <1>2 DEF PhaseInv, ReadyInv, Call

LEMMA BegunAnswer ==
    ASSUME TypeOK, NEW c \in Calls, call[c] # None, NEW b \in Baseline,
           call[c].phase # "impact", call[c].phase = "begin" \/ call[c].entry # "begin",
           call'[c] = Begun(c, b)
    PROVE  /\ call'[c] \in Call /\ call'[c].entry = call[c].entry
           /\ PhaseInv(c)' /\ ReadyInv(c)'
<1>1. call[c] \in Call /\ call'[c] \in Call
  BY CallTyped, BegunTyped
<1>2. CASE call[c].entry = "begin"
  <2>1. /\ call'[c].step = "done" /\ call'[c].phase = "begin"
        /\ call'[c].entry = call[c].entry
    BY <1>1, <1>2 DEF Begun, Call
  <2>. QED
    BY <1>1, <1>2, <2>1 DEF PhaseInv, ReadyInv
<1>3. CASE call[c].entry # "begin"
  <2>1. /\ call'[c].step = "load" /\ call'[c].phase = "impact"
        /\ call'[c].begun = b /\ call'[c].entry = call[c].entry
    BY <1>1, <1>3 DEF Begun, Call
  <2>. QED
    BY <1>1, <2>1, NullAssumption DEF PhaseInv, ReadyInv
<1>. QED
  BY <1>2, <1>3

\* A call's own step keeps it the call it is, on the way its entry point leads.
LEMMA CallStepped ==
    ASSUME TypeOK, AnswerInv, NEW c \in Calls, CallStep(c)
    PROVE  /\ call[c] \in Call /\ call'[c] \in Call
           /\ call'[c].entry = call[c].entry
           /\ UNCHANGED repo
           /\ PhaseInv(c)' /\ ReadyInv(c)'
<1>1. call[c] \in Call
  BY CallTyped DEF CallStep, EnsureLoad, BeginLoad, ImpactLoad, DetectHead, DetectStatus,
     HashFile, SaveCreate, SaveWrite, ImpactReport, At
<1>2. call[c] # None
  BY <1>1, NullAssumption
<1>3. UNCHANGED repo
  BY DEF CallStep, EnsureLoad, BeginLoad, ImpactLoad, DetectHead, DetectStatus,
     HashFile, SaveCreate, SaveWrite, ImpactReport
<1>4. PhaseInv(c) /\ ReadyInv(c)
  BY <1>2 DEF AnswerInv
<1>. SUFFICES /\ call'[c] \in Call /\ call'[c].entry = call[c].entry
              /\ PhaseInv(c)' /\ ReadyInv(c)'
  BY <1>1, <1>3
<1>5. CASE EnsureLoad(c) \/ BeginLoad(c)
  <2>1. call[c].phase \in {"ensure", "begin"} /\ call[c].step = "load"
    BY <1>5 DEF EnsureLoad, BeginLoad, At
  <2>2. \/ call'[c] = [call[c] EXCEPT !.phase = "begin"]
        \/ call'[c] = [call[c] EXCEPT !.step = "failed"]
        \/ call[c].phase = "begin" /\ call'[c] = [call[c] EXCEPT !.step = "head"]
        \/ /\ baseline[call[c].session] \in Baseline
           /\ call'[c] = Begun(c, baseline[call[c].session])
    BY <1>1, <1>5 DEF EnsureLoad, BeginLoad, At, Goto, TypeOK, Call
  <2>3. CASE /\ baseline[call[c].session] \in Baseline
             /\ call'[c] = Begun(c, baseline[call[c].session])
    <3>1. call[c].phase = "begin" \/ call[c].entry # "begin"
      BY <1>1, <2>1 DEF Call
    <3>. QED
      BY <1>2, <2>1, <2>3, <3>1, BegunAnswer
  <2>4. CASE call'[c] = [call[c] EXCEPT !.phase = "begin"]
    BY <1>1, <2>1, <2>4 DEF PhaseInv, ReadyInv, Call, Phases
  <2>5. CASE call'[c] = [call[c] EXCEPT !.step = "failed"]
    BY <1>1, <2>1, <2>5 DEF PhaseInv, ReadyInv, Call, Steps
  <2>6. CASE call[c].phase = "begin" /\ call'[c] = [call[c] EXCEPT !.step = "head"]
    BY <1>1, <2>1, <2>6 DEF PhaseInv, ReadyInv, Call, Steps
  <2>. QED
    BY <2>2, <2>3, <2>4, <2>5, <2>6
<1>6. CASE ImpactLoad(c)
  <2>1. call[c].phase = "impact" /\ call[c].step = "load"
    BY <1>6 DEF ImpactLoad, At
  <2>2. \/ call'[c] = [call[c] EXCEPT !.step = "failed"]
        \/ /\ baseline[call[c].session] \in Baseline
           /\ call'[c] = [call[c] EXCEPT !.base = baseline[call[c].session],
                                         !.step = "head"]
    BY <1>1, <1>6 DEF ImpactLoad, At, Goto, TypeOK, Call
  <2>. QED
    BY <1>1, <1>4, <2>1, <2>2 DEF PhaseInv, ReadyInv, Call, Steps
<1>7. CASE DetectHead(c)
  <2>1. /\ call[c].step = "head"
        /\ call'[c] = [call[c] EXCEPT !.head = (vcs = "born"), !.step = "status"]
    BY <1>7 DEF DetectHead, TypeOK
  <2>2. vcs' = vcs
    BY <1>3 DEF repo
  <2>3. /\ call'[c] \in Call /\ call'[c].entry = call[c].entry
        /\ call'[c].step = "status" /\ call'[c].phase = call[c].phase
        /\ call'[c].begun = call[c].begun /\ call'[c].head = (vcs = "born")
    BY <1>1, <2>1 DEF Call, Steps
  <2>. QED
    BY <1>4, <2>1, <2>2, <2>3 DEF PhaseInv, ReadyInv
<1>8. CASE DetectStatus(c)
  <2>. DEFINE m == Mode(call[c].head)
              r == /\ call[c].phase = "impact"
                   /\ Missing(call[c].base, m, AllFiles, Dirty) = {}
  <2>1. m \in Modes /\ (m = "existing" => call[c].head) /\ r \in BOOLEAN
    BY DEF Mode, Modes
  <2>2. /\ call[c].step = "status"
        /\ call'[c] = [call[c] EXCEPT !.mode = m, !.todo = Dirty, !.ready = r,
                                      !.step = "hash"]
    BY <1>8 DEF DetectStatus, TypeOK
  <2>3. /\ call[c].phase = "impact" /\ call[c].calm => call[c].head = (vcs = "born")
        /\ call[c].phase # "ensure"
    BY <1>4, <2>2 DEF ReadyInv, PhaseInv
  <2>4. call[c].phase = "impact" /\ call[c].calm =>
          r = (Missing(call[c].base, Mode(vcs = "born"), AllFiles, Dirty) = {})
    BY <2>3
  <2>5. UNCHANGED <<vcs, AllFiles, Dirty, Mode(vcs = "born")>>
    BY <1>3 DEF repo, AllFiles, Dirty, Tracked, Mode
  <2>. HIDE DEF m, r
  <2>t. call'[c] \in Call
    <3>1. [call[c] EXCEPT !.mode = m, !.todo = Dirty, !.ready = r, !.step = "hash"] \in Call
      BY <1>1, <2>1, HashesTyped DEF Call, Steps
    <3>. QED
      BY <2>2, <3>1
  <2>6. /\ call'[c].entry = call[c].entry
        /\ call'[c].step = "hash" /\ call'[c].phase = call[c].phase
        /\ call'[c].head = call[c].head /\ call'[c].base = call[c].base
        /\ call'[c].begun = call[c].begun /\ call'[c].calm = call[c].calm
        /\ call'[c].ready = r
    BY <1>1, <2>2 DEF Call
  <2>7. PhaseInv(c)'
    BY <1>4, <2>3, <2>6 DEF PhaseInv
  <2>8. ReadyInv(c)'
    BY <2>3, <2>4, <2>5, <2>6 DEF ReadyInv, Missing, rankFiles
  <2>. QED
    BY <2>t, <2>6, <2>7, <2>8
<1>9. CASE \/ \E f \in Files : HashFile(c, f)
           \/ SaveCreate(c) \/ ImpactReport(c)
  <2>1. /\ call[c].step = "hash"
        /\ call'[c].phase = call[c].phase /\ call'[c].entry = call[c].entry
        /\ call'[c].begun = call[c].begun /\ call'[c].head = call[c].head
        /\ call'[c].base = call[c].base /\ call'[c].calm = call[c].calm
        /\ call'[c].ready = call[c].ready
        /\ \/ call'[c].step = "hash"
           \/ call'[c].phase = "begin" /\ call'[c].step = "write"
           \/ call'[c].phase = "impact" /\ call'[c].step = "done"
    <3>1. CASE \E f \in Files : HashFile(c, f)
      BY <1>1, <3>1 DEF HashFile, TypeOK, Call
    <3>2. CASE SaveCreate(c)
      BY <1>1, <3>2 DEF SaveCreate, At, Goto, TypeOK, Call
    <3>3. CASE ImpactReport(c)
      <4>1. /\ call[c].step = "hash" /\ call[c].phase = "impact"
            /\ call'[c] = [call[c] EXCEPT
                   !.brain = BrainDelta(call[c].base, call[c].seen),
                   !.conflicts = Conflicts(call[c].base, call[c].seen),
                   !.step = "done"]
        BY <3>3 DEF ImpactReport, At, TypeOK
      <4>. QED
        BY <1>1, <4>1 DEF Call
    <3>. QED
      BY <1>9, <3>1, <3>2, <3>3
  <2>2. UNCHANGED <<vcs, AllFiles, Dirty, Mode(vcs = "born")>>
    BY <1>3 DEF repo, AllFiles, Dirty, Tracked, Mode
  <2>3. PhaseInv(c)' /\ ReadyInv(c)'
    BY <1>4, <2>1, <2>2 DEF PhaseInv, ReadyInv, Missing, rankFiles
  <2>4. call'[c] \in Call
    <3>1. ASSUME NEW f \in Files, HashFile(c, f) PROVE call'[c] \in Call
      BY <1>1, <3>1, HashesTyped DEF HashFile, Call, HashMaps, TypeOK
    <3>2. CASE SaveCreate(c)
      BY <1>1, <3>2 DEF SaveCreate, At, Goto, Call, Steps, TypeOK
    <3>3. CASE ImpactReport(c)
      <4>. DEFINE bd == BrainDelta(call[c].base, call[c].seen)
                  cf == Conflicts(call[c].base, call[c].seen)
      <4>1. bd \subseteq Files /\ cf \subseteq Files
        BY DEF BrainDelta, Conflicts
      <4>2. call'[c] = [call[c] EXCEPT !.brain = bd, !.conflicts = cf, !.step = "done"]
        BY <3>3 DEF ImpactReport, TypeOK
      <4>. HIDE DEF bd, cf
      <4>. QED
        BY <1>1, <2>1, <4>1, <4>2 DEF Call, Steps
    <3>. QED
      BY <1>9, <3>1, <3>2, <3>3
  <2>. QED
    BY <2>1, <2>3, <2>4
<1>10. CASE SaveWrite(c)
  <2>1. call[c].phase = "begin" /\ call'[c] = Begun(c, Captured(c))
    BY <1>10 DEF SaveWrite, At, Disturbed
  <2>2. Captured(c) \in Baseline
    BY <1>1 DEF Captured, Call, Baseline
  <2>. QED
    BY <1>2, <2>1, <2>2, BegunAnswer
<1>. QED
  BY <1>5, <1>6, <1>7, <1>8, <1>9, <1>10 DEF CallStep

\* Where no call was in progress a step of another call starts none.
LEMMA IdleCalls ==
    ASSUME TypeOK, NEW c \in Calls, NEW d \in Calls, c # d, call[d] = None,
           CallStep(c) \/ Return(c) \/ Crash(c)
                       \/ \E e \in Entries, s \in Sessions, t \in Tasks : Start(c, e, s, t)
    PROVE  call'[d] = None
BY DEF CallStep, EnsureLoad, BeginLoad, ImpactLoad, DetectHead, DetectStatus,
   HashFile, SaveCreate, SaveWrite, ImpactReport, Return, Crash, Start, Goto,
   Disturbed, TypeOK

LEMMA AnswerStep ==
    ASSUME TypeOK, AnswerInv, [Next]_vars
    PROVE  AnswerInv'
<1>. SUFFICES ASSUME NEW d \in Calls, call'[d] # None
              PROVE  PhaseInv(d)' /\ ReadyInv(d)'
  BY DEF AnswerInv
<1>1. CASE Developer
  <2>1. call' = Disturbed(Calls)
    BY <1>1 DEF Developer, Edit, GitInit, Commit, Change
  <2>. QED
    BY <2>1, AnswerDisturbed DEF Disturbed
<1>2. ASSUME NEW c \in Calls,
             \/ CallStep(c) \/ Return(c) \/ Crash(c)
             \/ \E e \in Entries, s \in Sessions, t \in Tasks : Start(c, e, s, t)
      PROVE  PhaseInv(d)' /\ ReadyInv(d)'
  <2>1. CASE d # c
    <3>1. call[d] # None
      BY <1>2, <2>1, IdleCalls
    <3>2. UNCHANGED repo
      BY <1>2 DEF CallStep, EnsureLoad, BeginLoad, ImpactLoad, DetectHead, DetectStatus,
         HashFile, SaveCreate, SaveWrite, ImpactReport, Return, Crash, Start
    <3>3. call'[d] = call[d] \/ call'[d] = [call[d] EXCEPT !.calm = FALSE]
      BY <1>2, <2>1, <3>1, OtherCalls
    <3>. QED
      BY <3>1, <3>2, <3>3, AnswerKept, AnswerDisturbed
  <2>2. CASE d = c
    <3>1. CASE CallStep(c)
      BY <2>2, <3>1, CallStepped
    <3>2. ASSUME NEW e \in Entries, NEW s \in Sessions, NEW t \in Tasks, Start(c, e, s, t)
          PROVE  PhaseInv(c)' /\ ReadyInv(c)'
      <4>1. /\ call'[c].step = "load" /\ call'[c].phase = FirstPhase(e)
            /\ call'[c].entry = e
        BY <3>2 DEF Start, TypeOK
      <4>. QED
        BY <4>1 DEF PhaseInv, ReadyInv, FirstPhase, Entries
    <3>3. CASE Return(c) \/ Crash(c)
      BY <2>2, <3>3 DEF Return, Crash, TypeOK
    <3>. QED
      BY <1>2, <2>2, <3>1, <3>2, <3>3
  <2>. QED
    BY <2>1, <2>2
<1>3. CASE UNCHANGED vars
  <2>1. UNCHANGED repo /\ call' = call
    BY <1>3 DEF vars, repo
  <2>. QED
    BY <2>1, AnswerKept
<1>. QED
  BY <1>1, <1>2, <1>3 DEF Next

(* A call goes where its entry point leads it, with Begin's answer in hand,*)
(* and an undisturbed Impact answers the discovery contract of the project *)
(* as it is (engine.go:118-184, :244-261).                                 *)
THEOREM AnswerInvariant == Spec => []AnswerInv
<1>1. Init => AnswerInv
  BY DEF Init, AnswerInv
<1>2. TypeOK /\ AnswerInv /\ [Next]_vars => AnswerInv'
  BY AnswerStep
<1>. QED
  BY <1>1, <1>2, TypeCorrect, PTL DEF Spec

-----------------------------------------------------------------------------
(* The requests on top of the engine: they take the engine's own steps,    *)
(* and decide with what it has answered them.                              *)

LEMMA JobTyped ==
    ASSUME FlowTypeOK, NEW c \in Calls, job[c] # None
    PROVE  job[c] \in Job
BY DEF FlowTypeOK

\* To the engine a step of a request is a step of its own, or nothing.
LEMMA EngineStep ==
    ASSUME FlowTypeOK, [FlowNext]_fvars
    PROVE  [Next]_vars
<1>1. CASE Developer
  BY <1>1 DEF Next
<1>2. ASSUME NEW c \in Calls, NEW k \in Kinds, NEW s \in Sessions, NEW t \in Tasks,
             Submit(c, k, s, t)
      PROVE  [Next]_vars
  <2>1. k # "worker" => EntryOf(k) \in Entries
    BY DEF EntryOf, Kinds, Entries
  <2>. QED
    BY <1>2, <2>1 DEF Submit, Next
<1>3. ASSUME NEW c \in Calls, WorkerDetect(c) PROVE [Next]_vars
  <2>1. job[c].session \in Sessions /\ job[c].task \in Tasks
    BY <1>3, JobTyped DEF WorkerDetect, Job
  <2>2. "ensure" \in Entries
    BY DEF Entries
  <2>. QED
    BY <1>3, <2>1, <2>2 DEF WorkerDetect, Next
<1>4. ASSUME NEW c \in Calls, FlowStep(c), ~WorkerDetect(c) PROVE [Next]_vars
  BY <1>4 DEF FlowStep, Engine, EngineFailed, WorkerRecovered, Planned, WorkerDecide,
     AskModel, Passed, Next
<1>5. ASSUME NEW c \in Calls, Leave(c) PROVE [Next]_vars
  BY <1>5 DEF Leave, Next
<1>6. CASE UNCHANGED fvars
  BY <1>6 DEF fvars, vars
<1>. QED
  BY <1>1, <1>2, <1>3, <1>4, <1>5, <1>6 DEF FlowNext

LEMMA StartTyped ==
    ASSUME TypeOK, NEW c \in Calls, NEW e \in Entries, NEW s \in Sessions, NEW t \in Tasks,
           Start(c, e, s, t)
    PROVE  call'[c] \in Call /\ call'[c].entry = e
<1>1. FirstPhase(e) \in Phases /\ (e = "begin" => FirstPhase(e) = "begin")
  BY DEF FirstPhase, Phases
<1>. QED
  BY <1>1, HashesTyped DEF Start, TypeOK, Call, Steps, Modes

\* What Planned makes of a request: an answer, or one the worker is to decide,
\* with the conflicts looked at only for developer-run.
LEMMA PlannedJob ==
    ASSUME NEW c \in Calls, Planned(c)
    PROVE  \/ \E o \in {"error", "plan", "strong-owner"} : Answer(c, o)
           \/ /\ job' = [job EXCEPT ![c].mode = call[c].begun.mode,
                                    ![c].ready = call[c].ready, ![c].step = "decide"]
              /\ job[c].kind \in {"run", "local"}
              /\ job[c].kind = "run" => call[c].conflicts = {}
<1>. DEFINE toWorker == job' = [job EXCEPT ![c].mode = call[c].begun.mode,
                                           ![c].ready = call[c].ready, ![c].step = "decide"]
<1>1. \/ Answer(c, "error")
      \/ \E route \in Decide(job[c].task, call[c].begun.mode, call[c].ready) :
           CASE job[c].kind = "flow" -> Answer(c, "plan")
             [] job[c].kind = "local" -> toWorker
             [] OTHER ->
                  CASE route = "strong" -> Answer(c, "strong-owner")
                    [] call[c].begun.mode = "existing" /\ ~call[c].ready -> Answer(c, "error")
                    [] call[c].conflicts # {} -> Answer(c, "strong-owner")
                    [] OTHER -> toWorker
  BY DEF Planned
<1>2. job[c].kind \in {"flow", "run", "local"}
  BY DEF Planned
<1>. HIDE DEF toWorker
<1>3. \/ \E o \in {"error", "plan", "strong-owner"} : Answer(c, o)
      \/ /\ toWorker
         /\ job[c].kind \in {"run", "local"}
         /\ job[c].kind = "run" => call[c].conflicts = {}
  BY <1>1, <1>2
<1>. QED
  BY <1>3 DEF toWorker

\* A request is planned with the answer of both calls, Begin's and Impact's.
LEMMA PlannedAnswer ==
    ASSUME FlowTypeOK, AnswerInv, FlowInv, NEW c \in Calls, Planned(c)
    PROVE  call[c].begun.mode \in Modes /\ call[c].ready \in BOOLEAN
<1>1. /\ job[c] # None /\ job[c].step = "engine" /\ call[c].step = "done"
      /\ job[c].kind \in {"flow", "run", "local"}
  BY DEF Planned
<1>2. call[c] # None /\ call[c].entry = "prepare"
  BY <1>1 DEF FlowInv, JobInv, EntryOf
<1>3. call[c] \in Call
  BY <1>2, CallTyped DEF FlowTypeOK
<1>4. call[c].phase = "impact"
  BY <1>1, <1>2, <1>3 DEF AnswerInv, PhaseInv, Call, Phases
<1>5. call[c].begun \in Baseline
  BY <1>2, <1>3, <1>4 DEF AnswerInv, PhaseInv, Call
<1>6. call[c].begun.mode \in Modes /\ call[c].ready \in BOOLEAN
  BY <1>3, <1>5 DEF Call, Baseline
<1>. QED
  BY <1>6

LEMMA JobStep ==
    ASSUME FlowTypeOK, AnswerInv, FlowInv, [FlowNext]_fvars
    PROVE  job' \in [Calls -> Job \cup {None}]
<1>0. ASSUME NEW c \in Calls, job[c] # None, NEW o \in Outcomes, Answer(c, o)
      PROVE  job' \in [Calls -> Job \cup {None}]
  BY <1>0, JobTyped DEF Answer, Job, FlowTypeOK
<1>1. ASSUME NEW c \in Calls, NEW k \in Kinds, NEW s \in Sessions, NEW t \in Tasks,
             Submit(c, k, s, t)
      PROVE  job' \in [Calls -> Job \cup {None}]
  BY <1>1 DEF Submit, Job, Kinds, Modes, Outcomes, FlowTypeOK
<1>2. ASSUME NEW c \in Calls, WorkerDetect(c)
      PROVE  job' \in [Calls -> Job \cup {None}]
  BY <1>2, JobTyped DEF WorkerDetect, Job, Modes, FlowTypeOK
<1>3. ASSUME NEW c \in Calls, Engine(c) PROVE job' \in [Calls -> Job \cup {None}]
  BY <1>3 DEF Engine, FlowTypeOK
<1>4. ASSUME NEW c \in Calls, EngineFailed(c) PROVE job' \in [Calls -> Job \cup {None}]
  BY <1>0, <1>4, JobTyped DEF EngineFailed, Job, Outcomes, FlowTypeOK
<1>5. ASSUME NEW c \in Calls, WorkerRecovered(c)
      PROVE  job' \in [Calls -> Job \cup {None}]
  <2>1. call[c] # None
    BY <1>5 DEF WorkerRecovered, FlowInv, JobInv
  <2>2. call[c].ready \in BOOLEAN
    BY <2>1, CallTyped DEF FlowTypeOK, Call
  <2>. QED
    BY <1>5, <2>2, JobTyped DEF WorkerRecovered, Job, FlowTypeOK
<1>6. ASSUME NEW c \in Calls, Planned(c) PROVE job' \in [Calls -> Job \cup {None}]
  <2>1. job[c] # None /\ job[c] \in Job
    BY <1>6, JobTyped DEF Planned
  <2>2. call[c].begun.mode \in Modes /\ call[c].ready \in BOOLEAN
    BY <1>6, PlannedAnswer
  <2>3. CASE job' = [job EXCEPT ![c].mode = call[c].begun.mode,
                                ![c].ready = call[c].ready, ![c].step = "decide"]
    BY <2>1, <2>2, <2>3 DEF Job, FlowTypeOK
  <2>. QED
    BY <1>0, <1>6, <2>1, <2>3, PlannedJob DEF Outcomes
<1>7. ASSUME NEW c \in Calls, WorkerDecide(c) PROVE job' \in [Calls -> Job \cup {None}]
  <2>1. CASE job' = [job EXCEPT ![c].step = "model"]
    BY <1>7, <2>1, JobTyped DEF WorkerDecide, Job, FlowTypeOK
  <2>. QED
    BY <1>0, <1>7, <2>1 DEF WorkerDecide, Outcomes
<1>8. ASSUME NEW c \in Calls, AskModel(c) \/ Passed(c)
      PROVE  job' \in [Calls -> Job \cup {None}]
  BY <1>0, <1>8 DEF AskModel, Passed, Outcomes
<1>9. ASSUME NEW c \in Calls, Leave(c) PROVE job' \in [Calls -> Job \cup {None}]
  BY <1>9 DEF Leave, FlowTypeOK
<1>10. CASE UNCHANGED fvars \/ (Developer /\ UNCHANGED job)
  BY <1>10 DEF fvars, FlowTypeOK
<1>. QED
  BY <1>1, <1>2, <1>3, <1>4, <1>5, <1>6, <1>7, <1>8, <1>9, <1>10 DEF FlowNext, FlowStep

\* A request owes nothing new when at most the calm of its call is gone.
LEMMA JobKept ==
    ASSUME TypeOK, NEW d \in Calls, JobInv(d), DecidedInv(d), job'[d] = job[d],
           \/ call'[d] = call[d]
           \/ call[d] # None /\ call'[d] = [call[d] EXCEPT !.calm = FALSE]
    PROVE  JobInv(d)' /\ DecidedInv(d)'
<1>1. CASE call'[d] = call[d]
  BY <1>1 DEF JobInv, DecidedInv
<1>2. CASE call[d] # None /\ call'[d] = [call[d] EXCEPT !.calm = FALSE]
  <2>1. call[d] \in Call
    BY <1>2, CallTyped
  <2>2. /\ call'[d] \in Call
        /\ call'[d].entry = call[d].entry /\ call'[d].step = call[d].step
        /\ call'[d].begun = call[d].begun /\ call'[d].ready = call[d].ready
        /\ call'[d].conflicts = call[d].conflicts
    BY <1>2, <2>1 DEF Call
  <2>. QED
    BY <1>2, <2>1, <2>2, NullAssumption DEF JobInv, DecidedInv
<1>. QED
  BY <1>1, <1>2

\* A step of request c leaves the others alone, but for the calm of their calls.
LEMMA OtherJobs ==
    ASSUME FlowTypeOK, FlowInv, NEW c \in Calls, NEW d \in Calls, d # c,
           \/ FlowStep(c) \/ Leave(c)
           \/ \E k \in Kinds, s \in Sessions, t \in Tasks : Submit(c, k, s, t)
    PROVE  JobInv(d)' /\ DecidedInv(d)'
<1>1. job'[d] = job[d]
  <2>1. CASE Planned(c)
    BY <2>1, PlannedJob DEF Answer, FlowTypeOK
  <2>. QED
    BY <2>1 DEF FlowStep, WorkerDetect, Engine, EngineFailed, WorkerRecovered,
       WorkerDecide, AskModel, Passed, Answer, Leave, Submit, FlowTypeOK
<1>2. \/ UNCHANGED vars
      \/ CallStep(c) \/ Return(c) \/ Crash(c)
      \/ \E e \in Entries, s \in Sessions, t \in Tasks : Start(c, e, s, t)
  <2>1. ASSUME NEW k \in Kinds, NEW s \in Sessions, NEW t \in Tasks, Submit(c, k, s, t)
        PROVE  UNCHANGED vars \/ \E e \in Entries : Start(c, e, s, t)
    <3>1. k # "worker" => EntryOf(k) \in Entries
      BY DEF EntryOf, Kinds, Entries
    <3>. QED
      BY <2>1, <3>1 DEF Submit
  <2>2. CASE WorkerDetect(c)
    <3>1. job[c].session \in Sessions /\ job[c].task \in Tasks /\ "ensure" \in Entries
      BY <2>2, JobTyped DEF WorkerDetect, Job, Entries
    <3>. QED
      BY <2>2, <3>1 DEF WorkerDetect
  <2>. QED
    BY <2>1, <2>2 DEF FlowStep, Engine, EngineFailed, WorkerRecovered, Planned,
       WorkerDecide, AskModel, Passed, Leave
<1>3. \/ call'[d] = call[d]
      \/ call[d] # None /\ call'[d] = [call[d] EXCEPT !.calm = FALSE]
  BY <1>2, OtherCalls, IdleCalls DEF FlowTypeOK, vars
<1>. QED
  BY <1>1, <1>3, JobKept DEF FlowTypeOK, FlowInv

LEMMA FlowInvStep ==
    ASSUME FlowTypeOK, AnswerInv, FlowInv, [FlowNext]_fvars
    PROVE  FlowInv'
<1>t. TypeOK
  BY DEF FlowTypeOK
<1>1. CASE UNCHANGED fvars \/ (Developer /\ UNCHANGED job)
  <2>1. call' = call \/ call' = Disturbed(Calls)
    BY <1>1 DEF fvars, Developer, Edit, GitInit, Commit, Change
  <2>. QED
    BY <1>t, <1>1, <2>1, JobKept DEF Disturbed, FlowInv, fvars
<1>2. ASSUME NEW c \in Calls, NEW k \in Kinds, NEW s \in Sessions, NEW t \in Tasks,
             Submit(c, k, s, t)
      PROVE  FlowInv'
  <2>. SUFFICES JobInv(c)' /\ DecidedInv(c)'
    BY <1>2, OtherJobs DEF FlowInv
  <2>1. /\ call[c] = None
        /\ job'[c] \in Job /\ job'[c].kind = k
        /\ job'[c].step = IF k = "worker" THEN "detect" ELSE "engine"
    BY <1>2 DEF Submit, Start, FlowTypeOK, Job, Kinds, Modes, Outcomes
  <2>2. CASE k = "worker"
    BY <1>2, <2>1, <2>2, JobNullAssumption DEF Submit, vars, JobInv, DecidedInv
  <2>3. CASE k # "worker"
    <3>1. EntryOf(k) \in Entries
      BY <2>3 DEF EntryOf, Kinds, Entries
    <3>2. call'[c] \in Call /\ call'[c].entry = EntryOf(k)
      BY <1>t, <1>2, <2>3, <3>1, StartTyped DEF Submit
    <3>. QED
      BY <2>1, <2>3, <3>2, NullAssumption, JobNullAssumption DEF JobInv, DecidedInv
  <2>. QED
    BY <2>2, <2>3
<1>3. ASSUME NEW c \in Calls, FlowStep(c) PROVE FlowInv'
  <2>. SUFFICES JobInv(c)' /\ DecidedInv(c)'
    BY <1>3, OtherJobs DEF FlowInv
  <2>1. job[c] # None /\ job[c] \in Job /\ JobInv(c) /\ DecidedInv(c)
    BY <1>3, JobTyped DEF FlowStep, WorkerDetect, Engine, EngineFailed, WorkerRecovered,
       Planned, WorkerDecide, AskModel, Passed, FlowInv
  <2>2. job' \in [Calls -> Job \cup {None}]
    BY <1>3, JobStep DEF FlowNext
  <2>3. ASSUME NEW o \in Outcomes, Answer(c, o), UNCHANGED vars,
               job[c].step # "detect"
        PROVE  JobInv(c)' /\ DecidedInv(c)'
    <3>1. /\ job'[c] \in Job /\ job'[c].step = "answered" /\ job'[c].kind = job[c].kind
          /\ job'[c].mode = job[c].mode /\ call'[c] = call[c]
      BY <2>1, <2>3 DEF Answer, Job, FlowTypeOK, vars
    <3>. QED
      BY <2>1, <3>1, JobNullAssumption DEF JobInv, DecidedInv
  <2>4. CASE WorkerDetect(c)
    <3>1. job[c].kind = "worker" /\ call[c] = None
      BY <2>1, <2>4 DEF WorkerDetect, JobInv
    <3>2. CASE /\ job' = [job EXCEPT ![c].mode = "existing", ![c].step = "engine"]
               /\ Start(c, "ensure", job[c].session, job[c].task)
      <4>1. /\ job'[c].mode = "existing" /\ job'[c].step = "engine"
            /\ job'[c].kind = "worker"
        BY <2>1, <3>1, <3>2 DEF Job, FlowTypeOK
      <4>2. call'[c] \in Call /\ call'[c].entry = EntryOf("worker")
        BY <1>t, <2>1, <3>2, StartTyped DEF Job, Entries, EntryOf
      <4>3. job'[c] # None
        BY <2>1, <3>2, JobNullAssumption DEF Job, FlowTypeOK, Modes
      <4>. QED
        BY <4>1, <4>2, <4>3, NullAssumption DEF JobInv, DecidedInv
    <3>3. CASE job' = [job EXCEPT ![c].step = "decide"] /\ UNCHANGED vars
      <4>1. /\ job'[c].step = "decide" /\ job'[c].kind = "worker"
            /\ job'[c] \in Job /\ call'[c] = None
        BY <2>1, <3>1, <3>3 DEF Job, FlowTypeOK, vars
      <4>. QED
        BY <4>1, JobNullAssumption DEF JobInv, DecidedInv
    <3>. QED
      BY <2>4, <3>2, <3>3 DEF WorkerDetect
  <2>5. CASE Engine(c)
    <3>1. /\ call'[c] \in Call /\ call'[c].entry = call[c].entry
          /\ call[c] # None /\ job'[c] = job[c] /\ job[c].step = "engine"
      BY <1>t, <2>1, <2>5, CallStepped, NullAssumption DEF Engine
    <3>. QED
      BY <2>1, <3>1, NullAssumption DEF JobInv, DecidedInv
  <2>6. ASSUME EngineFailed(c) \/ WorkerRecovered(c), job[c].kind = "worker"
        PROVE  JobInv(c)' /\ DecidedInv(c)'
    <3>1. /\ call'[c] = call[c] /\ call[c] # None /\ job[c].mode = "existing"
          /\ call[c].entry = EntryOf("worker")
      BY <2>1, <2>6 DEF EngineFailed, WorkerRecovered, vars, JobInv
    <3>2. PICK r \in BOOLEAN :
             /\ job' = [job EXCEPT ![c].ready = r, ![c].step = "decide"]
             /\ r => call[c].step = "done" /\ call[c].ready /\ call[c].conflicts = {}
      <4>1. CASE EngineFailed(c)
        BY <2>6, <4>1 DEF EngineFailed
      <4>2. CASE WorkerRecovered(c)
        <5>. DEFINE r == call[c].ready /\ call[c].conflicts = {}
        <5>1. r \in BOOLEAN
          OBVIOUS
        <5>2. job' = [job EXCEPT ![c].ready = r, ![c].step = "decide"]
          BY <4>2 DEF WorkerRecovered
        <5>3. r => call[c].step = "done" /\ call[c].ready /\ call[c].conflicts = {}
          BY <4>2 DEF WorkerRecovered
        <5>. QED
          BY <5>1, <5>2, <5>3
      <4>. QED
        BY <2>6, <4>1, <4>2
    <3>3. /\ job'[c].step = "decide" /\ job'[c].kind = "worker" /\ job'[c] # None
          /\ job'[c].mode = "existing" /\ job'[c].ready = r
      BY <2>1, <2>6, <3>1, <3>2, JobNullAssumption DEF Job, FlowTypeOK
    <3>. QED
      BY <3>1, <3>2, <3>3 DEF JobInv, DecidedInv
  <2>7. CASE EngineFailed(c) /\ job[c].kind # "worker"
    BY <2>3, <2>7 DEF EngineFailed, Outcomes
  <2>8. CASE Planned(c)
    <3>1. /\ UNCHANGED vars /\ job[c].step = "engine" /\ call[c].step = "done"
      BY <2>8 DEF Planned
    <3>2. CASE \E o \in {"error", "plan", "strong-owner"} : Answer(c, o)
      BY <2>3, <3>1, <3>2 DEF Outcomes
    <3>3. CASE /\ job' = [job EXCEPT ![c].mode = call[c].begun.mode,
                                     ![c].ready = call[c].ready, ![c].step = "decide"]
               /\ job[c].kind \in {"run", "local"}
               /\ job[c].kind = "run" => call[c].conflicts = {}
      <4>1. /\ job'[c].step = "decide" /\ job'[c].kind = job[c].kind
            /\ job'[c].mode = call[c].begun.mode /\ job'[c].ready = call[c].ready
            /\ call'[c] = call[c]
        BY <2>1, <3>1, <3>3 DEF Job, FlowTypeOK, vars
      <4>2. job'[c] # None
        <5>1. call[c].begun.mode \in Modes /\ call[c].ready \in BOOLEAN
          BY <2>8, PlannedAnswer
        <5>. QED
          BY <2>1, <3>3, <5>1, JobNullAssumption DEF Job, FlowTypeOK
      <4>3. call[c].entry = EntryOf(job[c].kind)
        BY <2>1, <3>1 DEF JobInv
      <4>. QED
        BY <3>1, <3>3, <4>1, <4>2, <4>3 DEF JobInv, DecidedInv
    <3>. QED
      BY <2>8, <3>2, <3>3, PlannedJob
  <2>9. CASE WorkerDecide(c)
    <3>1. PICK route \in Decide(job[c].task, job[c].mode, job[c].ready) :
            \/ Answer(c, "fallback")
            \/ route # "strong" /\ job' = [job EXCEPT ![c].step = "model"]
      BY <2>9 DEF WorkerDecide
    <3>2. job[c].step = "decide" /\ UNCHANGED vars
      BY <2>9 DEF WorkerDecide
    <3>3. CASE Answer(c, "fallback")
      BY <2>3, <3>2, <3>3 DEF Outcomes
    <3>4. CASE route # "strong" /\ job' = [job EXCEPT ![c].step = "model"]
      <4>1. job[c].mode = "existing" => job[c].ready
        BY <3>1, <3>4 DEF Decide
      <4>2. /\ job'[c].step = "model" /\ job'[c].kind = job[c].kind /\ job'[c] \in Job
            /\ job'[c].mode = job[c].mode /\ job'[c].ready = job[c].ready
            /\ call'[c] = call[c]
        BY <2>1, <3>2, <3>4 DEF Job, FlowTypeOK, vars
      <4>. QED
        BY <2>1, <3>2, <4>1, <4>2, JobNullAssumption DEF JobInv, DecidedInv
    <3>. QED
      BY <3>1, <3>3, <3>4
  <2>10. CASE AskModel(c) \/ Passed(c)
    BY <2>3, <2>10 DEF AskModel, Passed, Outcomes
  <2>. QED
    BY <1>3, <2>4, <2>5, <2>6, <2>7, <2>8, <2>9, <2>10 DEF FlowStep, WorkerRecovered
<1>4. ASSUME NEW c \in Calls, Leave(c) PROVE FlowInv'
  <2>1. job'[c] = None /\ call'[c] = None
    BY <1>4 DEF Leave, Return, Crash, FlowTypeOK, TypeOK, vars
  <2>. QED
    BY <1>4, <2>1, OtherJobs DEF JobInv, DecidedInv, FlowInv
<1>. QED
  BY <1>1, <1>2, <1>3, <1>4 DEF FlowNext

LEMMA FlowStarts ==
    FlowInit => FlowTypeOK /\ AnswerInv /\ FlowInv
<1>1. Init => TypeOK
  BY BoundAssumption DEF Init, TypeOK, Snapshots, Hashes
<1>. QED
  BY <1>1 DEF FlowInit, Init, FlowTypeOK, AnswerInv, FlowInv, JobInv, DecidedInv

(* The inductive invariant of the requests: a request that is to be decided *)
(* carries the mode, the readiness and the conflicts its engine call has    *)
(* answered (flow.go Prepare and Run, worker.go Run).                       *)
THEOREM FlowInvariant == FlowSpec => [](FlowTypeOK /\ AnswerInv /\ FlowInv)
<1>1. FlowInit => FlowTypeOK /\ AnswerInv /\ FlowInv
  BY FlowStarts
<1>2. FlowTypeOK /\ AnswerInv /\ FlowInv /\ [FlowNext]_fvars
        => (FlowTypeOK /\ AnswerInv /\ FlowInv)'
  <2>. SUFFICES ASSUME FlowTypeOK, AnswerInv, FlowInv, [FlowNext]_fvars
                PROVE  (FlowTypeOK /\ AnswerInv /\ FlowInv)'
    OBVIOUS
  <2>1. TypeOK' /\ AnswerInv'
    BY EngineStep, TypeStep, AnswerStep DEF FlowTypeOK
  <2>2. job' \in [Calls -> Job \cup {None}]
    <3>1. CASE UNCHANGED fvars
      BY <3>1 DEF fvars, FlowTypeOK
    <3>. QED
      BY <3>1, JobStep
  <2>. QED
    BY <2>1, <2>2, FlowInvStep DEF FlowTypeOK
<1>. QED
  BY <1>1, <1>2, PTL DEF FlowSpec

(* Type correctness of the requests and of the engine under them.          *)
THEOREM FlowTypeCorrect == FlowSpec => []FlowTypeOK
BY FlowInvariant, PTL

(* The requests drive the engine as its own specification allows: whatever *)
(* is proved of the engine holds under developerflow, the MCP tools and the*)
(* local worker (the calls of Begin, Ensure and Impact in flow.go, server.go*)
(* and worker.go).                                                         *)
THEOREM FlowImplementsEngine == FlowSpec => Spec
<1>1. FlowInit => Init
  BY DEF FlowInit
<1>2. FlowTypeOK /\ [FlowNext]_fvars => [Next]_vars
  BY EngineStep
<1>. QED
  BY <1>1, <1>2, FlowTypeCorrect, PTL DEF FlowSpec, Spec

LEMMA AskingLocalJob ==
    ASSUME FlowTypeOK, FlowInv, NEW c \in Calls, NEW kinds \in SUBSET Kinds,
           AskingLocal(c, kinds), Comparable(c)
    PROVE  /\ call[c] \in Call /\ call[c].session \in Sessions
           /\ job[c].kind \in {"run", "worker"} => call[c].conflicts = {}
           /\ call[c].begun.mode = "existing" => call[c].ready
<1>1. /\ job[c] # None /\ job[c].step = "model" /\ call[c] # None
      /\ JobInv(c) /\ DecidedInv(c)
  BY DEF AskingLocal, FlowInv
<1>2. call[c] \in Call /\ call[c].session \in Sessions
  BY <1>1, CallTyped DEF FlowTypeOK, Call
<1>3. /\ job[c].kind \in {"run", "local", "worker"}
      /\ job[c].kind = "worker" => job[c].mode = "existing"
      /\ job[c].mode = "existing" => job[c].ready
  BY <1>1 DEF JobInv
<1>. QED
  BY <1>1, <1>2, <1>3 DEF DecidedInv

\* The answers of an undisturbed impact that found an existing project ready.
LEMMA ReadyMeansDiscovered ==
    ASSUME AnswerInv, NEW c \in Calls, Comparable(c), call[c].ready,
           Mode(vcs = "born") = "existing"
    PROVE  DiscoveryReadyNow(c)
<1>1. Missing(call[c].base, "existing", AllFiles, Dirty) = {}
  BY DEF AnswerInv, ReadyInv, Comparable, At
<1>. DEFINE needs == {"affected_files", "base_head", "repository_files"}
<1>2. \A x \in needs :
        ~(\/ x = "affected_files" /\ rankFiles(call[c].base.task, AllFiles, Dirty) = {}
          \/ x = "base_head" /\ ~call[c].base.base
          \/ x = "repository_files" /\ AllFiles = {})
  BY <1>1 DEF Missing
<1>3. "affected_files" \in needs /\ "base_head" \in needs
  OBVIOUS
<1>4. rankFiles(call[c].base.task, AllFiles, Dirty) # {}
  BY <1>2, <1>3
<1>5. call[c].base.base
  BY <1>2, <1>3
<1>. QED
  BY <1>4, <1>5 DEF DiscoveryReadyNow

(* BROWNFIELD.md:59 for any project and any requests at once: neither       *)
(* developer-run nor a worker that recovered the project itself asks the    *)
(* local model while a dirty file of the developer's differs from its       *)
(* baseline and from HEAD (flow.go Run, worker.go:91-110).                  *)
THEOREM LocalRunsGuarded == FlowSpec => []LocalRunGuarded
<1>1. FlowTypeOK /\ FlowInv /\ OwnershipExact => LocalRunGuarded
  <2>. SUFFICES ASSUME FlowTypeOK, FlowInv, OwnershipExact, NEW c \in Calls,
                       AskingLocal(c, {"run", "worker"}), Comparable(c),
                       NEW f \in UserChanged(call[c].session) \cap Dirty, f \notin Quoted
                PROVE  FALSE
    BY DEF LocalRunGuarded, NoUnreportedOverlap
  <2>1. f \in Files /\ f \in origin[call[c].session].dirty
    BY DEF UserChanged, Dirty
  <2>2. f \in call[c].conflicts
    BY <2>1 DEF OwnershipExact
  <2>3. job[c].kind \in {"run", "worker"}
    BY DEF AskingLocal
  <2>4. call[c].conflicts = {}
    BY <2>3, AskingLocalJob DEF Kinds
  <2>. QED
    BY <2>2, <2>4
<1>. QED
  BY <1>1, FlowInvariant, FlowImplementsEngine, OwnershipReport, PTL

(* BROWNFIELD.md:71-77: no entry point asks the local model about an        *)
(* existing project without a base commit and an affected file, judged on   *)
(* the project as it is (engine.go:244-261, router.go Decide).              *)
THEOREM DiscoveryIsGated == FlowSpec => []DiscoveryGated
<1>1. FlowTypeOK /\ AnswerInv /\ FlowInv => DiscoveryGated
  <2>. SUFFICES ASSUME FlowTypeOK, AnswerInv, FlowInv, NEW c \in Calls,
                       AskingLocal(c, Kinds), Comparable(c),
                       Mode(vcs = "born") = "existing",
                       call[c].begun.mode = "existing"
                PROVE  DiscoveryReadyNow(c)
    BY DEF DiscoveryGated
  <2>1. call[c].ready
    BY AskingLocalJob
  <2>. QED
    BY <2>1, ReadyMeansDiscovered
<1>. QED
  BY <1>1, FlowInvariant, PTL

(* What is proved of the engine, under the requests.                       *)
THEOREM FlowOwnershipReport == FlowSpec => []OwnershipExact /\ SettledBaselineStable
BY FlowImplementsEngine, OwnershipReport, BaselineFinal

-----------------------------------------------------------------------------
(* One request at a time.                                                  *)

LEMMA SerialStep ==
    ASSUME \A c, d \in Calls : c = d, TypeOK, SerialInv, [Next]_vars
    PROVE  /\ SerialInv'
           /\ \A s \in Sessions : HasBaseline(s) => baseline'[s] = baseline[s]
<1>1. \A s \in Sessions : HasBaseline(s) => Settled(s)
  BY DEF SerialInv, Settled
<1>2. \A s \in Sessions : HasBaseline(s) => Settled(s)' /\ baseline'[s] = baseline[s]
  BY <1>1, SettledStep
<1>3. ASSUME NEW c \in Calls, NEW s \in Sessions, Missed(c, s)', HasBaseline(s)'
      PROVE  FALSE
  <2>1. ~HasBaseline(s)
    BY <1>2, <1>3 DEF Settled
  <2>2. \E d \in Calls : SaveWrite(d) /\ call[d].session = s
    <3>1. baseline'[s] # baseline[s]
      BY <1>3, <2>1 DEF HasBaseline
    <3>2. PICK d \in Calls : SaveCreate(d) \/ SaveWrite(d)
      BY <3>1 DEF Next, vars, Developer, Edit, GitInit, Commit, Change, Start, CallStep,
         EnsureLoad, BeginLoad, ImpactLoad, DetectHead, DetectStatus, HashFile,
         ImpactReport, Return, Crash
    <3>3. call[d] \in Call
      BY <3>2, CallTyped DEF SaveCreate, SaveWrite, At
    <3>4. CASE SaveCreate(d)
      BY <1>3, <3>1, <3>3, <3>4 DEF SaveCreate, HasBaseline, TypeOK, Call
    <3>5. CASE SaveWrite(d)
      BY <3>1, <3>3, <3>5 DEF SaveWrite, TypeOK, Call
    <3>. QED
      BY <3>2, <3>4, <3>5
  <2>3. SaveWrite(c)
    BY <2>2
  <2>4. call'[c] = Begun(c, Captured(c)) /\ call[c] \in Call
    BY <2>3, CallTyped DEF SaveWrite, Disturbed, At
  <2>5. call'[c].step \in {"done", "load"}
    BY <2>4 DEF Begun, Call
  <2>. QED
    BY <1>3, <2>5 DEF Missed
<1>. QED
  BY <1>2, <1>3 DEF SerialInv

(* "Capture an immutable developer-task baseline", for a server that takes *)
(* one request at a time: whatever edits, commits and crashes fall between *)
(* its steps, a baseline on disk is never changed (engine.go:118-143).     *)
THEOREM OneAtATime == (\A c, d \in Calls : c = d) => (Spec => BaselineImmutable)
<1>. SUFFICES ASSUME \A c, d \in Calls : c = d
              PROVE  Spec => BaselineImmutable
  OBVIOUS
<1>1. Init => SerialInv
  BY DEF Init, SerialInv, Missed
<1>2. TypeOK /\ SerialInv /\ [Next]_vars => SerialInv'
  BY SerialStep
<1>3. TypeOK /\ SerialInv /\ [Next]_vars =>
        [\A s \in Sessions : HasBaseline(s) => baseline'[s] = baseline[s]]_vars
  BY SerialStep
<1>. QED
  BY <1>1, <1>2, <1>3, TypeCorrect, PTL DEF Spec, BaselineImmutable

(* The same for the requests on top of the engine.                         *)
THEOREM FlowOneAtATime == (\A c, d \in Calls : c = d) => (FlowSpec => BaselineImmutable)
BY OneAtATime, FlowImplementsEngine

===============================================================================
