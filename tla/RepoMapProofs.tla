---------------------------- MODULE RepoMapProofs ----------------------------
(***************************************************************************)
(* What holds of repomap's cache for any files, contents, number of builds *)
(* and amount of editing: which analyses end up in a map.                  *)
(***************************************************************************)
EXTENDS RepoMap, FiniteSetTheorems, TLAPS

\* A build has its types, whatever its map.
LEMMA BuildTyped ==
    ASSUME Formed, NEW b \in Builds, build[b] # None
    PROVE  build[b] \in BuildWith({build[b].map})
BY DEF Formed

\* The next state of one build while the others stay where they are.
LEMMA OneBuild ==
    ASSUME Formed, NEW b \in Builds, NEW r, build' = [build EXCEPT ![b] = r]
    PROVE  /\ build' = [c \in Builds |-> build'[c]]
           /\ build'[b] = r
           /\ \A c \in Builds : c # b => build'[c] = build[c]
BY DEF Formed

\* Types survive a step that changes one build.
LEMMA FormedStep ==
    ASSUME Formed, NEW b \in Builds, NEW r, build' = [build EXCEPT ![b] = r],
           r # None => r \in BuildWith({r.map}),
           UNCHANGED project, cache' \in Cache \cup {None}, soiled' \subseteq Files
    PROVE  Formed'
<1>1. \A c \in Builds : build'[c] # None => build'[c] \in BuildWith({build'[c].map})
  BY OneBuild, BuildTyped
<1>. QED
  BY <1>1, OneBuild DEF Formed, project

\* The analyses stay of their blobs for fewer files.
LEMMA BuildKept ==
    ASSUME NEW b \in Builds, build'[b] = build[b], UNCHANGED project,
           soiled \subseteq soiled', BuildInv(build[b])
    PROVE  BuildInv(build[b])'
<1>1. UNCHANGED <<index, work>>
  BY DEF project
<1>2. build[b].step \in {"load", "files", "write"} => RefsInv(build[b])'
  BY <1>1 DEF BuildInv, RefsInv
<1>3. build[b].step \in {"load", "files", "write", "done"} => FreshInv(build[b])'
  BY DEF BuildInv, FreshInv
<1>4. Analysed(build[b].cached)' /\ Analysed(build[b].fresh)'
  BY DEF BuildInv, Analysed
<1>5. ToldInv(build[b])'
  BY DEF BuildInv, ToldInv
<1>. QED
  BY <1>1, <1>2, <1>3, <1>4, <1>5 DEF BuildInv

\* What is left to show of a step of build b that leaves the project alone.
LEMMA StepKeeps ==
    ASSUME Formed, MapInv, NEW b \in Builds, NEW r, build' = [build EXCEPT ![b] = r],
           UNCHANGED <<project, soiled>>, build[b] # None, build[b].step # "done",
           cache' # None => Analysed(cache)',
           build'[b] # None => BuildInv(build[b])'
    PROVE  MapInv'
<1>1. b \in Running
  BY DEF Running
<1>2. Unstaged(index, work)' \subseteq soiled'
  BY <1>1 DEF MapInv, Unstaged, project
<1>3. ASSUME NEW c \in Builds, build'[c] # None PROVE BuildInv(build[c])'
  <2>1. CASE c = b
    BY <1>3, <2>1
  <2>2. CASE c # b
    <3>1. build'[c] = build[c]
      BY <2>2, OneBuild
    <3>. QED
      BY <1>3, <3>1, BuildKept DEF MapInv
  <2>. QED
    BY <2>1, <2>2
<1>. QED
  BY <1>2, <1>3 DEF MapInv

-----------------------------------------------------------------------------
(* The developer.                                                          *)

LEMMA ChangeKeeps ==
    ASSUME Formed, MapInv,
           NEW h \in [Files -> Content], NEW i \in [Files -> Content],
           NEW w \in [Files -> Content], Change(h, i, w),
           \A f \in Files : i[f] \in {index[f], work[f]}
    PROVE  Formed' /\ MapInv'
<1>1. /\ head' = h /\ index' = i /\ work' = w /\ cache' = cache
      /\ soiled' = IF Running = {} THEN soiled ELSE soiled \cup Unstaged(i, w)
  BY DEF Change
<1>2. build' = [b \in Builds |->
                 IF b \notin Running THEN build[b]
                 ELSE [build[b] EXCEPT
                         !.dirty = {f \in @ : w[f] # h[f]},
                         !.seen = [f \in Files |-> @[f] \cup {w[f]}]]]
  BY DEF Change
<1>3. soiled \subseteq soiled' /\ soiled' \subseteq Files
  BY <1>1 DEF Formed, Unstaged
<1>4. Analysed(cache)' \/ cache' = None
  BY <1>1, <1>3 DEF MapInv, Analysed
<1>5. Running' \subseteq Running
  <2>. SUFFICES ASSUME NEW b \in Builds, b \notin Running, b \in Running' PROVE FALSE
    BY DEF Running
  <2>1. build'[b] = build[b]
    BY <1>2
  <2>. QED
    BY <2>1 DEF Running
<1>6. Running' # {} => Unstaged(index, work)' \subseteq soiled'
  BY <1>1, <1>5 DEF Unstaged
<1>7. ASSUME NEW b \in Running
      PROVE  /\ build'[b] \in BuildWith({build'[b].map})
             /\ BuildInv(build[b])'
  <2>1. /\ build[b] \in BuildWith({build[b].map}) /\ b \in Builds
        /\ build[b] # None /\ build[b].step # "done"
    BY BuildTyped DEF Running
  <2>2. build'[b] = [build[b] EXCEPT !.dirty = {f \in @ : w[f] # h[f]},
                      !.seen = [f \in Files |-> @[f] \cup {w[f]}]]
    BY <1>2, <2>1
  <2>3. /\ build'[b].step = build[b].step
        /\ build'[b].told = build[b].told /\ build'[b].changed = build[b].changed
        /\ build'[b].refs = build[b].refs /\ build'[b].cached = build[b].cached
        /\ build'[b].fresh = build[b].fresh
        /\ build'[b].todo = build[b].todo /\ build'[b].map = build[b].map
        /\ build'[b].dirty = {f \in build[b].dirty : w[f] # h[f]}
        /\ build'[b].seen = [f \in Files |-> build[b].seen[f] \cup {w[f]}]
    BY <2>1, <2>2 DEF BuildWith
  <2>4. build'[b] \in BuildWith({build'[b].map})
    <3>1. build'[b].dirty \in SUBSET Files /\ build'[b].seen \in [Files -> SUBSET Content]
      BY <2>1, <2>3 DEF BuildWith
    <3>2. build'[b] = [build[b] EXCEPT !.dirty = build'[b].dirty, !.seen = build'[b].seen]
      BY <2>2, <2>3
    <3>. QED
      BY <2>1, <2>3, <3>1, <3>2 DEF BuildWith
  <2>i. BuildInv(build[b])
    BY <2>1 DEF MapInv
  <2>5. build[b].step \in {"load", "files", "write"} => RefsInv(build[b])'
    <3>. SUFFICES ASSUME build[b].step \in {"load", "files", "write"} PROVE RefsInv(build[b])'
      OBVIOUS
    <3>1. ASSUME NEW f \in Files \ soiled', build[b].refs[f] \in Contents
          PROVE  build[b].refs[f] = w[f] /\ i[f] = w[f]
      <4>1. build[b].refs[f] = work[f] /\ index[f] = work[f]
        BY <1>3, <2>i, <3>1 DEF BuildInv, RefsInv
      <4>2. i[f] = index[f] /\ i[f] # Absent
        BY <3>1, <4>1, NullAssumption
      <4>3. f \notin Unstaged(i, w)
        BY <1>1, <3>1, <1>7
      <4>. QED
        BY <4>1, <4>2, <4>3 DEF Unstaged
    <3>2. \A f \in build[b].todo : build[b].refs[f] # None
      BY <2>i DEF BuildInv, RefsInv
    <3>. QED
      BY <1>1, <2>3, <3>1, <3>2 DEF RefsInv
  <2>6. build[b].step \in {"load", "files", "write", "done"} => FreshInv(build[b])'
    BY <1>3, <2>3, <2>i DEF BuildInv, FreshInv
  <2>7. Analysed(build[b].cached)' /\ Analysed(build[b].fresh)'
    BY <1>3, <2>3, <2>i DEF BuildInv, Analysed
  <2>8. ToldInv(build[b])'
    BY <2>1, <2>3, <2>i DEF BuildInv, ToldInv, BuildWith
  <2>9. \A f \in Files : w[f] \in build'[b].seen[f]
    BY <2>3
  <2>10. BuildInv(build[b])'
    BY <1>1, <2>3, <2>5, <2>6, <2>7, <2>8, <2>9, <2>i DEF BuildInv, NoCache
  <2>. QED
    BY <2>4, <2>10
<1>8. ASSUME NEW b \in Builds, build'[b] # None
      PROVE  build'[b] \in BuildWith({build'[b].map}) /\ BuildInv(build[b])'
  <2>1. CASE b \in Running
    BY <1>7, <2>1
  <2>2. CASE b \notin Running
    <3>1. build'[b] = build[b] /\ build[b].step = "done"
      BY <1>2, <1>8, <2>2 DEF Running
    <3>2. build[b] # None /\ BuildInv(build[b])
      BY <1>8, <3>1 DEF MapInv
    <3>3. BuildInv(build[b])'
      BY <1>3, <3>1, <3>2 DEF BuildInv, FreshInv, Analysed, ToldInv, NoCache
    <3>. QED
      BY <3>1, <3>2, <3>3, BuildTyped
  <2>. QED
    BY <2>1, <2>2
<1>9. Formed'
  BY <1>1, <1>2, <1>3, <1>8 DEF Formed
<1>. QED
  BY <1>4, <1>6, <1>8, <1>9 DEF MapInv

LEMMA DeveloperKeeps ==
    ASSUME Formed, MapInv, Developer
    PROVE  Formed' /\ MapInv'
<1>0. /\ head \in [Files -> Content] /\ index \in [Files -> Content]
      /\ work \in [Files -> Content]
  BY DEF Formed
<1>1. ASSUME NEW f \in Edited, NEW c \in Content, Edit(f, c) PROVE Formed' /\ MapInv'
  <2>1. [work EXCEPT ![f] = c] \in [Files -> Content]
    BY <1>0
  <2>. QED
    BY <1>0, <1>1, <2>1, ChangeKeeps DEF Edit
<1>2. ASSUME NEW f \in Edited, Stage(f) PROVE Formed' /\ MapInv'
  <2>. DEFINE i == [index EXCEPT ![f] = work[f]]
  <2>1. i \in [Files -> Content] /\ \A g \in Files : i[g] \in {index[g], work[g]}
    BY <1>0, EventAssumption
  <2>2. Change(head, i, work)
    BY <1>2 DEF Stage
  <2>. HIDE DEF i
  <2>. QED
    BY <1>0, <2>1, <2>2, ChangeKeeps
<1>3. ASSUME Commit PROVE Formed' /\ MapInv'
  BY <1>0, <1>3, ChangeKeeps DEF Commit
<1>. QED
  BY <1>1, <1>2, <1>3 DEF Developer

-----------------------------------------------------------------------------
(* The steps of a build.                                                   *)

LEMMA StartKeeps ==
    ASSUME Formed, MapInv, NEW b \in Builds, NEW compile \in BOOLEAN,
           NEW named \in SUBSET Files, Start(b, compile, named)
    PROVE  Formed' /\ MapInv'
<1>. DEFINE r == [step |-> IF compile THEN "snapshot" ELSE "refs", compile |-> compile,
           told |-> FALSE, changed |-> named, refs |-> [f \in Files |-> None],
           cached |-> NoCache, fresh |-> NoCache, todo |-> {}, torn |-> FALSE, map |-> None,
           dirty |-> {f \in Files : Differs(f)},
           seen |-> [f \in Files |-> {work[f]}]]
<1>1. /\ build' = [build EXCEPT ![b] = r]
      /\ soiled' = soiled \cup Unstaged(index, work)
      /\ UNCHANGED project /\ cache' = cache
  BY DEF Start
<1>2. r \in BuildWith({r.map})
  BY DEF BuildWith, Steps, Formed, Cache, NoCache
<1>3. soiled \subseteq soiled' /\ soiled' \subseteq Files /\ cache' \in Cache \cup {None}
  BY <1>1 DEF Formed, Unstaged
<1>4. /\ r.step \in {"snapshot", "refs"} /\ r.fresh = NoCache /\ r.cached = NoCache
      /\ r.told = FALSE /\ \A f \in Files : work[f] \in r.seen[f]
  OBVIOUS
<1>. HIDE DEF r
<1>5. Formed'
  BY <1>1, <1>2, <1>3, FormedStep
<1>6. BuildInv(build[b])'
  <2>1. build'[b] = r /\ work' = work
    BY <1>1, OneBuild DEF project
  <2>2. Analysed(NoCache)'
    BY DEF Analysed, NoCache
  <2>. QED
    BY <1>4, <2>1, <2>2 DEF BuildInv, ToldInv, NoCache
<1>7. ASSUME NEW c \in Builds, build'[c] # None PROVE BuildInv(build[c])'
  <2>1. CASE c = b
    BY <1>6, <2>1
  <2>2. CASE c # b
    <3>1. build'[c] = build[c]
      BY <1>1, <2>2, OneBuild
    <3>. QED
      BY <1>1, <1>3, <1>7, <3>1, BuildKept DEF MapInv
  <2>. QED
    BY <2>1, <2>2
<1>8. Unstaged(index, work)' \subseteq soiled'
  BY <1>1 DEF Unstaged, project
<1>9. cache' # None => Analysed(cache)'
  BY <1>1, <1>3 DEF MapInv, Analysed
<1>. QED
  BY <1>5, <1>7, <1>8, <1>9 DEF MapInv

\* A running build, with what the invariant says of it.
LEMMA RunningBuild ==
    ASSUME Formed, MapInv, NEW b \in Builds, build[b] # None, build[b].step # "done"
    PROVE  /\ build[b] \in BuildWith({build[b].map})
           /\ BuildInv(build[b])
           /\ \A f \in Files : work[f] \in build[b].seen[f]
           /\ \A f \in Files \ soiled : index[f] # Absent => work[f] = index[f]
<1>1. build[b] \in BuildWith({build[b].map}) /\ BuildInv(build[b])
  BY BuildTyped DEF MapInv
<1>2. b \in Running
  BY DEF Running
<1>. QED
  BY <1>1, <1>2 DEF BuildInv, MapInv, Unstaged

LEMMA SnapshotKeeps ==
    ASSUME Formed, MapInv, NEW b \in Builds, Snapshot(b) \/ SnapshotFailed(b)
    PROVE  Formed' /\ MapInv'
<1>1. build[b] # None /\ build[b].step = "snapshot"
  BY DEF Snapshot, SnapshotFailed, At
<1>2. /\ build[b] \in BuildWith({build[b].map}) /\ BuildInv(build[b])
      /\ \A f \in Files : work[f] \in build[b].seen[f]
  BY <1>1, RunningBuild
<1>3. UNCHANGED <<project, cache, soiled>>
  BY DEF Snapshot, SnapshotFailed
<1>4. cache' \in Cache \cup {None} /\ soiled' \subseteq Files
      /\ (cache' # None => Analysed(cache)')
  BY <1>3 DEF Formed, MapInv, Analysed
<1>5. CASE Snapshot(b)
  <2>. DEFINE ch == {f \in Files : Differs(f) \/ Untracked(f)}
              di == {f \in Files : Differs(f)}
              se == [f \in Files |-> {work[f]}]
              r == [build[b] EXCEPT !.step = "refs", !.told = TRUE, !.changed = ch,
                                    !.dirty = di, !.seen = se]
  <2>1. build' = [build EXCEPT ![b] = r]
    BY <1>5 DEF Snapshot
  <2>2. /\ ch \subseteq Files /\ di \subseteq ch
        /\ se \in [Files -> SUBSET Content] /\ \A f \in Files : work[f] \in se[f]
    BY DEF Formed
  <2>. HIDE DEF ch, di, se
  <2>3. r \in BuildWith({r.map})
    BY <1>2, <2>2 DEF BuildWith, Steps
  <2>4. /\ r.step = "refs" /\ r.fresh = build[b].fresh /\ r.cached = build[b].cached
        /\ r.changed = ch /\ r.dirty = di /\ r.seen = se
    BY <1>2 DEF BuildWith
  <2>. HIDE DEF r
  <2>5. BuildInv(build[b])'
    <3>1. build'[b] = r /\ work' = work /\ soiled' = soiled
      BY <1>3, <2>1, OneBuild DEF project
    <3>2. r.fresh = NoCache
      BY <1>1, <1>2, <2>4 DEF BuildInv
    <3>3. Analysed(build[b].cached)' /\ Analysed(build[b].fresh)'
      BY <1>2, <2>4, <3>1 DEF BuildInv, Analysed
    <3>4. ToldInv(build[b])'
      BY <2>2, <2>4, <3>1, <3>2 DEF ToldInv, NoCache
    <3>. QED
      BY <2>2, <2>4, <3>1, <3>2, <3>3, <3>4 DEF BuildInv, NoCache
  <2>6. Formed'
    BY <1>3, <1>4, <2>1, <2>3, FormedStep
  <2>. QED
    BY <1>1, <1>3, <1>4, <2>1, <2>5, <2>6, StepKeeps
<1>6. CASE SnapshotFailed(b)
  <2>. DEFINE r == [build[b] EXCEPT !.step = "refs"]
  <2>1. build' = [build EXCEPT ![b] = r]
    BY <1>6 DEF SnapshotFailed
  <2>2. r \in BuildWith({r.map})
    BY <1>2 DEF BuildWith, Steps
  <2>3. /\ r.step = "refs" /\ r.fresh = build[b].fresh /\ r.cached = build[b].cached
        /\ r.changed = build[b].changed /\ r.dirty = build[b].dirty
        /\ r.seen = build[b].seen /\ r.told = build[b].told
    BY <1>2 DEF BuildWith
  <2>. HIDE DEF r
  <2>4. BuildInv(build[b])'
    <3>1. build'[b] = r /\ work' = work /\ soiled' = soiled
      BY <1>3, <2>1, OneBuild DEF project
    <3>2. Analysed(build[b].cached)' /\ Analysed(build[b].fresh)' /\ ToldInv(build[b])'
      BY <1>2, <2>3, <3>1 DEF BuildInv, Analysed, ToldInv
    <3>. QED
      BY <1>1, <1>2, <2>3, <3>1, <3>2 DEF BuildInv, NoCache
  <2>5. Formed'
    BY <1>3, <1>4, <2>1, <2>2, FormedStep
  <2>. QED
    BY <1>1, <1>3, <1>4, <2>1, <2>4, <2>5, StepKeeps
<1>. QED
  BY <1>5, <1>6

LEMMA FileRefsKeeps ==
    ASSUME Formed, MapInv, NEW b \in Builds, FileRefs(b)
    PROVE  Formed' /\ MapInv'
<1>. DEFINE refs == [f \in Files |-> IF index[f] # Absent THEN index[f]
                                     ELSE IF work[f] # Absent THEN Worktree ELSE None]
            td == {f \in Files : refs[f] # None}
            r == [build[b] EXCEPT !.step = "load", !.refs = refs, !.todo = td]
<1>1. /\ build[b] # None /\ build[b].step = "refs"
      /\ build' = [build EXCEPT ![b] = r]
      /\ UNCHANGED <<project, cache, soiled>>
  BY DEF FileRefs, At
<1>2. /\ build[b] \in BuildWith({build[b].map}) /\ BuildInv(build[b])
      /\ \A f \in Files : work[f] \in build[b].seen[f]
      /\ \A f \in Files \ soiled : index[f] # Absent => work[f] = index[f]
  BY <1>1, RunningBuild
<1>3. cache' \in Cache \cup {None} /\ soiled' \subseteq Files
      /\ (cache' # None => Analysed(cache)')
  BY <1>1 DEF Formed, MapInv, Analysed
<1>4. /\ refs \in [Files -> Blob \cup {None}]
      /\ \A f \in Files : refs[f] \in Contents => refs[f] = index[f] /\ index[f] # Absent
      /\ \A f \in Files : refs[f] = None => work[f] = Absent
  BY NullAssumption DEF Formed, Content, Blob
<1>5. td \subseteq Files /\ \A f \in Files : f \notin td <=> refs[f] = None
  OBVIOUS
<1>. HIDE DEF refs, td
<1>6. r \in BuildWith({r.map})
  BY <1>2, <1>4, <1>5 DEF BuildWith, Steps
<1>7. /\ r.step = "load" /\ r.fresh = build[b].fresh /\ r.cached = build[b].cached
      /\ r.changed = build[b].changed /\ r.dirty = build[b].dirty
      /\ r.seen = build[b].seen /\ r.told = build[b].told
      /\ r.refs = refs /\ r.todo = td
  BY <1>2 DEF BuildWith
<1>. HIDE DEF r
<1>8. BuildInv(build[b])'
  <2>1. build'[b] = r /\ work' = work /\ index' = index /\ soiled' = soiled
    BY <1>1, OneBuild DEF project
  <2>2. Analysed(build[b].cached)' /\ Analysed(build[b].fresh)' /\ ToldInv(build[b])'
    BY <1>2, <1>7, <2>1 DEF BuildInv, Analysed, ToldInv
  <2>3. r.fresh = NoCache
    BY <1>1, <1>2, <1>7 DEF BuildInv
  <2>4. RefsInv(build[b])'
    BY <1>2, <1>4, <1>5, <1>7, <2>1 DEF RefsInv
  <2>5. FreshInv(build[b])'
    BY <1>2, <1>4, <1>5, <1>7, <2>1, <2>3 DEF FreshInv, NoCache
  <2>. QED
    BY <1>2, <1>7, <2>1, <2>2, <2>3, <2>4, <2>5 DEF BuildInv, NoCache
<1>9. Formed'
  BY <1>1, <1>3, <1>6, FormedStep
<1>. QED
  BY <1>1, <1>3, <1>8, <1>9, StepKeeps

LEMMA LoadCacheKeeps ==
    ASSUME Formed, MapInv, NEW b \in Builds, LoadCache(b)
    PROVE  Formed' /\ MapInv'
<1>. DEFINE ca == IF cache = None THEN NoCache ELSE cache
            r == [build[b] EXCEPT !.step = "files", !.cached = ca]
<1>1. /\ build[b] # None /\ build[b].step = "load"
      /\ build' = [build EXCEPT ![b] = r]
      /\ UNCHANGED <<project, cache, soiled>>
  BY DEF LoadCache, At
<1>2. build[b] \in BuildWith({build[b].map}) /\ BuildInv(build[b])
  BY <1>1, RunningBuild
<1>3. cache' \in Cache \cup {None} /\ soiled' \subseteq Files
      /\ (cache' # None => Analysed(cache)')
  BY <1>1 DEF Formed, MapInv, Analysed
<1>4. ca \in Cache /\ Analysed(ca)
  BY DEF Formed, MapInv, Analysed, Cache, NoCache
<1>. HIDE DEF ca
<1>5. r \in BuildWith({r.map})
  BY <1>2, <1>4 DEF BuildWith, Steps
<1>6. /\ r.step = "files" /\ r.fresh = build[b].fresh /\ r.cached = ca
      /\ r.changed = build[b].changed /\ r.dirty = build[b].dirty
      /\ r.seen = build[b].seen /\ r.told = build[b].told
      /\ r.refs = build[b].refs /\ r.todo = build[b].todo
  BY <1>2 DEF BuildWith
<1>. HIDE DEF r
<1>7. BuildInv(build[b])'
  <2>1. build'[b] = r /\ work' = work /\ index' = index /\ soiled' = soiled
    BY <1>1, OneBuild DEF project
  <2>2. Analysed(build[b].cached)' /\ Analysed(build[b].fresh)' /\ ToldInv(build[b])'
    BY <1>2, <1>4, <1>6, <2>1 DEF BuildInv, Analysed, ToldInv
  <2>3. RefsInv(build[b])' /\ FreshInv(build[b])'
    BY <1>1, <1>2, <1>6, <2>1 DEF BuildInv, RefsInv, FreshInv
  <2>. QED
    BY <1>1, <1>2, <1>6, <2>1, <2>2, <2>3 DEF BuildInv
<1>8. Formed'
  BY <1>1, <1>3, <1>5, FormedStep
<1>. QED
  BY <1>1, <1>3, <1>7, <1>8, StepKeeps

\* A file is through with an analysis of its blob that was seen, or left out.
LEMMA KeepKeeps ==
    ASSUME Formed, MapInv, NEW b \in Builds, NEW f \in Files, Turn(b, f),
           NEW e \in Entry \cup {None}, build' = [build EXCEPT ![b] = Keep(build[b], f, e)],
           UNCHANGED <<project, cache, soiled>>,
           e = None => Absent \in build[b].seen[f],
           e # None /\ (f \in soiled => build[b].told /\ f \in build[b].dirty) =>
                e.node \in build[b].seen[f],
           e # None /\ e.blob # Worktree /\ f \notin soiled => e.node = e.blob
    PROVE  Formed' /\ MapInv'
<1>. DEFINE r == Keep(build[b], f, e)
<1>1. build[b] # None /\ build[b].step = "files" /\ f \in build[b].todo
  BY DEF Turn, At
<1>2. /\ build[b] \in BuildWith({build[b].map}) /\ BuildInv(build[b])
      /\ \A g \in Files : work[g] \in build[b].seen[g]
  BY <1>1, RunningBuild
<1>3. cache' \in Cache \cup {None} /\ soiled' \subseteq Files
      /\ (cache' # None => Analysed(cache)')
  BY DEF Formed, MapInv, Analysed
<1>4. r \in BuildWith({r.map})
  BY <1>2 DEF Keep, BuildWith, Cache
<1>5. /\ r.step = "files" /\ r.cached = build[b].cached
      /\ r.changed = build[b].changed /\ r.dirty = build[b].dirty
      /\ r.seen = build[b].seen /\ r.told = build[b].told
      /\ r.refs = build[b].refs /\ r.todo = build[b].todo \ {f}
      /\ r.fresh[f] = e
      /\ \A g \in Files : g # f => r.fresh[g] = build[b].fresh[g]
  BY <1>1, <1>2 DEF Keep, BuildWith, Cache
<1>. HIDE DEF r
<1>6. BuildInv(build[b])'
  <2>1. build'[b] = r /\ work' = work /\ index' = index /\ soiled' = soiled
    BY OneBuild DEF project, r
  <2>2. Analysed(build[b].cached)'
    BY <1>2, <1>5, <2>1 DEF BuildInv, Analysed
  <2>3. Analysed(build[b].fresh)'
    BY <1>2, <1>5, <2>1 DEF BuildInv, Analysed
  <2>4. RefsInv(build[b])'
    BY <1>1, <1>2, <1>5, <2>1 DEF BuildInv, RefsInv
  <2>5. FreshInv(build[b])'
    <3>1. FreshInv(build[b])
      BY <1>1, <1>2 DEF BuildInv
    <3>2. ASSUME NEW g \in Files \ (soiled \cup r.todo)
          PROVE  IF r.fresh[g] = None THEN Absent \in r.seen[g]
                 ELSE r.fresh[g].node \in r.seen[g]
      <4>1. CASE g = f
        BY <1>5, <3>2, <4>1
      <4>2. CASE g # f
        BY <1>5, <3>1, <3>2, <4>2 DEF FreshInv
      <4>. QED
        BY <4>1, <4>2
    <3>. QED
      BY <2>1, <3>2 DEF FreshInv
  <2>6. ToldInv(build[b])'
    BY <1>2, <1>5, <2>1 DEF BuildInv, ToldInv, BuildWith
  <2>. QED
    BY <1>2, <1>5, <2>1, <2>2, <2>3, <2>4, <2>5, <2>6 DEF BuildInv
<1>7. Formed'
  BY <1>3, <1>4, FormedStep DEF r
<1>. QED
  BY <1>1, <1>3, <1>6, <1>7, StepKeeps DEF r

LEMMA FilesKeep ==
    ASSUME Formed, MapInv, NEW b \in Builds, NEW f \in Files, Reuse(b, f) \/ Analyze(b, f)
    PROVE  Formed' /\ MapInv'
<1>1. /\ Turn(b, f) /\ build[b] # None /\ build[b].step = "files" /\ f \in build[b].todo
      /\ UNCHANGED <<project, cache, soiled>>
  BY DEF Reuse, Analyze, Turn, At
<1>2. /\ build[b] \in BuildWith({build[b].map}) /\ BuildInv(build[b])
      /\ work[f] \in build[b].seen[f]
  BY <1>1, RunningBuild
<1>3. /\ build[b].refs[f] \in Blob
      /\ f \notin soiled /\ build[b].refs[f] \in Contents => build[b].refs[f] = work[f]
  BY <1>1, <1>2 DEF BuildInv, RefsInv, BuildWith
<1>4. CASE Reuse(b, f)
  <2>. DEFINE e == build[b].cached[f]
  <2>1. /\ e # None /\ e.blob = build[b].refs[f]
        /\ f \notin build[b].changed /\ build[b].refs[f] # Worktree
        /\ build' = [build EXCEPT ![b] = Keep(build[b], f, e)]
    BY <1>4 DEF Reuse, Reusable
  <2>2. e \in Entry
    BY <1>2, <2>1 DEF BuildWith, Cache
  <2>3. f \notin soiled => e.node = e.blob /\ e.node = work[f]
    BY <1>2, <1>3, <2>1 DEF BuildInv, Analysed, Blob
  <2>4. ~(build[b].told /\ f \in build[b].dirty)
    BY <1>2, <2>1 DEF BuildInv, ToldInv
  <2>. HIDE DEF e
  <2>. QED
    BY <1>1, <1>2, <2>1, <2>2, <2>3, <2>4, KeepKeeps
<1>5. CASE Analyze(b, f)
  <2>. DEFINE e == IF work[f] = Absent THEN None
                   ELSE [blob |-> build[b].refs[f], node |-> work[f]]
  <2>1. build' = [build EXCEPT ![b] = Keep(build[b], f, e)]
    BY <1>5 DEF Analyze
  <2>2. work[f] \in Content
    BY DEF Formed
  <2>3. CASE work[f] = Absent
    <3>1. e = None
      BY <2>3
    <3>. QED
      BY <1>1, <1>2, <2>1, <2>3, <3>1, KeepKeeps
  <2>4. CASE work[f] # Absent
    <3>1. /\ e \in Entry /\ e.node = work[f] /\ e.blob = build[b].refs[f]
      BY <1>3, <2>2, <2>4 DEF Entry, Content
    <3>2. e # None
      BY <3>1, NullAssumption
    <3>3. f \notin soiled /\ e.blob # Worktree => e.node = e.blob
      BY <1>3, <3>1 DEF Blob
    <3>. HIDE DEF e
    <3>. QED
      BY <1>1, <1>2, <2>1, <3>1, <3>2, <3>3, KeepKeeps
  <2>. QED
    BY <2>3, <2>4
<1>. QED
  BY <1>4, <1>5

LEMMA SaveCreateKeeps ==
    ASSUME Formed, MapInv, NEW b \in Builds, SaveCreate(b)
    PROVE  Formed' /\ MapInv'
<1>1. /\ build[b] # None /\ build[b].step = "files" /\ build[b].todo = {}
      /\ UNCHANGED <<project, soiled>> /\ cache' = None
  BY DEF SaveCreate, At
<1>. DEFINE t == \E d \in Builds : At(d, "write")
<1>2. build' = [c \in Builds |->
                  IF c = b THEN [build[b] EXCEPT !.step = "write", !.torn = t]
                  ELSE IF At(c, "write") THEN [build[c] EXCEPT !.torn = TRUE]
                  ELSE build[c]]
  BY DEF SaveCreate
<1>3. t \in BOOLEAN
  OBVIOUS
<1>. HIDE DEF t
<1>4. /\ build[b] \in BuildWith({build[b].map}) /\ BuildInv(build[b])
      /\ \A f \in Files : work[f] \in build[b].seen[f]
  BY <1>1, RunningBuild
<1>5. build'[b] \in BuildWith({build'[b].map}) /\ BuildInv(build[b])'
  <2>1. build'[b] = [build[b] EXCEPT !.step = "write", !.torn = t]
    BY <1>2
  <2>2. /\ build'[b].step = "write" /\ build'[b].cached = build[b].cached
        /\ build'[b].changed = build[b].changed /\ build'[b].dirty = build[b].dirty
        /\ build'[b].seen = build[b].seen /\ build'[b].told = build[b].told
        /\ build'[b].refs = build[b].refs /\ build'[b].todo = build[b].todo
        /\ build'[b].fresh = build[b].fresh
    BY <1>4, <2>1 DEF BuildWith
  <2>3. build'[b] \in BuildWith({build'[b].map})
    BY <1>3, <1>4, <2>1 DEF BuildWith, Steps
  <2>4. UNCHANGED <<index, work, soiled>>
    BY <1>1 DEF project
  <2>5. BuildInv(build[b])'
    BY <1>1, <1>4, <2>2, <2>4 DEF BuildInv, RefsInv, FreshInv, Analysed, ToldInv
  <2>. QED
    BY <2>3, <2>5
<1>6. ASSUME NEW c \in Builds, build'[c] # None
      PROVE  build'[c] \in BuildWith({build'[c].map}) /\ BuildInv(build[c])'
  <2>1. CASE c = b
    BY <1>5, <2>1
  <2>2. CASE c # b /\ At(c, "write")
    <3>1. build'[c] = [build[c] EXCEPT !.torn = TRUE] /\ build[c] # None
      BY <1>2, <2>2 DEF At
    <3>2. build[c] \in BuildWith({build[c].map}) /\ BuildInv(build[c])
      BY <3>1, BuildTyped DEF MapInv
    <3>3. /\ build'[c].step = build[c].step /\ build'[c].cached = build[c].cached
          /\ build'[c].changed = build[c].changed /\ build'[c].dirty = build[c].dirty
          /\ build'[c].seen = build[c].seen /\ build'[c].told = build[c].told
          /\ build'[c].refs = build[c].refs /\ build'[c].todo = build[c].todo
          /\ build'[c].fresh = build[c].fresh
      BY <3>1, <3>2 DEF BuildWith
    <3>4. build'[c] \in BuildWith({build'[c].map})
      BY <3>1, <3>2 DEF BuildWith
    <3>5. UNCHANGED <<index, work, soiled>>
      BY <1>1 DEF project
    <3>6. BuildInv(build[c])'
      BY <3>2, <3>3, <3>5 DEF BuildInv, RefsInv, FreshInv, Analysed, ToldInv, NoCache
    <3>. QED
      BY <3>4, <3>6
  <2>3. CASE c # b /\ ~At(c, "write")
    <3>1. build'[c] = build[c]
      BY <1>2, <2>3
    <3>. QED
      BY <1>1, <1>6, <3>1, BuildTyped, BuildKept DEF MapInv
  <2>. QED
    BY <2>1, <2>2, <2>3
<1>7. Unstaged(index, work)' \subseteq soiled'
  BY <1>1 DEF MapInv, Unstaged, project, Running
<1>8. Formed'
  BY <1>1, <1>2, <1>6 DEF Formed, project
<1>. QED
  BY <1>1, <1>6, <1>7, <1>8 DEF MapInv

LEMMA SaveWriteKeeps ==
    ASSUME Formed, MapInv, NEW b \in Builds, SaveWrite(b)
    PROVE  Formed' /\ MapInv'
<1>. DEFINE mp == Ranked(build[b])
            norefs == [f \in Files |-> None]
            r == [build[b] EXCEPT !.step = "done", !.refs = norefs,
                           !.cached = NoCache, !.torn = FALSE, !.map = mp]
<1>1. /\ build[b] # None /\ build[b].step = "write"
      /\ UNCHANGED <<project, soiled>>
      /\ cache' = build[b].fresh \/ cache' = None
      /\ build' = [build EXCEPT ![b] = r]
  BY DEF SaveWrite, At
<1>2. build[b] \in BuildWith({build[b].map}) /\ BuildInv(build[b])
  BY <1>1, RunningBuild
<1>3. norefs \in [Files -> Blob \cup {None}] /\ NoCache \in Cache
  BY DEF NoCache, Cache
<1>. HIDE DEF mp, norefs
<1>4. r \in BuildWith({r.map})
  BY <1>2, <1>3 DEF BuildWith, Steps
<1>5. /\ r.step = "done" /\ r.cached = NoCache /\ r.fresh = build[b].fresh
      /\ r.changed = build[b].changed /\ r.dirty = build[b].dirty
      /\ r.seen = build[b].seen /\ r.told = build[b].told /\ r.todo = build[b].todo
  BY <1>2 DEF BuildWith
<1>. HIDE DEF r
<1>6. soiled' = soiled /\ soiled' \subseteq Files
  BY <1>1 DEF Formed
<1>7. cache' \in Cache \cup {None} /\ (cache' # None => Analysed(cache)')
  BY <1>1, <1>2, <1>6 DEF BuildWith, BuildInv, Analysed
<1>8. BuildInv(build[b])'
  <2>1. build'[b] = r
    BY <1>1, OneBuild
  <2>2. Analysed(build[b].cached)' /\ Analysed(build[b].fresh)' /\ ToldInv(build[b])'
    BY <1>2, <1>5, <1>6, <2>1 DEF BuildInv, Analysed, ToldInv, NoCache
  <2>3. FreshInv(build[b])' /\ build[b].todo = {}
    BY <1>1, <1>2, <1>5, <1>6, <2>1 DEF BuildInv, FreshInv
  <2>. QED
    BY <1>5, <2>1, <2>2, <2>3 DEF BuildInv
<1>9. Formed'
  BY <1>1, <1>4, <1>6, <1>7, FormedStep
<1>. QED
  BY <1>1, <1>7, <1>8, <1>9, StepKeeps

LEMMA CrashKeeps ==
    ASSUME Formed, MapInv, NEW b \in Builds, Crash(b)
    PROVE  Formed' /\ MapInv'
<1>1. /\ build[b] # None /\ build[b].step # "done"
      /\ build' = [build EXCEPT ![b] = None]
      /\ UNCHANGED <<project, cache, soiled>>
  BY DEF Crash, Running
<1>2. cache' \in Cache \cup {None} /\ soiled' \subseteq Files
      /\ (cache' # None => Analysed(cache)')
  BY <1>1 DEF Formed, MapInv, Analysed
<1>3. build'[b] = None
  BY <1>1, OneBuild
<1>4. Formed'
  BY <1>1, <1>2, FormedStep
<1>. QED
  BY <1>1, <1>2, <1>3, <1>4, StepKeeps

(* The inductive invariant: under one roof what the index lists, what the  *)
(* worktree holds, what the builds have seen and what the cache keeps      *)
(* (map.go:88-190).                                                        *)
THEOREM MapInvariant == Spec => [](Formed /\ MapInv)
<1>1. Init => Formed /\ MapInv
  <2>. SUFFICES ASSUME Init PROVE Formed /\ MapInv
    OBVIOUS
  <2>1. Running = {} /\ \A b \in Builds : build[b] = None
    BY DEF Init, Running
  <2>2. {head, index, work} \subseteq [Files -> Content]
    BY HeadAssumption DEF Init, Content
  <2>. QED
    BY <2>1, <2>2 DEF Init, Formed, MapInv
<1>2. Formed /\ MapInv /\ [Next]_vars => (Formed /\ MapInv)'
  <2>. SUFFICES ASSUME Formed, MapInv, [Next]_vars PROVE Formed' /\ MapInv'
    OBVIOUS
  <2>1. ASSUME NEW b \in Builds, Step(b) PROVE Formed' /\ MapInv'
    <3>1. ASSUME \/ Start(b, TRUE, {})
                 \/ \E named \in SUBSET Edited : Start(b, FALSE, named)
          PROVE  Formed' /\ MapInv'
      BY <3>1, StartKeeps, EventAssumption
    <3>. QED
      BY <2>1, <3>1, SnapshotKeeps, FileRefsKeeps, LoadCacheKeeps, FilesKeep,
         SaveCreateKeeps, SaveWriteKeeps, CrashKeeps DEF Step
  <2>2. CASE UNCHANGED vars
    <3>1. UNCHANGED <<project, soiled, build, cache>>
      BY <2>2 DEF vars, project
    <3>2. Formed'
      BY <3>1 DEF Formed, project
    <3>3. \A b \in Builds : build'[b] # None => BuildInv(build[b])'
      BY <3>1, BuildKept DEF MapInv
    <3>. QED
      BY <3>1, <3>2, <3>3 DEF MapInv, Analysed, Running, Unstaged, project
  <2>. QED
    BY <2>1, <2>2, DeveloperKeeps DEF Next
<1>. QED
  BY <1>1, <1>2, PTL DEF Spec

(* README.md:130 "Dirty and untracked source files are reanalyzed.", for a *)
(* build that was told what changed, whatever else happens to the project, *)
(* the cache and the other builds (map.go:120).                            *)
THEOREM ChangedAreReanalyzed == Spec => []ChangedReanalyzed
<1>1. MapInv => ChangedReanalyzed
  BY DEF MapInv, BuildInv, ToldInv, ChangedReanalyzed, Done, At
<1>. QED
  BY <1>1, MapInvariant, PTL

(* ARCHITECTURE_V2.md:75: the map is right for files no build ever met     *)
(* with changes that were not staged, whoever else built, wrote the cache  *)
(* or died (map.go:110-134).                                               *)
THEOREM CleanAreRight == Spec => []CleanRight
<1>1. MapInv => CleanRight
  BY DEF MapInv, BuildInv, FreshInv, CleanRight, Done, At
<1>. QED
  BY <1>1, MapInvariant, PTL

-----------------------------------------------------------------------------
(* Sums over finite sets, and recursion over the naturals: what the proofs *)
(* about Rank and Select need of induction, through minimal members.       *)

\* A set of subsets of a finite set has a smallest member
LEMMA SmallestSet ==
    ASSUME NEW S, IsFiniteSet(S), NEW C, C \subseteq SUBSET S, C # {}
    PROVE  \E X \in C : \A Y \in C : Y \subseteq X => Y = X
<1>1. IsWellFoundedOn(StrictSubsetOrdering(S), SUBSET S)
  BY FS_StrictSubsetOrderingWellFounded, FS_FiniteSubsetsOfFinite
<1>2. PICK X \in C : \A Y \in C : ~(<<Y, X>> \in StrictSubsetOrdering(S))
  BY <1>1, WFMin
<1>. QED
  BY <1>2 DEF StrictSubsetOrdering

\* A set of numbers has a smallest member.
LEMMA SmallestNat ==
    ASSUME NEW C, C \subseteq Nat, C # {}
    PROVE  \E n \in C : \A m \in C : n <= m
<1>1. PICK n \in C : \A m \in C : ~(<<m, n>> \in OpToRel(<, Nat))
  BY NatLessThanWellFounded, WFMin
<1>2. \A m \in C : ~(m < n)
  BY <1>1 DEF OpToRel
<1>. QED
  BY <1>2

\* The element a sum takes first.
First(X) == CHOOSE x \in X : TRUE

\* The function the library's sum is defined by.
Sums(w, g, D) ==
    g = [X \in SUBSET D |-> IF X = {} THEN 0 ELSE w[First(X)] + g[X \ {First(X)}]]

\* It is an element.
LEMMA FirstIn == ASSUME NEW X, X # {} PROVE First(X) \in X
BY DEF First

\* There is one such function at most: two agree where both are defined.
LEMMA SumsAgree ==
    ASSUME NEW w, NEW D, IsFiniteSet(D), NEW g, Sums(w, g, D),
           NEW E \in SUBSET D, NEW h, Sums(w, h, E)
    PROVE  \A X \in SUBSET E : g[X] = h[X]
<1>. DEFINE Bad == {X \in SUBSET E : g[X] # h[X]}
<1>1. SUFFICES ASSUME Bad # {} PROVE FALSE
  OBVIOUS
<1>2. PICK X \in Bad : \A Y \in Bad : Y \subseteq X => Y = X
  <2>1. Bad \subseteq SUBSET D
    OBVIOUS
  <2>. HIDE DEF Bad
  <2>. QED BY <1>1, <2>1, SmallestSet
<1>3. X # {}
  <2>1. g[{}] = 0 /\ h[{}] = 0
    BY DEF Sums
  <2>. QED BY <2>1
<1>4. X \ {First(X)} \in SUBSET E /\ X \ {First(X)} # X
  BY <1>3, FirstIn
<1>5. g[X \ {First(X)}] = h[X \ {First(X)}]
  BY <1>2, <1>4
<1>6. g[X] = w[First(X)] + g[X \ {First(X)}]
  BY <1>3 DEF Sums
<1>7. h[X] = w[First(X)] + h[X \ {First(X)}]
  BY <1>3 DEF Sums
<1>. QED
  BY <1>5, <1>6, <1>7

\* And there is one, for every finite set.
LEMMA SumsExist ==
    ASSUME NEW w, NEW S, IsFiniteSet(S)
    PROVE  \E g : Sums(w, g, S)
<1>. DEFINE Bad == {D \in SUBSET S : ~\E g : Sums(w, g, D)}
<1>1. SUFFICES ASSUME Bad # {} PROVE FALSE
  <2>1. S \notin Bad
    BY <1>1
  <2>. QED BY <2>1
<1>2. PICK D \in Bad : \A Y \in Bad : Y \subseteq D => Y = D
  <2>1. Bad \subseteq SUBSET S
    OBVIOUS
  <2>. HIDE DEF Bad
  <2>. QED BY <1>1, <2>1, SmallestSet
<1>. DEFINE h(X) == CHOOSE g : Sums(w, g, X)
            v(X) == IF X = {} THEN 0 ELSE w[First(X)] + h(X \ {First(X)})[X \ {First(X)}]
            g0 == [X \in SUBSET D |-> v(X)]
<1>3. \A X \in SUBSET D : X # D => Sums(w, h(X), X)
  <2>. TAKE X \in SUBSET D
  <2>1. HAVE X # D
  <2>2. X \notin Bad /\ X \in SUBSET S
    BY <1>2, <2>1
  <2>3. \E g : Sums(w, g, X)
    BY <2>2
  <2>. QED BY <2>3
<1>4. \A X \in SUBSET D : X # D => h(X)[X] = v(X)
  <2>. SUFFICES ASSUME NEW X \in SUBSET D, X # D PROVE h(X)[X] = v(X)
    OBVIOUS
  <2>1. Sums(w, h(X), X)
    BY <1>3
  <2>2. CASE X = {}
    BY <2>1, <2>2 DEF Sums
  <2>3. CASE X # {}
    <3>. DEFINE Y == X \ {First(X)}
    <3>1. Y \in SUBSET X /\ Y \in SUBSET D /\ Y # D
      BY <2>3, FirstIn
    <3>2. Sums(w, h(Y), Y)
      BY <1>3, <3>1
    <3>3. IsFiniteSet(X)
      BY FS_Subset
    <3>. HIDE DEF h, Y
    <3>4. h(X)[Y] = h(Y)[Y]
      BY <2>1, <3>1, <3>2, <3>3, SumsAgree
    <3>5. h(X)[X] = w[First(X)] + h(X)[Y]
      BY <2>1, <2>3 DEF Sums, Y
    <3>. QED BY <2>3, <3>4, <3>5 DEF Y
  <2>. QED BY <2>2, <2>3
<1>. HIDE DEF h
<1>5. \A X \in SUBSET D : v(X) = IF X = {} THEN 0 ELSE w[First(X)] + g0[X \ {First(X)}]
  <2>. SUFFICES ASSUME NEW X \in SUBSET D, X # {}
                PROVE  v(X) = w[First(X)] + g0[X \ {First(X)}]
    OBVIOUS
  <2>. DEFINE Y == X \ {First(X)}
  <2>1. Y \in SUBSET D /\ Y # D
    BY FirstIn
  <2>2. g0[Y] = h(Y)[Y]
    BY <1>4, <2>1
  <2>. QED BY <2>2
<1>6. Sums(w, g0, D)
  <2>. HIDE DEF v
  <2>. QED BY <1>5 DEF Sums
<1>. QED
  BY <1>6

\* Every sum unfolds as the library defines it
LEMMA SumUnfolds ==
    ASSUME NEW w, NEW S, IsFiniteSet(S)
    PROVE  \E g : Sums(w, g, S) /\ g[S] = SumFunctionOnSet(w, S)
<1>. DEFINE iter == CHOOSE g : g = [X \in SUBSET S |->
                      IF X = {} THEN 0
                      ELSE w[CHOOSE x \in X : TRUE] + g[X \ {CHOOSE x \in X : TRUE}]]
<1>1. SumFunctionOnSet(w, S) = iter[S]
  BY DEF SumFunctionOnSet, FoldFunctionOnSet, MapThenFoldSet
<1>2. Sums(w, iter, S)
  <2>1. \E g : g = [X \in SUBSET S |->
                     IF X = {} THEN 0
                     ELSE w[CHOOSE x \in X : TRUE] + g[X \ {CHOOSE x \in X : TRUE}]]
    <3>1. PICK g : Sums(w, g, S)
      BY SumsExist
    <3>2. g = [X \in SUBSET S |->
                 IF X = {} THEN 0
                 ELSE w[CHOOSE x \in X : TRUE] + g[X \ {CHOOSE x \in X : TRUE}]]
      BY <3>1, Zenon DEF Sums, First
    <3>. QED BY <3>2, Zenon
  <2>2. iter = [X \in SUBSET S |->
                  IF X = {} THEN 0
                  ELSE w[CHOOSE x \in X : TRUE] + iter[X \ {CHOOSE x \in X : TRUE}]]
    BY <2>1, Zenon
  <2>. QED BY <2>2 DEF Sums, First
<1>. QED
  BY <1>1, <1>2

LEMMA SumEmpty == ASSUME NEW w PROVE SumFunctionOnSet(w, {}) = 0
BY SumUnfolds, FS_EmptySet DEF Sums

\* A sum is the term of the element chosen first and the sum of the others.
LEMMA SumFirst ==
    ASSUME NEW w, NEW S, IsFiniteSet(S), S # {}
    PROVE  SumFunctionOnSet(w, S) = w[First(S)] + SumFunctionOnSet(w, S \ {First(S)})
<1>. DEFINE T == S \ {First(S)}
<1>1. PICK g : Sums(w, g, S) /\ g[S] = SumFunctionOnSet(w, S)
  BY SumUnfolds
<1>2. T \in SUBSET S /\ IsFiniteSet(T)
  BY FS_Subset
<1>3. PICK h : Sums(w, h, T) /\ h[T] = SumFunctionOnSet(w, T)
  BY <1>2, SumUnfolds
<1>4. g[T] = h[T]
  <2>. HIDE DEF T
  <2>1. \A X \in SUBSET T : g[X] = h[X]
    BY <1>1, <1>2, <1>3, SumsAgree
  <2>. QED BY <2>1
<1>5. g[S] = w[First(S)] + g[T]
  BY <1>1 DEF Sums
<1>. QED
  BY <1>1, <1>3, <1>4, <1>5

\* A sum of numbers is a number.
LEMMA SumNat ==
    ASSUME NEW S, IsFiniteSet(S), NEW w, \A x \in S : w[x] \in Nat
    PROVE  SumFunctionOnSet(w, S) \in Nat
<1>. DEFINE Bad == {X \in SUBSET S : SumFunctionOnSet(w, X) \notin Nat}
<1>1. SUFFICES ASSUME Bad # {} PROVE FALSE
  OBVIOUS
<1>2. PICK X \in Bad : \A Y \in Bad : Y \subseteq X => Y = X
  <2>1. Bad \subseteq SUBSET S
    OBVIOUS
  <2>. HIDE DEF Bad
  <2>. QED BY <1>1, <2>1, SmallestSet
<1>3. X # {}
  BY SumEmpty
<1>. DEFINE Y == X \ {First(X)}
<1>4. First(X) \in X
  BY <1>3, FirstIn
<1>5. SumFunctionOnSet(w, Y) \in Nat
  BY <1>2, <1>4
<1>6. IsFiniteSet(X)
  BY FS_Subset
<1>7. SumFunctionOnSet(w, X) = w[First(X)] + SumFunctionOnSet(w, Y)
  BY <1>3, <1>6, SumFirst
<1>8. w[First(X)] \in Nat
  BY <1>4
<1>. HIDE DEF Y
<1>. QED
  BY <1>5, <1>7, <1>8

\* The order of summation does not matter
LEMMA SumRemove ==
    ASSUME NEW S, IsFiniteSet(S), NEW w, \A x \in S : w[x] \in Nat, NEW x \in S
    PROVE  SumFunctionOnSet(w, S) = w[x] + SumFunctionOnSet(w, S \ {x})
<1>. DEFINE Sum(X) == SumFunctionOnSet(w, X)
            Bad == {X \in SUBSET S : \E y \in X : Sum(X) # w[y] + Sum(X \ {y})}
<1>1. SUFFICES ASSUME Bad # {} PROVE FALSE
  <2>1. S \notin Bad
    BY <1>1
  <2>. QED BY <2>1
<1>2. PICK X \in Bad : \A Y \in Bad : Y \subseteq X => Y = X
  <2>1. Bad \subseteq SUBSET S
    OBVIOUS
  <2>. HIDE DEF Bad
  <2>. QED BY <1>1, <2>1, SmallestSet
<1>3. PICK y \in X : Sum(X) # w[y] + Sum(X \ {y})
  OBVIOUS
<1>. DEFINE z == First(X)
<1>4. z \in X
  BY FirstIn
<1>5. \A Y \in SUBSET X : IsFiniteSet(Y) /\ Sum(Y) \in Nat
  <2>. SUFFICES ASSUME NEW Y \in SUBSET X PROVE IsFiniteSet(Y) /\ Sum(Y) \in Nat
    OBVIOUS
  <2>1. IsFiniteSet(Y)
    BY FS_Subset
  <2>. QED BY <2>1, SumNat
<1>. HIDE DEF Sum
<1>6. Sum(X) = w[z] + Sum(X \ {z})
  BY <1>4, <1>5, SumFirst DEF Sum
<1>. HIDE DEF z
<1>7. y # z
  BY <1>3, <1>6
<1>8. X \ {y} \notin Bad /\ X \ {z} \notin Bad
  BY <1>2, <1>4
<1>9. Sum(X \ {z}) = w[y] + Sum((X \ {z}) \ {y})
  BY <1>4, <1>7, <1>8
<1>10. Sum(X \ {y}) = w[z] + Sum((X \ {y}) \ {z})
  BY <1>4, <1>7, <1>8
<1>11. (X \ {z}) \ {y} = (X \ {y}) \ {z}
  OBVIOUS
<1>12. w[y] \in Nat /\ w[z] \in Nat /\ Sum((X \ {y}) \ {z}) \in Nat
  BY <1>4, <1>5
<1>. HIDE DEF Bad
<1>. QED
  BY <1>3, <1>6, <1>9, <1>10, <1>11, <1>12

Iterates(g, n, base, F) == g[0] = base /\ \A k \in 1..n : g[k] = F[k][g[k-1]]

\* A recursive function over 0..n has values: those of its iterations.
LEMMA NatRecursion ==
    ASSUME NEW n \in Nat, NEW V, NEW base \in V, NEW F \in [1..n -> [V -> V]]
    PROVE  \E g \in [0..n -> V] : Iterates(g, n, base, F)
<1>. DEFINE Good(m) ==
       \E g \in [0..m -> V] : Iterates(g, m, base, F)
<1>. DEFINE Bad == {m \in 0..n : ~Good(m)}
<1>1. SUFFICES ASSUME Bad # {} PROVE FALSE
  <2>1. n \notin Bad /\ n \in 0..n
    BY <1>1
  <2>. QED BY <2>1
<1>2. PICK m \in Bad : \A k \in Bad : m <= k
  <2>1. Bad \subseteq Nat
    OBVIOUS
  <2>. HIDE DEF Bad
  <2>. QED BY <1>1, <2>1, SmallestNat
<1>3. m # 0
  <2>1. Good(0)
    <3>. DEFINE g == [k \in 0..0 |-> base]
    <3>1. g \in [0..0 -> V] /\ g[0] = base /\ 1..0 = {}
      OBVIOUS
    <3>. QED BY <3>1 DEF Iterates
  <2>. QED BY <2>1
<1>4. m - 1 \in 0..n /\ m - 1 \notin Bad
  BY <1>2, <1>3
<1>5. PICK g \in [0..m-1 -> V] : Iterates(g, m - 1, base, F)
  BY <1>4
<1>. DEFINE h == [k \in 0..m |-> IF k = m THEN F[m][g[m-1]] ELSE g[k]]
<1>6. h \in [0..m -> V] /\ h[0] = base
  BY <1>3, <1>5 DEF Iterates
<1>7. \A k \in 1..m : h[k] = F[k][h[k-1]]
  <2>. SUFFICES ASSUME NEW k \in 1..m PROVE h[k] = F[k][h[k-1]]
    OBVIOUS
  <2>1. k - 1 \in 0..m /\ k - 1 # m /\ h[k-1] = g[k-1]
    OBVIOUS
  <2>2. CASE k = m
    BY <2>1, <2>2
  <2>3. CASE k # m
    BY <1>5, <2>1, <2>3 DEF Iterates
  <2>. QED BY <2>2, <2>3
<1>8. Good(m)
  BY <1>6, <1>7 DEF Iterates
<1>. QED
  BY <1>8

-----------------------------------------------------------------------------
IsNodes(nodes) == DOMAIN nodes \subseteq Files /\ nodes \in [DOMAIN nodes -> Contents]

\* Files are numbers, and finitely many.
LEMMA NodesFinite ==
    ASSUME NEW N \in SUBSET Files
    PROVE  IsFiniteSet(N) /\ N \subseteq Nat /\ Cardinality(N) \in Nat
BY FileAssumption, FS_Subset, FS_CardinalityType

\* Before is a strict order in which any two files are comparable
LEMMA BeforeOrders ==
    ASSUME NEW N \in SUBSET Files, NEW score \in [Files -> Nat]
    PROVE  /\ \A f \in N : ~Before(score, f, f)
           /\ \A f, g, h \in N : Before(score, f, g) /\ Before(score, g, h) => Before(score, f, h)
           /\ \A f, g \in N : f # g => Before(score, f, g) \/ Before(score, g, f)
<1>1. \A f \in N : f \in Nat /\ score[f] \in Nat
  BY FileAssumption
<1>. QED
  BY <1>1 DEF Before

\* Order lists every node, and in the order of Before.
LEMMA OrderRanks ==
    ASSUME NEW nodes, IsNodes(nodes), NEW score \in [Files -> Nat],
           NEW n, n = Cardinality(DOMAIN nodes)
    PROVE  /\ n \in Nat
           /\ Order(nodes, score) \in [1..n -> DOMAIN nodes]
           /\ \A f \in DOMAIN nodes : \E k \in 1..n : Order(nodes, score)[k] = f
           /\ \A i, j \in 1..n :
                i < j => Before(score, Order(nodes, score)[i], Order(nodes, score)[j])
<1>. DEFINE N == DOMAIN nodes
            pos == [f \in N |-> Cardinality(Ahead(f, nodes, score))]
            order == Order(nodes, score)
<1>1. N \in SUBSET Files /\ IsFiniteSet(N) /\ n \in Nat
  BY NodesFinite DEF IsNodes
<1>2. \A f \in N : IsFiniteSet(Ahead(f, nodes, score)) /\ pos[f] \in 0..n-1
  <2>. SUFFICES ASSUME NEW f \in N
                PROVE  IsFiniteSet(Ahead(f, nodes, score)) /\ pos[f] \in 0..n-1
    OBVIOUS
  <2>1. Ahead(f, nodes, score) \in SUBSET (N \ {f})
    BY <1>1, BeforeOrders DEF Ahead
  <2>2. IsFiniteSet(N \ {f}) /\ Cardinality(N \ {f}) = n - 1
    BY <1>1, FS_RemoveElement
  <2>3. IsFiniteSet(Ahead(f, nodes, score)) /\ Cardinality(Ahead(f, nodes, score)) <= n - 1
    BY <2>1, <2>2, FS_Subset
  <2>4. Cardinality(Ahead(f, nodes, score)) \in Nat
    BY <2>3, FS_CardinalityType
  <2>. QED BY <1>1, <2>3, <2>4
<1>3. \A f, g \in N : Before(score, f, g) => pos[f] < pos[g]
  <2>. SUFFICES ASSUME NEW f \in N, NEW g \in N, Before(score, f, g)
                PROVE  pos[f] < pos[g]
    OBVIOUS
  <2>1. /\ Ahead(f, nodes, score) \in SUBSET Ahead(g, nodes, score)
        /\ f \in Ahead(g, nodes, score) /\ f \notin Ahead(f, nodes, score)
    BY <1>1, BeforeOrders DEF Ahead
  <2>2. /\ Cardinality(Ahead(f, nodes, score)) <= Cardinality(Ahead(g, nodes, score))
        /\ Cardinality(Ahead(f, nodes, score)) # Cardinality(Ahead(g, nodes, score))
    BY <1>2, <2>1, FS_Subset
  <2>3. pos[f] <= pos[g] /\ pos[f] # pos[g]
    BY <2>2
  <2>. QED BY <1>2, <2>3
<1>. HIDE DEF pos
<1>4. \A f, g \in N : pos[f] = pos[g] => f = g
  <2>. SUFFICES ASSUME NEW f \in N, NEW g \in N, f # g, pos[f] = pos[g] PROVE FALSE
    OBVIOUS
  <2>1. Before(score, f, g) \/ Before(score, g, f)
    BY <1>1, BeforeOrders
  <2>2. pos[f] \in Int
    BY <1>2
  <2>. QED BY <1>3, <2>1, <2>2
<1>5. \A k \in 1..n : \E f \in N : pos[f] = k - 1
  <2>. DEFINE place == [f \in N |-> pos[f] + 1]
  <2>1. place \in [N -> 1..n]
    BY <1>1, <1>2
  <2>2. \A f, g \in N : place[f] = place[g] => f = g
    <3>. SUFFICES ASSUME NEW f \in N, NEW g \in N, place[f] = place[g] PROVE pos[f] = pos[g]
      BY <1>4
    <3>. QED BY <1>2
  <2>3. place \in Injection(N, 1..n)
    BY <2>1, <2>2 DEF Injection, IsInjective
  <2>4. IsFiniteSet(1..n) /\ Cardinality(1..n) = n
    BY <1>1, FS_Interval
  <2>5. place \in Surjection(N, 1..n)
    <3>. HIDE DEF place
    <3>. QED BY <2>3, <2>4, FS_Injection
  <2>6. \A k \in 1..n : \E f \in N : place[f] = k
    BY <2>5 DEF Surjection
  <2>. QED
    <3>. SUFFICES ASSUME NEW k \in 1..n PROVE \E f \in N : pos[f] = k - 1
      OBVIOUS
    <3>1. PICK f \in N : place[f] = k
      BY <2>6
    <3>. QED BY <1>2, <3>1
<1>6. \A k \in 1..n : \E f \in N : Cardinality(Ahead(f, nodes, score)) = k - 1
  <2>. \A f \in N : Cardinality(Ahead(f, nodes, score)) = pos[f]
    BY DEF pos
  <2>. QED BY <1>5
<1>7. /\ order = [k \in 1..n |-> order[k]]
      /\ \A k \in 1..n : order[k] \in N /\ pos[order[k]] = k - 1
  <2>1. order = [k \in 1..n |-> CHOOSE f \in N : Cardinality(Ahead(f, nodes, score)) = k - 1]
    BY Zenon DEF Order
  <2>. HIDE DEF order
  <2>2. ASSUME NEW k \in 1..n
        PROVE  order[k] \in N /\ Cardinality(Ahead(order[k], nodes, score)) = k - 1
    <3>1. order[k] = CHOOSE f \in N : Cardinality(Ahead(f, nodes, score)) = k - 1
      BY <2>1
    <3>2. \E f \in N : Cardinality(Ahead(f, nodes, score)) = k - 1
      BY <1>6
    <3>. QED BY <3>1, <3>2, Zenon
  <2>. QED BY <2>1, <2>2 DEF pos
<1>. HIDE DEF order
<1>8. \A f \in N : \E k \in 1..n : order[k] = f
  <2>. SUFFICES ASSUME NEW f \in N PROVE \E k \in 1..n : order[k] = f
    OBVIOUS
  <2>1. PICK k \in 1..n : k - 1 = pos[f]
    <3>1. \A p \in 0..n-1 : p + 1 \in 1..n /\ (p + 1) - 1 = p
      BY <1>1
    <3>. QED BY <1>2, <3>1
  <2>2. order[k] = f
    BY <1>4, <1>7, <2>1
  <2>. QED BY <2>2
<1>9. \A i, j \in 1..n : i < j => Before(score, order[i], order[j])
  <2>. SUFFICES ASSUME NEW i \in 1..n, NEW j \in 1..n, i < j
                PROVE  Before(score, order[i], order[j])
    OBVIOUS
  <2>1. pos[order[i]] < pos[order[j]] /\ pos[order[i]] \in Int /\ pos[order[j]] \in Int
    BY <1>7
  <2>2. order[i] # order[j] /\ ~Before(score, order[j], order[i])
    BY <1>3, <1>7, <2>1
  <2>. QED BY <1>1, <1>7, <2>2, BeforeOrders
<1>10. order \in [1..n -> N]
  BY <1>7
<1>. QED
  BY <1>1, <1>8, <1>9, <1>10 DEF order

EmptyMap(score) == [score |-> score, entries |-> <<>>, used |-> 0]

\* A map with one more entry is a map.
LEMMA TakeTyped ==
    ASSUME NEW m \in Map, NEW f \in Files
    PROVE  Take(m, f) \in Map
<1>1. m.entries \in Seq(Files) /\ m.used \in Nat
  BY DEF Map
<1>2. Append(m.entries, f) \in Seq(Files) /\ m.used + Cost[f] \in Nat
  BY <1>1, CostAssumption
<1>3. \A e \in Seq(Files), u \in Nat : [m EXCEPT !.entries = e, !.used = u] \in Map
  BY DEF Map
<1>. QED
  BY <1>2, <1>3 DEF Take

\* What Select computes: it takes the files one by one, in their order
LEMMA Taken ==
    ASSUME NEW nodes, IsNodes(nodes), NEW score \in [Files -> Nat],
           NEW n, n = Cardinality(DOMAIN nodes)
    PROVE  \E taken \in [0..n -> Map] :
              /\ taken[0] = EmptyMap(score)
              /\ \A k \in 1..n : taken[k] = Take(taken[k-1], Order(nodes, score)[k])
              /\ Select(nodes, score) = taken[n]
<1>. DEFINE order == Order(nodes, score)
            F == [k \in 1..n |-> [m \in Map |-> Take(m, order[k])]]
            steps(t) == [k \in 0..n |-> IF k = 0 THEN EmptyMap(score) ELSE Take(t[k-1], order[k])]
            iter == CHOOSE t : t = steps(t)
<1>1. n \in Nat /\ order \in [1..n -> Files]
  BY OrderRanks DEF IsNodes
<1>2. EmptyMap(score) \in Map
  BY DEF EmptyMap, Map
<1>3. Select(nodes, score) = iter[n]
  BY DEF Select, EmptyMap
<1>. HIDE DEF order
<1>4. F \in [1..n -> [Map -> Map]]
  BY <1>1, TakeTyped
<1>5. PICK g \in [0..n -> Map] :
         g[0] = EmptyMap(score) /\ \A k \in 1..n : g[k] = F[k][g[k-1]]
  <2>. HIDE DEF F
  <2>1. \E g \in [0..n -> Map] :
          g[0] = EmptyMap(score) /\ \A k \in 1..n : g[k] = F[k][g[k-1]]
    <3>. DEFINE V == Map
                base == EmptyMap(score)
    <3>1. n \in Nat /\ base \in V /\ F \in [1..n -> [V -> V]]
      BY <1>1, <1>2, <1>4
    <3>. HIDE DEF V, base
    <3>2. \E g \in [0..n -> V] : Iterates(g, n, base, F)
      BY <3>1, NatRecursion
    <3>. QED BY <3>2 DEF V, base, Iterates
  <2>. QED BY <2>1
<1>6. \A k \in 1..n : g[k] = Take(g[k-1], order[k])
  <2>. SUFFICES ASSUME NEW k \in 1..n PROVE g[k] = Take(g[k-1], order[k])
    OBVIOUS
  <2>1. k - 1 \in 0..n
    BY <1>1
  <2>2. g[k-1] \in Map
    BY <1>5, <2>1
  <2>. QED BY <1>5, <2>2
<1>7. g = steps(g)
  <2>1. \A k \in 0..n : k = 0 \/ k \in 1..n
    BY <1>1
  <2>. QED BY <1>5, <1>6, <2>1
<1>8. iter = steps(iter)
  BY <1>7, Zenon
<1>. HIDE DEF iter
<1>9. /\ iter = [k \in 0..n |-> iter[k]] /\ iter[0] = EmptyMap(score)
      /\ \A k \in 1..n : iter[k] = Take(iter[k-1], order[k])
  <2>1. 0 \in 0..n /\ \A k \in 1..n : k \in 0..n /\ k # 0
    BY <1>1
  <2>. QED BY <1>8, <2>1
<1>10. iter \in [0..n -> Map]
  <2>. DEFINE Bad == {k \in 0..n : iter[k] \notin Map}
  <2>1. SUFFICES ASSUME Bad # {} PROVE FALSE
    BY <1>9
  <2>2. PICK m \in Bad : \A k \in Bad : m <= k
    <3>1. Bad \subseteq Nat
      OBVIOUS
    <3>. HIDE DEF Bad
    <3>. QED BY <2>1, <3>1, SmallestNat
  <2>3. m \in 1..n /\ m - 1 \in 0..n
    BY <1>1, <1>2, <1>9
  <2>4. iter[m-1] \in Map
    BY <2>2, <2>3
  <2>. QED BY <1>1, <1>9, <2>3, <2>4, TakeTyped
<1>. QED
  BY <1>3, <1>9, <1>10 DEF order

\* What the entries of a map are after the first k files
Chosen(order, score, m, k) ==
    /\ m \in Map /\ m.score = score
    /\ ToSet(m.entries) \subseteq {order[i] : i \in 1..k}
    /\ SumFunctionOnSet(Cost, ToSet(m.entries)) = m.used
    /\ m.used <= TokenBudget
    /\ \A i, j \in DOMAIN m.entries :
         i < j => Before(score, m.entries[i], m.entries[j])
    /\ Len(m.entries) < MaxEntries =>
         \A i \in 1..k : order[i] \in ToSet(m.entries) \/ m.used + Cost[order[i]] > TokenBudget

\* The pass over the files preserves what it has established so far.
LEMMA TakeKeeps ==
    ASSUME NEW n \in Nat, NEW order \in [1..n -> Files], NEW score \in [Files -> Nat],
           \A i, j \in 1..n : i < j => Before(score, order[i], order[j]),
           NEW k \in 1..n, NEW m, Chosen(order, score, m, k - 1)
    PROVE  Chosen(order, score, Take(m, order[k]), k)
<1>. DEFINE f == order[k]
            e == m.entries
<1>1. /\ m \in Map /\ e \in Seq(Files) /\ m.used \in Nat /\ f \in Files
      /\ Cost[f] \in Nat /\ TokenBudget \in Nat /\ MaxEntries \in Nat
  BY CostAssumption DEF Chosen, Map
<1>2. k - 1 \in Nat /\ \A i \in 1..k : i \in 1..n /\ (i \in 1..k-1 \/ i = k)
  OBVIOUS
<1>3. ToSet(e) \subseteq {order[i] : i \in 1..k}
  BY <1>2 DEF Chosen
<1>4. CASE Len(e) = MaxEntries
  <2>1. Take(m, f) = m
    BY <1>4 DEF Take
  <2>. QED BY <1>1, <1>3, <1>4, <2>1 DEF Chosen
<1>5. CASE Len(e) # MaxEntries /\ m.used + Cost[f] > TokenBudget
  <2>1. Take(m, f) = m
    BY <1>5 DEF Take
  <2>2. Len(e) < MaxEntries =>
           \A i \in 1..k : order[i] \in ToSet(e) \/ m.used + Cost[order[i]] > TokenBudget
    BY <1>2, <1>5 DEF Chosen
  <2>. QED BY <1>3, <2>1, <2>2 DEF Chosen
<1>6. CASE Len(e) # MaxEntries /\ m.used + Cost[f] <= TokenBudget
  <2>. DEFINE t == Take(m, f)
              e2 == Append(e, f)
  <2>1. t \in Map
    BY <1>1, TakeTyped
  <2>2. t.entries = e2 /\ t.used = m.used + Cost[f] /\ t.score = score
    BY <1>1, <1>6 DEF Take, Map, Chosen
  <2>. DEFINE l == Len(e)
  <2>3. /\ l \in Nat /\ DOMAIN e = 1..l /\ DOMAIN e2 = 1..l+1 /\ e2[l+1] = f
         /\ \A i \in 1..l : e2[i] = e[i]
    BY <1>1
  <2>4. \A i \in 1..l+1 : i \in 1..l \/ i = l+1
    BY <2>3
  <2>5. ToSet(e2) = ToSet(e) \cup {f}
    <3>. HIDE DEF e, e2, l, f
    <3>. QED BY <2>3, <2>4 DEF ToSet
  <2>6. \A g \in ToSet(e) : Before(score, g, f)
    <3>. SUFFICES ASSUME NEW g \in ToSet(e) PROVE Before(score, g, f)
      OBVIOUS
    <3>1. PICK i \in 1..k-1 : g = order[i]
      BY DEF Chosen
    <3>2. i \in 1..n /\ i < k
      OBVIOUS
    <3>. QED BY <3>1, <3>2
  <2>7. f \notin ToSet(e)
    BY <1>1, <2>6, BeforeOrders
  <2>8. SumFunctionOnSet(Cost, ToSet(e2)) = t.used
    <3>1. ToSet(e) \in SUBSET Files
      BY <1>1 DEF ToSet
    <3>2. IsFiniteSet(ToSet(e2)) /\ ToSet(e2) \in SUBSET Files
      BY <1>1, <2>5, <3>1, NodesFinite
    <3>3. \A x \in ToSet(e2) : Cost[x] \in Nat
      BY <3>2, CostAssumption
    <3>4. f \in ToSet(e2) /\ ToSet(e2) \ {f} = ToSet(e)
      BY <2>5, <2>7
    <3>5. SumFunctionOnSet(Cost, ToSet(e2)) = Cost[f] + SumFunctionOnSet(Cost, ToSet(e))
      BY <3>2, <3>3, <3>4, SumRemove
    <3>6. SumFunctionOnSet(Cost, ToSet(e)) = m.used
      BY DEF Chosen
    <3>. QED BY <1>1, <2>2, <3>5, <3>6
  <2>9. \A i, j \in DOMAIN e2 : i < j => Before(score, e2[i], e2[j])
    <3>. SUFFICES ASSUME NEW i \in DOMAIN e2, NEW j \in DOMAIN e2, i < j
                  PROVE  Before(score, e2[i], e2[j])
      OBVIOUS
    <3>1. i \in DOMAIN e /\ e2[i] = e[i] /\ (j \in DOMAIN e => e2[j] = e[j])
      BY <1>1
    <3>2. CASE j \in DOMAIN e
      BY <3>1, <3>2 DEF Chosen
    <3>3. CASE j \notin DOMAIN e
      <4>1. e2[j] = f
        BY <2>3, <2>4, <3>3
      <4>2. e[i] \in ToSet(e)
        BY <3>1 DEF ToSet
      <4>. QED BY <2>6, <3>1, <4>1, <4>2
    <3>. QED BY <3>2, <3>3
  <2>10. Len(e2) < MaxEntries =>
           \A i \in 1..k : order[i] \in ToSet(e2) \/ t.used + Cost[order[i]] > TokenBudget
    <3>. SUFFICES ASSUME Len(e2) < MaxEntries, NEW i \in 1..k
                  PROVE  order[i] \in ToSet(e2) \/ t.used + Cost[order[i]] > TokenBudget
      OBVIOUS
    <3>1. Len(e) < MaxEntries
      BY <1>1
    <3>2. CASE i = k
      BY <2>5, <3>2
    <3>3. CASE i \in 1..k-1
      <4>1. order[i] \in ToSet(e) \/ m.used + Cost[order[i]] > TokenBudget
        BY <3>1, <3>3 DEF Chosen
      <4>2. Cost[order[i]] \in Nat
        BY <1>2, CostAssumption
      <4>. QED BY <1>1, <2>2, <2>5, <4>1, <4>2
    <3>. QED BY <1>2, <3>2, <3>3
  <2>11. ToSet(e2) \subseteq {order[i] : i \in 1..k}
    BY <1>3, <2>5
  <2>. HIDE DEF t, e2
  <2>12. t.used <= TokenBudget
    BY <1>6, <2>2
  <2>13. Chosen(order, score, t, k)
    BY <2>1, <2>2, <2>8, <2>9, <2>10, <2>11, <2>12 DEF Chosen
  <2>. QED BY <2>13 DEF t
<1>. QED
  BY <1>1, <1>4, <1>5, <1>6

\* So it holds of what Select computes, after all files.
LEMMA SelectChosen ==
    ASSUME NEW nodes, IsNodes(nodes), NEW score \in [Files -> Nat],
           NEW n, n = Cardinality(DOMAIN nodes)
    PROVE  Chosen(Order(nodes, score), score, Select(nodes, score), n)
<1>. DEFINE order == Order(nodes, score)
<1>1. /\ n \in Nat /\ order \in [1..n -> Files]
      /\ \A i, j \in 1..n : i < j => Before(score, order[i], order[j])
  BY OrderRanks DEF IsNodes
<1>. HIDE DEF order
<1>2. PICK taken \in [0..n -> Map] :
        /\ taken[0] = EmptyMap(score)
        /\ \A k \in 1..n : taken[k] = Take(taken[k-1], order[k])
        /\ Select(nodes, score) = taken[n]
  BY Taken DEF order
<1>. DEFINE Bad == {k \in 0..n : ~Chosen(order, score, taken[k], k)}
<1>3. SUFFICES ASSUME Bad # {} PROVE FALSE
  <2>1. n \notin Bad /\ n \in 0..n
    BY <1>1, <1>3
  <2>. QED BY <1>2, <2>1 DEF order
<1>4. PICK k \in Bad : \A i \in Bad : k <= i
  <2>1. Bad \subseteq Nat
    OBVIOUS
  <2>. HIDE DEF Bad
  <2>. QED BY <1>3, <2>1, SmallestNat
<1>5. Chosen(order, score, taken[0], 0)
  <2>1. taken[0] = [score |-> score, entries |-> <<>>, used |-> 0]
    BY <1>2 DEF EmptyMap
  <2>2. ToSet(taken[0].entries) = {} /\ DOMAIN taken[0].entries = {} /\ 1..0 = {}
    BY <2>1 DEF ToSet
  <2>3. taken[0] \in Map
    BY <1>1, <1>2
  <2>4. taken[0].score = score /\ taken[0].used = 0 /\ 0 <= TokenBudget
    BY <2>1, CostAssumption
  <2>5. SumFunctionOnSet(Cost, ToSet(taken[0].entries)) = taken[0].used
    BY <2>2, <2>4, SumEmpty
  <2>. QED BY <2>2, <2>3, <2>4, <2>5 DEF Chosen
<1>6. k \in 1..n /\ k - 1 \in 0..n /\ k - 1 \notin Bad
  BY <1>1, <1>4, <1>5
<1>7. Chosen(order, score, taken[k-1], k-1)
  BY <1>6
<1>8. Chosen(order, score, Take(taken[k-1], order[k]), k)
  BY <1>1, <1>6, <1>7, TakeKeeps
<1>. QED
  BY <1>2, <1>4, <1>6, <1>8

-----------------------------------------------------------------------------
\* A dependency is on files of the repository.
LEMMA ResolvedNodes ==
    ASSUME NEW nodes, IsNodes(nodes), NEW f \in DOMAIN nodes,
           NEW raw \in Imports[f][nodes[f]]
    PROVE  Resolve(raw, nodes) \subseteq DOMAIN nodes
<1>. DEFINE found == {i \in DOMAIN raw.paths : raw.paths[i] \in DOMAIN nodes}
<1>1. found \subseteq Nat
  <2>1. raw.paths \in Seq(Files)
    BY CostAssumption DEF IsNodes
  <2>. QED BY <2>1
<1>2. found # {} => Min(found) \in found
  <2>1. found # {} => \E x \in found : \A y \in found : x <= y
    BY <1>1, SmallestNat
  <2>. QED BY <2>1, Zenon DEF Min
<1>3. found # {} => raw.paths[Min(found)] \in DOMAIN nodes
  BY <1>2
<1>. QED
  BY <1>3 DEF Resolve

\* Neighbours are nodes, and one another's
LEMMA NearNodes ==
    ASSUME NEW nodes, IsNodes(nodes)
    PROVE  /\ Near(nodes) \in [DOMAIN nodes -> SUBSET DOMAIN nodes]
           /\ \A f, g \in DOMAIN nodes : g \in Near(nodes)[f] => f \in Near(nodes)[g]
<1>1. \A f \in DOMAIN nodes : Targets(f, nodes) \subseteq DOMAIN nodes
  BY ResolvedNodes DEF Targets
<1>. QED
  BY <1>1 DEF Near

\* A file has as many neighbours as there are files, or fewer.
LEMMA Degree ==
    ASSUME NEW nodes, IsNodes(nodes), NEW f \in DOMAIN nodes
    PROVE  /\ IsFiniteSet(Near(nodes)[f])
           /\ Cardinality(Near(nodes)[f]) \in 0..Cardinality(Files)
           /\ Cardinality(Near(nodes)[f]) = 0 <=> Near(nodes)[f] = {}
<1>1. Near(nodes)[f] \in SUBSET Files
  BY NearNodes DEF IsNodes
<1>. QED
  BY <1>1, FileAssumption, FS_Subset, FS_CardinalityType, FS_EmptySet

\* Seeds, what a file has by itself and shares are not negative.
LEMMA SeedNat ==
    ASSUME NEW nodes, IsNodes(nodes), NEW f \in DOMAIN nodes, NEW changed, NEW semantic
    PROVE  Seed(f, nodes, changed, semantic) \in Nat
<1>1. TaskScore[f][nodes[f]] \in Nat
  BY CostAssumption DEF IsNodes
<1>. QED
  BY <1>1 DEF Seed

\* A file with neighbours has more by itself than one without.
LEMMA OwnNat ==
    ASSUME NEW seed \in Nat, NEW degree \in 0..Cardinality(Files)
    PROVE  /\ Own(seed, degree) \in Nat
           /\ degree # 0 => Own(seed, degree) > Own(seed, 0)
<1>1. (60 * seed) \div 100 \in Nat
  OBVIOUS
<1>2. Cardinality(Files) \in Nat
  BY FileAssumption, FS_CardinalityType
<1>3. degree # 0 => Log1p[degree] \in Nat /\ Log1p[degree] >= 693
  BY <1>2, LogAssumption
<1>4. \A l \in Nat : l >= 693 => (8 * l) \div 100 \in Nat /\ (8 * l) \div 100 > 0
  OBVIOUS
<1>5. degree # 0 => (8 * Log1p[degree]) \div 100 \in Nat /\ (8 * Log1p[degree]) \div 100 > 0
  BY <1>3, <1>4
<1>. DEFINE own == (60 * seed) \div 100
            part == (8 * Log1p[degree]) \div 100
<1>6. Own(seed, 0) = own + 0 /\ Own(seed, degree) = own + (IF degree = 0 THEN 0 ELSE part)
  BY DEF Own
<1>7. own \in Nat /\ (degree # 0 => part \in Nat /\ part > 0)
  BY <1>1, <1>5
<1>. HIDE DEF own, part
<1>. QED
  BY <1>6, <1>7

\* Rounding down stays in the numbers.
LEMMA DivNat ==
    ASSUME NEW a \in Nat, NEW b \in Nat, b > 0
    PROVE  a \div b \in Nat
<1>1. a \div b \in Int
  OBVIOUS
<1>2. a \div b >= 0
  BY SMTT(30)
<1>. QED
  BY <1>1, <1>2

\* A share is a number, that of a file without neighbours too.
LEMMA ShareNat ==
    ASSUME NEW score \in Nat, NEW degree \in Nat
    PROVE  Share(score, degree) \in Nat
<1>1. CASE degree = 0
  BY <1>1 DEF Share
<1>2. CASE degree # 0
  <2>1. 32 * score \in Nat /\ 100 * degree \in Nat /\ 100 * degree > 0
    BY <1>2
  <2>2. (32 * score) \div (100 * degree) \in Nat
    BY <2>1, DivNat
  <2>. QED BY <1>2, <2>2 DEF Share
<1>. QED
  BY <1>1, <1>2

\* An iteration puts a file with neighbours before an equal one without.
LEMMA IterateNat ==
    ASSUME NEW nodes, IsNodes(nodes), NEW seed \in [DOMAIN nodes -> Nat],
           NEW last \in [DOMAIN nodes -> Nat]
    PROVE  /\ Iterate(last, seed, Near(nodes)) \in [DOMAIN nodes -> Nat]
           /\ \A f, g \in DOMAIN nodes :
                seed[f] = seed[g] /\ Near(nodes)[f] # {} /\ Near(nodes)[g] = {}
                => Iterate(last, seed, Near(nodes))[f] > Iterate(last, seed, Near(nodes))[g]
<1>. DEFINE near == Near(nodes)
            degree == [f \in DOMAIN nodes |-> Cardinality(near[f])]
            share == [g \in DOMAIN nodes |-> Share(last[g], degree[g])]
            got(f) == SumFunctionOnSet(share, near[f])
            own(f) == Own(seed[f], degree[f])
            next == Iterate(last, seed, near)
<1>1. near \in [DOMAIN nodes -> SUBSET DOMAIN nodes]
  BY NearNodes
<1>2. \A f \in DOMAIN nodes : degree[f] \in 0..Cardinality(Files) /\ degree[f] \in Nat
  BY Degree, FileAssumption, FS_CardinalityType
<1>3. \A g \in DOMAIN nodes : share[g] \in Nat
  <2>. HIDE DEF degree
  <2>. QED BY <1>2, ShareNat
<1>4. next = [f \in DOMAIN nodes |-> own(f) + got(f)]
  <2>1. DOMAIN near = DOMAIN nodes
    BY <1>1
  <2>. HIDE DEF near
  <2>. QED BY <2>1 DEF Iterate
<1>. HIDE DEF share, degree, next
<1>5. \A f \in DOMAIN nodes : got(f) \in Nat
  <2>. SUFFICES ASSUME NEW f \in DOMAIN nodes PROVE got(f) \in Nat
    OBVIOUS
  <2>1. IsFiniteSet(near[f]) /\ near[f] \subseteq DOMAIN nodes
    BY <1>1, Degree
  <2>. QED BY <1>3, <2>1, SumNat
<1>6. \A f \in DOMAIN nodes : own(f) \in Nat /\ (degree[f] # 0 => own(f) > Own(seed[f], 0))
  BY <1>2, OwnNat
<1>7. next \in [DOMAIN nodes -> Nat]
  <2>. HIDE DEF own, got
  <2>. QED BY <1>4, <1>5, <1>6
<1>8. ASSUME NEW f \in DOMAIN nodes, NEW g \in DOMAIN nodes, seed[f] = seed[g],
             near[f] # {}, near[g] = {}
      PROVE  next[f] > next[g]
  <2>1. degree[f] # 0 /\ degree[g] = 0
    BY <1>8, Degree DEF degree
  <2>2. got(g) = 0
    BY <1>8, SumEmpty
  <2>3. own(f) > own(g)
    BY <1>6, <1>8, <2>1
  <2>4. next[f] = own(f) + got(f) /\ next[g] = own(g) + got(g)
    BY <1>4
  <2>5. own(f) \in Nat /\ own(g) \in Nat /\ got(f) \in Nat
    BY <1>5, <1>6
  <2>. HIDE DEF own, got
  <2>. QED BY <2>2, <2>3, <2>4, <2>5
<1>. QED
  BY <1>7, <1>8 DEF next

\* What Rank computes: seven iterations from the seeds
LEMMA RankScores ==
    ASSUME NEW nodes, IsNodes(nodes), NEW changed, NEW semantic,
           NEW seed, seed = [f \in DOMAIN nodes |-> Seed(f, nodes, changed, semantic)]
    PROVE  \E last \in [DOMAIN nodes -> Nat] :
              Rank(nodes, changed, semantic) =
                [f \in Files |-> IF f \in DOMAIN nodes
                                 THEN Iterate(last, seed, Near(nodes))[f] ELSE 0]
<1>. DEFINE near == Near(nodes)
            V == [DOMAIN nodes -> Nat]
            F == [i \in 1..7 |-> [last \in V |-> Iterate(last, seed, near)]]
            steps(t) == [i \in 0..7 |-> IF i = 0 THEN seed ELSE Iterate(t[i-1], seed, near)]
            iter == CHOOSE t : t = steps(t)
<1>1. seed \in V
  BY SeedNat
<1>2. \A last \in V : Iterate(last, seed, near) \in V
  BY <1>1, IterateNat
<1>3. Rank(nodes, changed, semantic)
        = [f \in Files |-> IF f \in DOMAIN nodes THEN iter[7][f] ELSE 0]
  BY DEF Rank, Iterations
<1>. HIDE DEF near, V
<1>4. F \in [1..7 -> [V -> V]]
  BY <1>2
<1>5. PICK g \in [0..7 -> V] : Iterates(g, 7, seed, F)
  <2>. HIDE DEF F
  <2>. QED BY <1>1, <1>4, NatRecursion
<1>6. \A k \in 1..7 : g[k] = Iterate(g[k-1], seed, near)
  <2>. SUFFICES ASSUME NEW k \in 1..7 PROVE g[k] = Iterate(g[k-1], seed, near)
    OBVIOUS
  <2>1. k - 1 \in 0..7
    OBVIOUS
  <2>. QED BY <1>5, <2>1 DEF Iterates
<1>7. g = steps(g)
  <2>1. \A k \in 0..7 : k = 0 \/ k \in 1..7
    OBVIOUS
  <2>. QED BY <1>5, <1>6, <2>1 DEF Iterates
<1>8. iter = steps(iter)
  BY <1>7, Zenon
<1>. HIDE DEF iter
<1>9. /\ iter = [k \in 0..7 |-> iter[k]] /\ iter[0] = seed
      /\ \A k \in 1..7 : iter[k] = Iterate(iter[k-1], seed, near)
  <2>1. 0 \in 0..7 /\ \A k \in 1..7 : k \in 0..7 /\ k # 0
    OBVIOUS
  <2>. QED BY <1>8, <2>1
<1>10. iter[1] \in V /\ iter[2] \in V /\ iter[3] \in V
  <2>1. iter[1] = Iterate(iter[0], seed, near) /\ iter[2] = Iterate(iter[1], seed, near)
        /\ iter[3] = Iterate(iter[2], seed, near)
    BY <1>9
  <2>. QED BY <1>1, <1>2, <1>9, <2>1
<1>11. iter[4] \in V /\ iter[5] \in V /\ iter[6] \in V
  <2>1. iter[4] = Iterate(iter[3], seed, near) /\ iter[5] = Iterate(iter[4], seed, near)
        /\ iter[6] = Iterate(iter[5], seed, near)
    BY <1>9
  <2>. QED BY <1>2, <1>10, <2>1
<1>12. iter[7] = Iterate(iter[6], seed, near)
  BY <1>9
<1>. QED
  BY <1>3, <1>11, <1>12 DEF V, near

-----------------------------------------------------------------------------
(* The map of a build.                                                     *)

\* Every file has a rank.
LEMMA RankTyped ==
    ASSUME NEW nodes, IsNodes(nodes), NEW changed, NEW semantic
    PROVE  Rank(nodes, changed, semantic) \in [Files -> Nat]
<1>. DEFINE seed == [f \in DOMAIN nodes |-> Seed(f, nodes, changed, semantic)]
<1>1. /\ seed = [f \in DOMAIN nodes |-> Seed(f, nodes, changed, semantic)]
      /\ seed \in [DOMAIN nodes -> Nat]
  BY SeedNat
<1>. HIDE DEF seed
<1>2. PICK last \in [DOMAIN nodes -> Nat] :
         Rank(nodes, changed, semantic) =
           [f \in Files |-> IF f \in DOMAIN nodes
                            THEN Iterate(last, seed, Near(nodes))[f] ELSE 0]
  BY <1>1, RankScores
<1>3. Iterate(last, seed, Near(nodes)) \in [DOMAIN nodes -> Nat]
  BY <1>1, IterateNat
<1>. QED
  BY <1>2, <1>3

\* A dependency decides between files that are otherwise equal.
LEMMA RankPrefers ==
    ASSUME NEW nodes, IsNodes(nodes), NEW changed, NEW semantic,
           NEW f \in DOMAIN nodes, NEW g \in DOMAIN nodes,
           Seed(f, nodes, changed, semantic) = Seed(g, nodes, changed, semantic),
           Near(nodes)[f] # {}, Near(nodes)[g] = {}
    PROVE  Rank(nodes, changed, semantic)[f] > Rank(nodes, changed, semantic)[g]
<1>. DEFINE seed == [h \in DOMAIN nodes |-> Seed(h, nodes, changed, semantic)]
<1>1. /\ seed = [h \in DOMAIN nodes |-> Seed(h, nodes, changed, semantic)]
      /\ seed \in [DOMAIN nodes -> Nat] /\ seed[f] = seed[g]
  BY SeedNat
<1>. HIDE DEF seed
<1>2. PICK last \in [DOMAIN nodes -> Nat] :
         Rank(nodes, changed, semantic) =
           [h \in Files |-> IF h \in DOMAIN nodes
                            THEN Iterate(last, seed, Near(nodes))[h] ELSE 0]
  BY <1>1, RankScores
<1>3. f \in Files /\ g \in Files
  BY DEF IsNodes
<1>4. Iterate(last, seed, Near(nodes))[f] > Iterate(last, seed, Near(nodes))[g]
  BY <1>1, IterateNat
<1>. QED
  BY <1>2, <1>3, <1>4

\* What a build has analysed are nodes.
LEMMA FormedNodes ==
    ASSUME Formed, NEW b \in Builds, build[b] # None
    PROVE  IsNodes(Nodes(build[b]))
<1>1. build[b].fresh \in [Files -> Entry \cup {None}]
  BY BuildTyped DEF BuildWith, Cache
<1>2. \A f \in Files : build[b].fresh[f] # None => build[b].fresh[f].node \in Contents
  BY <1>1 DEF Entry
<1>. QED
  BY <1>2 DEF Nodes, IsNodes

\* What ranking makes of any build is a map.
LEMMA RankedTyped ==
    ASSUME Formed, NEW b \in Builds, build[b] # None
    PROVE  Ranked(build[b]) \in Map
<1>. DEFINE nodes == Nodes(build[b])
            score == Rank(nodes, build[b].changed, build[b].compile)
<1>1. IsNodes(nodes)
  BY FormedNodes
<1>. HIDE DEF nodes
<1>2. score \in [Files -> Nat]
  BY <1>1, RankTyped
<1>. HIDE DEF score
<1>3. Select(nodes, score) \in Map
  BY <1>1, <1>2, SelectChosen DEF Chosen
<1>. QED
  BY <1>3 DEF Ranked, nodes, score

\* A step that changes one build leaves the other maps alone.
LEMMA OneMap ==
    ASSUME Formed, RankInv, NEW b \in Builds, NEW r, build' = [build EXCEPT ![b] = r],
           r # None => r.map = IF r.step = "done" THEN Ranked(r) ELSE None
    PROVE  RankInv'
<1>1. build'[b] = r /\ \A c \in Builds : c # b => build'[c] = build[c]
  BY OneBuild
<1>2. ASSUME NEW c \in Builds, build'[c] # None
      PROVE  build'[c].map = IF build'[c].step = "done" THEN Ranked(build'[c]) ELSE None
  <2>1. CASE c = b
    BY <1>1, <1>2, <2>1
  <2>2. CASE c # b
    <3>1. build'[c] = build[c]
      BY <1>1, <2>2
    <3>. QED BY <1>2, <3>1 DEF RankInv
  <2>. QED BY <2>1, <2>2
<1>. QED
  BY <1>2 DEF RankInv, Ranked, Nodes

\* No step of a build changes a finished map.
LEMMA StepMap ==
    ASSUME Formed, RankInv, NEW b \in Builds, Step(b)
    PROVE  RankInv'
<1>1. ASSUME NEW compile \in BOOLEAN, NEW named, Start(b, compile, named) PROVE RankInv'
  <2>. DEFINE r ==
          [step |-> IF compile THEN "snapshot" ELSE "refs", compile |-> compile,
           told |-> FALSE, changed |-> named, refs |-> [f \in Files |-> None],
           cached |-> NoCache, fresh |-> NoCache, todo |-> {}, torn |-> FALSE, map |-> None,
           dirty |-> {f \in Files : Differs(f)},
           seen |-> [f \in Files |-> {work[f]}]]
  <2>1. build' = [build EXCEPT ![b] = r]
    BY <1>1 DEF Start
  <2>2. r.map = None /\ r.step # "done"
    OBVIOUS
  <2>. HIDE DEF r
  <2>. QED BY <2>1, <2>2, OneMap
<1>2. ASSUME NEW r, build[b] # None, build[b].step # "done", build' = [build EXCEPT ![b] = r],
             r.map = build[b].map, r.step # "done"
      PROVE  RankInv'
  BY <1>2, OneMap DEF RankInv
<1>3. CASE Snapshot(b)
  <2>. DEFINE r == [build[b] EXCEPT !.step = "refs", !.told = TRUE,
                      !.changed = {f \in Files : Differs(f) \/ Untracked(f)},
                      !.dirty = {f \in Files : Differs(f)},
                      !.seen = [f \in Files |-> {work[f]}]]
  <2>1. build' = [build EXCEPT ![b] = r] /\ build[b] # None /\ build[b].step # "done"
    BY <1>3 DEF Snapshot, At
  <2>2. r.map = build[b].map /\ r.step = "refs"
    BY <2>1, BuildTyped DEF BuildWith
  <2>. QED BY <1>2, <2>1, <2>2
<1>4. CASE SnapshotFailed(b)
  <2>. DEFINE r == [build[b] EXCEPT !.step = "refs"]
  <2>1. build' = [build EXCEPT ![b] = r] /\ build[b] # None /\ build[b].step # "done"
    BY <1>4 DEF SnapshotFailed, At
  <2>2. r.map = build[b].map /\ r.step = "refs"
    BY <2>1, BuildTyped DEF BuildWith
  <2>. QED BY <1>2, <2>1, <2>2
<1>5. CASE FileRefs(b)
  <2>1. PICK refs, todo : build' = [build EXCEPT ![b] =
            [build[b] EXCEPT !.step = "load", !.refs = refs, !.todo = todo]]
    BY <1>5 DEF FileRefs
  <2>. DEFINE r == [build[b] EXCEPT !.step = "load", !.refs = refs, !.todo = todo]
  <2>2. build[b] # None /\ build[b].step # "done"
    BY <1>5 DEF FileRefs, At
  <2>3. r.map = build[b].map /\ r.step = "load"
    BY <2>2, BuildTyped DEF BuildWith
  <2>. QED BY <1>2, <2>1, <2>2, <2>3
<1>6. CASE LoadCache(b)
  <2>. DEFINE r == [build[b] EXCEPT !.step = "files",
                      !.cached = IF cache = None THEN NoCache ELSE cache]
  <2>1. build' = [build EXCEPT ![b] = r] /\ build[b] # None /\ build[b].step # "done"
    BY <1>6 DEF LoadCache, At
  <2>2. r.map = build[b].map /\ r.step = "files"
    BY <2>1, BuildTyped DEF BuildWith
  <2>. QED BY <1>2, <2>1, <2>2
<1>7. ASSUME NEW f \in Files, Reuse(b, f) \/ Analyze(b, f) PROVE RankInv'
  <2>1. PICK e : build' = [build EXCEPT ![b] = Keep(build[b], f, e)]
    BY <1>7 DEF Reuse, Analyze
  <2>2. build[b] # None /\ build[b].step = "files"
    BY <1>7 DEF Reuse, Analyze, Turn, At
  <2>3. Keep(build[b], f, e).map = build[b].map /\ Keep(build[b], f, e).step = "files"
    BY <2>2, BuildTyped DEF BuildWith, Keep
  <2>. QED BY <1>2, <2>1, <2>2, <2>3
<1>8. CASE SaveCreate(b)
  <2>1. /\ build[b] # None /\ build[b].step = "files"
        /\ build' = [c \in Builds |->
                   IF c = b THEN [build[b] EXCEPT !.step = "write",
                                    !.torn = \E d \in Builds : At(d, "write")]
                   ELSE IF At(c, "write") THEN [build[c] EXCEPT !.torn = TRUE]
                   ELSE build[c]]
    BY <1>8 DEF SaveCreate, At
  <2>2. ASSUME NEW c \in Builds, build'[c] # None
        PROVE  build'[c].map = IF build'[c].step = "done" THEN Ranked(build'[c]) ELSE None
    <3>1. CASE c = b
      <4>1. build'[c].map = build[c].map /\ build'[c].step = "write"
        BY <2>1, <3>1, BuildTyped DEF BuildWith
      <4>. QED BY <2>1, <3>1, <4>1 DEF RankInv
    <3>2. CASE c # b /\ At(c, "write")
      <4>1. build'[c].map = build[c].map /\ build'[c].step = "write" /\ build[c].step = "write"
            /\ build[c] # None
        BY <2>1, <3>2, BuildTyped DEF BuildWith, At
      <4>. QED BY <4>1 DEF RankInv
    <3>3. CASE c # b /\ ~At(c, "write")
      <4>1. build'[c] = build[c]
        BY <2>1, <3>3
      <4>. QED BY <2>2, <4>1 DEF RankInv
    <3>. QED BY <3>1, <3>2, <3>3
  <2>. QED BY <2>2 DEF RankInv, Ranked, Nodes
<1>9. CASE SaveWrite(b)
  <2>. DEFINE mp == Ranked(build[b])
              norefs == [f \in Files |-> None]
              r == [build[b] EXCEPT !.step = "done", !.refs = norefs,
                             !.cached = NoCache, !.torn = FALSE, !.map = mp]
  <2>1. build' = [build EXCEPT ![b] = r] /\ build[b] # None
    BY <1>9 DEF SaveWrite, At
  <2>. HIDE DEF mp, norefs
  <2>2. /\ r.step = "done" /\ r.map = mp /\ r.fresh = build[b].fresh
        /\ r.changed = build[b].changed /\ r.compile = build[b].compile
    BY <2>1, BuildTyped DEF BuildWith
  <2>. HIDE DEF r
  <2>3. Nodes(r) = Nodes(build[b])
    BY <2>2 DEF Nodes
  <2>4. Ranked(r) = mp
    BY <2>2, <2>3 DEF Ranked, mp
  <2>. QED BY <2>1, <2>2, <2>4, OneMap
<1>10. CASE Crash(b)
  BY <1>10, OneMap DEF Crash
<1>. QED
  BY <1>1, <1>3, <1>4, <1>5, <1>6, <1>7, <1>8, <1>9, <1>10 DEF Step

\* Nor does what the developer does.
LEMMA DeveloperMap ==
    ASSUME Formed, RankInv, Developer
    PROVE  RankInv'
<1>1. PICK h, i, w : Change(h, i, w)
  BY DEF Developer, Edit, Stage, Commit
<1>2. build' = [b \in Builds |->
                 IF b \notin Running THEN build[b]
                 ELSE [build[b] EXCEPT
                         !.dirty = {f \in @ : w[f] # h[f]},
                         !.seen = [f \in Files |-> @[f] \cup {w[f]}]]]
  BY <1>1 DEF Change
<1>3. ASSUME NEW b \in Builds, build'[b] # None
      PROVE  build'[b].map = IF build'[b].step = "done" THEN Ranked(build'[b]) ELSE None
  <2>1. CASE b \in Running
    <3>1. build[b] # None /\ build[b].step # "done"
      BY <2>1 DEF Running
    <3>2. build'[b].map = build[b].map /\ build'[b].step = build[b].step
      BY <1>2, <2>1, <3>1, BuildTyped DEF BuildWith
    <3>. QED BY <3>1, <3>2 DEF RankInv
  <2>2. CASE b \notin Running
    <3>1. build'[b] = build[b]
      BY <1>2, <2>2
    <3>. QED BY <1>3, <3>1 DEF RankInv
  <2>. QED BY <2>1, <2>2
<1>. QED
  BY <1>3 DEF RankInv, Ranked, Nodes

\* Events are counted up to their bound.
LEMMA EventsStep ==
    ASSUME events \in 0..MaxEvents, [Next]_vars
    PROVE  events' \in 0..MaxEvents
<1>1. ASSUME Event PROVE events' \in 0..MaxEvents
  BY <1>1, EventAssumption DEF Event
<1>2. CASE Developer
  BY <1>1, <1>2 DEF Developer, Edit, Stage, Commit, Change
<1>3. ASSUME NEW b \in Builds, Step(b) PROVE events' \in 0..MaxEvents
  BY <1>1, <1>3 DEF Step, Start, Snapshot, SnapshotFailed, FileRefs, LoadCache, Reuse,
     Analyze, SaveCreate, SaveWrite, Crash
<1>. QED
  BY <1>2, <1>3 DEF Next, vars

(* Every finished build has the map Rank and Select compute from its       *)
(* analyses, and it stays that map while others build and edit (map.go:    *)
(* 139-196).                                                               *)
THEOREM RankInvariant == Spec => []RankInv
<1>1. Init => RankInv
  BY DEF Init, RankInv
<1>2. Formed /\ RankInv /\ [Next]_vars => RankInv'
  <2>. SUFFICES ASSUME Formed, RankInv, [Next]_vars PROVE RankInv'
    OBVIOUS
  <2>1. CASE UNCHANGED vars
    BY <2>1 DEF vars, RankInv, Ranked, Nodes
  <2>. QED
    BY <2>1, DeveloperMap, StepMap DEF Next
<1>. QED
  BY <1>1, <1>2, MapInvariant, PTL DEF Spec

(* The types of RepoMap, the computed map with its scores, entries and     *)
(* tokens included (map.go:38-54).                                         *)
THEOREM TypeCorrect == Spec => []TypeOK
<1>1. Init => events \in 0..MaxEvents
  BY EventAssumption DEF Init
<1>2. events \in 0..MaxEvents /\ [Next]_vars => (events \in 0..MaxEvents)'
  BY EventsStep
<1>3. Formed /\ RankInv /\ events \in 0..MaxEvents => TypeOK
  <2>. SUFFICES ASSUME Formed, RankInv, events \in 0..MaxEvents PROVE TypeOK
    OBVIOUS
  <2>1. ASSUME NEW b \in Builds, build[b] # None PROVE build[b] \in Build
    <3>1. build[b].map \in Map \cup {None}
      BY <2>1, RankedTyped DEF RankInv
    <3>2. build[b] \in BuildWith({build[b].map})
      BY <2>1, BuildTyped
    <3>. QED BY <3>1, <3>2 DEF Build, BuildWith
  <2>2. build \in [Builds -> Build \cup {None}]
    BY <2>1 DEF Formed
  <2>. QED BY <2>2 DEF Formed, TypeOK
<1>. QED
  BY <1>1, <1>2, <1>3, MapInvariant, RankInvariant, PTL DEF Spec

(* The entries of every map fit the budget, are in the order of their      *)
(* scores, leave nothing out that would fit, and a dependency puts a file  *)
(* before an otherwise equal one (map.go:139-190, 434-490).                *)
THEOREM MapsAreRanked == Spec => []MapRanked
<1>1. Formed /\ RankInv => MapRanked
  <2>. SUFFICES ASSUME Formed, RankInv, NEW b \in Done
                PROVE  LET r == build[b]
                           nodes == Nodes(r)
                           in == ToSet(r.map.entries)
                           seed == [f \in DOMAIN nodes |-> Seed(f, nodes, r.changed, r.compile)]
                           near == Near(nodes)
                       IN  /\ SumFunctionOnSet(Cost, in) = r.map.used
                           /\ r.map.used <= TokenBudget
                           /\ \A i, j \in DOMAIN r.map.entries :
                                i < j => r.map.score[r.map.entries[i]] >= r.map.score[r.map.entries[j]]
                           /\ Len(r.map.entries) < MaxEntries =>
                                \A f \in DOMAIN nodes \ in : r.map.used + Cost[f] > TokenBudget
                           /\ \A f, g \in DOMAIN nodes :
                                seed[f] = seed[g] /\ near[f] # {} /\ near[g] = {}
                                  => r.map.score[f] > r.map.score[g]
    BY DEF MapRanked
  <2>. DEFINE r == build[b]
              nodes == Nodes(r)
              score == Rank(nodes, r.changed, r.compile)
              order == Order(nodes, score)
              n == Cardinality(DOMAIN nodes)
              in == ToSet(r.map.entries)
  <2>1. b \in Builds /\ r # None /\ r.step = "done"
    BY DEF Done, At
  <2>2. IsNodes(nodes)
    BY <2>1, FormedNodes
  <2>3. r.map = Select(nodes, score)
    BY <2>1 DEF RankInv, Ranked
  <2>. HIDE DEF nodes
  <2>4. score \in [Files -> Nat]
    BY <2>2, RankTyped
  <2>5. \A f, g \in DOMAIN nodes :
           /\ Seed(f, nodes, r.changed, r.compile) = Seed(g, nodes, r.changed, r.compile)
           /\ Near(nodes)[f] # {} /\ Near(nodes)[g] = {}
           => score[f] > score[g]
    BY <2>2, RankPrefers
  <2>. HIDE DEF score, r
  <2>6. Chosen(order, score, r.map, n)
    BY <2>2, <2>3, <2>4, SelectChosen
  <2>7. \A f \in DOMAIN nodes : \E k \in 1..n : order[k] = f
    BY <2>2, <2>4, OrderRanks
  <2>8. \A i, j \in DOMAIN r.map.entries :
           i < j => r.map.score[r.map.entries[i]] >= r.map.score[r.map.entries[j]]
    <3>. SUFFICES ASSUME NEW i \in DOMAIN r.map.entries, NEW j \in DOMAIN r.map.entries, i < j
                  PROVE  score[r.map.entries[i]] >= score[r.map.entries[j]]
      BY <2>6 DEF Chosen
    <3>1. Before(score, r.map.entries[i], r.map.entries[j])
      BY <2>6 DEF Chosen
    <3>2. r.map.entries \in Seq(Files)
      BY <2>6 DEF Chosen, Map
    <3>3. r.map.entries[i] \in Files /\ r.map.entries[j] \in Files
      BY <3>2
    <3>. QED BY <2>4, <3>1, <3>3 DEF Before
  <2>9. Len(r.map.entries) < MaxEntries =>
           \A f \in DOMAIN nodes \ in : r.map.used + Cost[f] > TokenBudget
    <3>. SUFFICES ASSUME Len(r.map.entries) < MaxEntries, NEW f \in DOMAIN nodes \ in
                  PROVE  r.map.used + Cost[f] > TokenBudget
      OBVIOUS
    <3>1. PICK k \in 1..n : order[k] = f
      BY <2>7
    <3>. QED BY <2>6, <3>1 DEF Chosen
  <2>10. r.map.score = score /\ SumFunctionOnSet(Cost, in) = r.map.used
         /\ r.map.used <= TokenBudget
    BY <2>6 DEF Chosen
  <2>. QED BY <2>5, <2>8, <2>9, <2>10 DEF r, nodes
<1>. QED
  BY <1>1, MapInvariant, RankInvariant, PTL
===============================================================================
