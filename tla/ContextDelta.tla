---------------------------- MODULE ContextDelta ----------------------------
(***************************************************************************)
(* brain_context_delta for one session and token budget.  Of a packet     *)
(* there is what a delta tells: changed and relevant files, intents, diff; *)
(* commits and semantic results are only in full answers.                  *)
(* CompileCached looks a packet up under a key made of the repository      *)
(* state, task and intents, or compiles and caches it;                     *)
(* CompileDelta compares it with the session's stored baseline and answers *)
(* with the full packet, with the differences, or with "no changes".  The  *)
(* developer edits and adds intents at any time; git and the repository    *)
(* map may fail, requests may end in an error and answers may get lost.    *)
(***************************************************************************)
EXTENDS Naturals, FiniteSets

CONSTANTS
    States,     \* what StateID tells apart: HEAD, index, worktree
    Files,
    Changed,    \* state -> files that differ from HEAD
    Relevant,   \* task -> state -> files of the ranked repository map
    Intents,    \* at most three, as many as a packet shows
    Tasks,      \* normalized task texts
    Calls,
    Torn,       \* a session entry two savers have spoiled
    None,
    Limit,      \* files per list of a delta that is over its budget
    MaxEvents,  \* bound: edits, first commit, new intents and failures in a behaviour
    MaxRequests \* bound: requests in a behaviour

ASSUME DataAssumption ==
    /\ Changed \in [States -> SUBSET Files]
    /\ Relevant \in [Tasks -> [States -> SUBSET Files]]
    /\ Cardinality(Intents) <= 3
ASSUME BoundAssumption == {Limit, MaxEvents, MaxRequests} \subseteq Nat

VARIABLES
    born,       \* HEAD exists, without which StateID fails
    state,
    intents,    \* the active intents of the store
    cache,      \* context cache: key -> packet
    session,    \* the session's entry of context-sessions
    call,       \* requests in progress
    view,       \* the packet the client can put together from its answers
    lapsed,     \* history: requests overlapped, or part of an answer was lost
    disturbed,  \* history: something changed or failed while a request was compiling
    events,     \* bound counters
    requests

vars == <<born, state, intents, cache, session, call, view, lapsed, disturbed,
          events, requests>>

NoKey == [state |-> None, task |-> None, intents |-> {}]
Keys == [state : States, task : Tasks, intents : SUBSET Intents]
Packet == [changed : SUBSET Files, diff : States \cup {None},
           intents : SUBSET Intents, relevant : SUBSET Files]
Session == [task : Tasks, key : Keys \cup {NoKey}, packet : Packet]
NoPacket == [changed |-> {}, diff |-> None, intents |-> {}, relevant |-> {}]
NoDelta == [full |-> FALSE, same |-> FALSE, add |-> NoPacket, cut |-> NoPacket]

Steps == {"state", "load", "git", "rest", "save", "session", "store", "answered"}
Delta == [full : BOOLEAN, same : BOOLEAN, add : Packet, cut : Packet]
Call == [step : Steps, task : Tasks, sid : States \cup {None},
         key : Keys \cup {NoKey}, packet : Packet, delta : Delta]

ASSUME NullAssumption ==
    /\ None \notin States \cup Tasks \cup Packet \cup Call \cup Session
    /\ Torn \notin Session \cup {None}

TypeOK ==
    /\ born \in BOOLEAN
    /\ state \in States
    /\ intents \subseteq Intents
    /\ cache \in [Keys -> Packet \cup {None}]
    /\ session \in Session \cup {None, Torn}
    /\ call \in [Calls -> Call \cup {None}]
    /\ view \in Packet \cup {None}
    /\ lapsed \in BOOLEAN /\ disturbed \in BOOLEAN
    /\ events \in 0..MaxEvents /\ requests \in 0..MaxRequests

Init ==
    /\ born \in BOOLEAN
    /\ state \in States
    /\ intents = {}
    /\ cache = [k \in Keys |-> None]
    /\ session = None
    /\ call = [c \in Calls |-> None]
    /\ view = None
    /\ lapsed = FALSE /\ disturbed = FALSE
    /\ events = 0 /\ requests = 0

-----------------------------------------------------------------------------
(* The developer and the other tools.                                      *)

Compiling(c) ==
    call[c] # None /\ call[c].step \in {"load", "git", "rest"}

Event == events < MaxEvents /\ events' = events + 1

Change ==
    /\ Event
    /\ disturbed' = (disturbed \/ \E c \in Calls : Compiling(c))
    /\ UNCHANGED <<cache, session, call, view, lapsed, requests>>

Edit(s) == state # s /\ Change /\ state' = s /\ UNCHANGED <<born, intents>>

FirstCommit == ~born /\ Change /\ born' = TRUE /\ UNCHANGED <<state, intents>>

AddIntent(i) ==
    /\ i \notin intents
    /\ Change
    /\ intents' = intents \cup {i}
    /\ UNCHANGED <<born, state>>

-----------------------------------------------------------------------------
(* CompileCached.                                                          *)

project == <<born, state, intents>>

At(c, step) == call[c] # None /\ call[c].step = step

Request(c, t) ==
    /\ call[c] = None
    /\ requests < MaxRequests
    /\ requests' = requests + 1
    /\ call' = [call EXCEPT ![c] =
                 [step |-> "state", task |-> t, sid |-> None, key |-> NoKey,
                  packet |-> NoPacket, delta |-> NoDelta]]
    /\ lapsed' = (lapsed \/ \E d \in Calls : call[d] # None)
    /\ UNCHANGED <<project, events, cache, session, view, disturbed>>

\* Without a commit there is no StateID, and git may fail: then the packet is
\* compiled and not cached.
ReadState(c) ==
    /\ At(c, "state")
    /\ \/ /\ born
          /\ call' = [call EXCEPT ![c].sid = state, ![c].step = "load"]
          /\ UNCHANGED events
       \/ /\ call' = [call EXCEPT ![c].sid = None, ![c].step = "git"]
          /\ IF born THEN Event ELSE UNCHANGED events
    /\ UNCHANGED <<project, requests, cache, session, view, lapsed, disturbed>>

\* Mutant: the key leaves the task out.
KeyWithoutTask(sid, t, is) ==
    [state |-> sid, task |-> CHOOSE u \in Tasks : TRUE, intents |-> is]

Key(sid, t, is) == [state |-> sid, task |-> t, intents |-> is]

\* Mutant: the packet is taken whether the entry was found or not.
LoadPacketUnchecked(c) ==
    LET key == Key(call[c].sid, call[c].task, intents) IN
    /\ At(c, "load")
    /\ call' = [call EXCEPT ![c].key = key, ![c].packet = cache[key],
                            ![c].step = "session"]
    /\ UNCHANGED <<project, events, requests, cache, session, view, lapsed, disturbed>>

LoadPacket(c) ==
    LET key == Key(call[c].sid, call[c].task, intents) IN
    /\ At(c, "load")
    /\ call' = [call EXCEPT
                 ![c].key = key,
                 ![c].packet = IF cache[key] = None THEN @ ELSE cache[key],
                 ![c].step = IF cache[key] = None THEN "git" ELSE "session"]
    /\ UNCHANGED <<project, events, requests, cache, session, view, lapsed, disturbed>>

\* Compile: the git snapshot, without which the packet is compiled all the same ...
CompileGit(c) ==
    /\ At(c, "git")
    /\ \/ /\ born
          /\ call' = [call EXCEPT ![c].packet.changed = Changed[state],
                                  ![c].packet.diff = state, ![c].step = "rest"]
          /\ UNCHANGED <<events, disturbed>>
       \/ /\ call' = [call EXCEPT ![c].step = "rest"]
          /\ IF born THEN Event ELSE UNCHANGED events
          /\ disturbed' = (disturbed \/ born)
    /\ UNCHANGED <<project, requests, cache, session, view, lapsed>>

\* ... then the intents and the repository map, if it can be built.
CompileRest(c) ==
    /\ At(c, "rest")
    /\ \E built \in BOOLEAN :
         /\ call' = [call EXCEPT
              ![c].packet.intents = intents,
              ![c].packet.relevant = IF built THEN Relevant[call[c].task][state] ELSE {},
              ![c].step = IF call[c].key = NoKey THEN "session" ELSE "save"]
         /\ IF built THEN UNCHANGED events ELSE Event
         /\ disturbed' = (disturbed \/ ~built)
    /\ UNCHANGED <<project, requests, cache, session, view, lapsed>>

\* A packet that cannot be cached is served all the same.  Two savers of a key may
\* spoil its entry, which every load takes for a miss.
SavePacket(c) ==
    /\ At(c, "save")
    /\ \/ /\ cache' = [cache EXCEPT ![call[c].key] = call[c].packet]
          /\ UNCHANGED events
       \/ /\ \E d \in Calls \ {c} : At(d, "save") /\ call[d].key = call[c].key
          /\ cache' = [cache EXCEPT ![call[c].key] = None]
          /\ Event
       \/ Event /\ UNCHANGED cache
    /\ call' = [call EXCEPT ![c].step = "session"]
    /\ UNCHANGED <<project, requests, session, view, lapsed, disturbed>>

-----------------------------------------------------------------------------
(* CompileDelta.                                                           *)

Current(c) == [task |-> call[c].task, key |-> call[c].key, packet |-> call[c].packet]

Minus(p, q) ==
    [changed |-> p.changed \ q.changed, relevant |-> p.relevant \ q.relevant,
     intents |-> p.intents \ q.intents, diff |-> p.diff]

Plus(p, d) ==
    [changed |-> (p.changed \cup d.add.changed) \ d.cut.changed,
     relevant |-> (p.relevant \cup d.add.relevant) \ d.cut.relevant,
     intents |-> (p.intents \cup d.add.intents) \ d.cut.intents,
     diff |-> d.add.diff]

Showing(d, add, cut) == [d EXCEPT !.add.relevant = add, !.cut.relevant = cut]

FirstOf(fs) ==
    IF Cardinality(fs) <= Limit THEN {fs}
    ELSE {gs \in SUBSET fs : Cardinality(gs) = Limit}

\* limitDelta, in a delta of more than half the token budget.
Limited(d) ==
    {Showing(d, add, cut) :
        add \in FirstOf(d.add.relevant), cut \in FirstOf(d.cut.relevant)}

Full(c) == [NoDelta EXCEPT !.full = TRUE, !.add = call[c].packet]
Same == [NoDelta EXCEPT !.same = TRUE]
Difference(c) ==
    [NoDelta EXCEPT !.add = Minus(call[c].packet, session.packet),
                    !.cut = Minus(session.packet, call[c].packet)]

\* The session's baseline is of the same task: what changed since can be told.
Follows(c) == IF session = None THEN FALSE ELSE session.task = call[c].task

\* Mutant: "no changes" is decided by the repository state alone.
CompareStates(c) ==
    /\ At(c, "session") /\ session # Torn
    /\ call' = [call EXCEPT
         ![c].delta = IF ~Follows(c) THEN Full(c)
                      ELSE IF session.key.state = call[c].key.state THEN Same ELSE Difference(c),
         ![c].step = IF Follows(c) /\ session.key.state = call[c].key.state
                     THEN "answered" ELSE "store"]
    /\ UNCHANGED <<project, events, requests, cache, session, view, lapsed, disturbed>>

\* Looks the session up and decides what to answer; a spoiled session is an error.
Compare(c) ==
    /\ At(c, "session") /\ session # Torn
    /\ \/ /\ ~Follows(c)
          /\ call' = [call EXCEPT ![c].delta = Full(c), ![c].step = "store"]
          /\ UNCHANGED lapsed
       \/ /\ Follows(c) /\ session.key = call[c].key
          /\ call' = [call EXCEPT ![c].delta = Same, ![c].step = "answered"]
          /\ UNCHANGED lapsed
       \/ /\ Follows(c) /\ session.key # call[c].key
          /\ \E d \in {Difference(c)} \cup Limited(Difference(c)) :
               /\ call' = [call EXCEPT ![c].delta = d, ![c].step = "store"]
               /\ lapsed' = (lapsed \/ d # Difference(c))
    /\ UNCHANGED <<project, events, requests, cache, session, view, disturbed>>

\* Mutant: only full answers are stored, so that a delta is against the first one.
StoreFullOnly(c) ==
    /\ At(c, "store")
    /\ session' = IF call[c].delta.full THEN Current(c) ELSE session
    /\ call' = [call EXCEPT ![c].step = "answered"]
    /\ UNCHANGED <<project, events, requests, cache, view, lapsed, disturbed>>

\* FileCache.Save; two of them at once may spoil the entry.
Store(c) ==
    /\ At(c, "store")
    /\ session' \in {Current(c)} \cup
            (IF \E d \in Calls \ {c} : At(d, "store") THEN {Torn} ELSE {})
    /\ call' = [call EXCEPT ![c].step = "answered"]
    /\ UNCHANGED <<project, events, requests, cache, view, lapsed, disturbed>>

-----------------------------------------------------------------------------
(* The client.                                                             *)

Receive(c) ==
    LET d == call[c].delta IN
    /\ At(c, "answered")
    /\ view' = CASE d.full -> d.add
                 [] ~d.full /\ (d.same \/ view = None) -> view
                 [] OTHER -> Plus(view, d)
    /\ call' = [call EXCEPT ![c] = None]
    /\ UNCHANGED <<project, events, requests, cache, session, lapsed, disturbed>>

\* A request ends without an answer: an error is returned, the client gives up or
\* the server dies.  It is too late when the session has been stored.
Leave(c) ==
    /\ call[c] # None
    /\ Event
    /\ lapsed' = (lapsed \/ (At(c, "answered") /\ ~call[c].delta.same))
    /\ call' = [call EXCEPT ![c] = None]
    /\ UNCHANGED <<project, requests, cache, session, view, disturbed>>

Next ==
    \/ \E s \in States : Edit(s)
    \/ FirstCommit
    \/ \E i \in Intents : AddIntent(i)
    \/ \E c \in Calls :
         \/ \E t \in Tasks : Request(c, t)
         \/ ReadState(c) \/ LoadPacket(c) \/ CompileGit(c) \/ CompileRest(c)
         \/ SavePacket(c) \/ Compare(c) \/ Store(c) \/ Receive(c) \/ Leave(c)

Spec == Init /\ [][Next]_vars

-----------------------------------------------------------------------------
(* Properties.                                                             *)

Quiet == \A c \in Calls : call[c] = None

\* What Compile gives for a key, if nothing moves meanwhile.
PacketOf(key) ==
    [changed |-> Changed[key.state], diff |-> key.state,
     intents |-> key.intents, relevant |-> Relevant[key.task][key.state]]

\* The key names everything a packet is made of: while no request was disturbed, a
\* cached packet is what compiling gives, for every key at any later time
\* (cache.go:29-53).
CacheSound ==
    ~disturbed => \A k \in Keys : cache[k] # None => cache[k] = PacketOf(k)

\* While no answer or list entry was lost and requests did not overlap, the packet
\* the client puts together from full answers and deltas is the one the session is
\* compared with (delta.go:63-98), whatever was edited or failed when.
InStep ==
    Quiet /\ ~lapsed =>
        view = IF session = None THEN None ELSE session.packet

\* An answer to an undisturbed request brings the client up to date, through any
\* sequence of cache hits, tasks and deltas: what it puts together is what the
\* project is now, as far as a delta tells.  Without a commit there is no key, and
\* it does not hold.
ClientCurrent ==
    \A c \in Calls :
        /\ At(c, "answered") /\ ~lapsed /\ ~disturbed
        /\ call[c].key = Key(state, call[c].task, intents)
        => LET d == call[c].delta IN
           PacketOf(call[c].key) =
             CASE d.full -> d.add [] d.same -> view [] OTHER -> Plus(view, d)

\* delta.go:105 "No relevant context changes since the previous capsule": the answer
\* is given only when the packet is the session's, of requests nothing disturbed.
NoChangesMeansNone ==
    \A c \in Calls :
        At(c, "answered") /\ ~lapsed /\ ~disturbed /\ call[c].delta.same =>
            session.packet = call[c].packet
=============================================================================
