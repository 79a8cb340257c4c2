CONSTANTS
    f1 = f1
    f2 = f2
    v1 = v1
    v2 = v2
    t1 = t1
    t1spaced = t1spaced
    hard = hard
    Files <- MCFiles
    Contents <- MCContents
    Tasks <- MCTasks
    HardTasks <- MCHard
    Norm <- MCNorm
    Relevant <- MCRelevant
    Quoted <- QuotedNames
    Sessions = {s1}
    Calls = {c1}
    Absent = Absent
    Clean = Clean
    NoFile = NoFile
    Empty = Empty
    Torn = Torn
    None = None
    MaxEdits = 2
SPECIFICATION FlowSpec
SYMMETRY Symmetry
INVARIANTS FlowTypeOK   DiscoveryGated
PROPERTY BaselineImmutable
