CONSTANTS
    f1 = f1
    f2 = f2
    v1 = v1
    v2 = v2
    t1 = t1
    t1spaced = t1spaced
    hard = hard
    Files <- OneFile
    Contents <- MCContents
    Tasks <- TwoTasks
    HardTasks <- MCHard
    Norm <- MCNorm
    Relevant <- MCRelevant
    Quoted <- NoNames
    Sessions = {s1}
    Calls = {c1}
    Absent = Absent
    Clean = Clean
    NoFile = NoFile
    Empty = Empty
    Torn = Torn
    None = None
    MaxEdits = 2
SPECIFICATION FlowSpec
SYMMETRY Symmetry
INVARIANT EveryEntryGuarded
