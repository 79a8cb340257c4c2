CONSTANTS
    f1 = f1
    v1 = v1
    v2 = v2
    t1 = t1
    t2 = t2
    Files <- OneFile
    Contents <- MCContents
    Tasks <- TwoTasks
    Norm <- MCNorm
    Relevant <- MCRelevant
    Quoted <- PlainNames
    Sessions = {s1}
    Calls = {c1, c2}
    Absent = Absent
    Clean = Clean
    NoFile = NoFile
    Empty = Empty
    Torn = Torn
    None = None
    MaxEdits = 1
SPECIFICATION Spec
SYMMETRY Symmetry
INVARIANTS TypeOK 
PROPERTY SettledBaselineStable
