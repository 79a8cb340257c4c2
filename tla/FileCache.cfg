CONSTANTS
    p1 = p1
    p2 = p2
    p3 = p3
    v1 = v1
    v2 = v2
    i1 = i1
    i2 = i2
    i3 = i3
    i4 = i4
    Users <- MCUsers
    Values <- MCValues
    Inodes <- MCInodes
    Empty = Empty
    Torn = Torn
    Nil = Nil
SPECIFICATION CacheSpec
SYMMETRY Symmetry
INVARIANTS CacheTypeOK EntryWhole SoloSaveStored
