CONSTANTS
    c1 = c1
    c2 = c2
    b1 = b1
    b2 = b2
    Files <- MCFiles
    Contents <- MCContents
    Imports <- MCImports
    TaskScore <- MCTaskScore
    Mentioned <- MCMentioned
    Cost <- MCCost
    Log1p <- MCLog1p
    TokenBudget = 4
    MaxEntries = 60
    Builds <- MCBuilds
    Edited <- MCEdited
    Heads <- MCHeads
    MaxEvents = 2
    Absent = Absent
    Worktree = Worktree
    None = None
SPECIFICATION Spec
INVARIANTS TypeOK   MapRanked
SYMMETRY Symmetry
