CONSTANTS
    clean = clean
    both = both
    f1 = f1
    f2 = f2
    t1 = t1
    t2 = t2
    States <- MCStates
    Files <- MCFiles
    Changed <- MCChanged
    Relevant <- MCRelevant
    Tasks <- MCTasks
    Intents = {i1}
    c1 = c1
    c2 = c2
    Calls <- MCCalls
    Torn = Torn
    None = None
    Limit = 1
    MaxEvents = 2
    MaxRequests = 4
SPECIFICATION Spec
INVARIANTS TypeOK   
CHECK_DEADLOCK FALSE
SYMMETRY Callers
