CONSTANTS
    p1 = p1
    p2 = p2
    p3 = p3
    h1 = h1
    h2 = h2
    s1 = s1
    s2 = s2
    q1 = q1
    Procs <- MCProcs
    Hosts <- MCHosts
    HostOf <- MCHostOf
    States <- MCStates
    FirstState = s1
    Queries <- MCQueries
    Failed = Failed
    MaxEvents = 2
    None = None
SPECIFICATION Spec
SYMMETRY Symmetry
INVARIANTS TypeOK 
PROPERTIES OneQueryPerKey
