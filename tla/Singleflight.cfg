CONSTANTS
    p1 = p1
    p2 = p2
    p3 = p3
    g1 = g1
    g2 = g2
    g3 = g3
    v = v
    e = e
    Procs <- MCProcs
    Keys = {k1, k2}
    Results <- MCResults
    Flights <- MCFlights
    None = None
SPECIFICATION FairSpec
INVARIANTS TypeOK OneExecution FlightSound
PROPERTIES ImplementsShared EveryCallReturns
