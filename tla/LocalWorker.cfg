CONSTANTS
    p1 = p1
    p2 = p2
    p3 = p3
    w1 = w1
    w2 = w2
    k1 = k1
    k2 = k2
    Procs <- MCProcs
    Workers <- MCWorkers
    WorkerOf <- MCWorkerOf
    MaxWorkers <- MCMaxWorkers
    Keys <- MCKeys
    Asks <- MCAsks
    MinSamples = 2
    MinReviewed = 1
    TrustReviewed = 2
    MaxRequests = 3
    MaxEvents = 1
    Failed = Failed
    None = None
SPECIFICATION Spec
INVARIANTS TypeOK  SlotsHeld
PROPERTIES EveryRequestReturns
CHECK_DEADLOCK FALSE
