CONSTANTS
    c1 = c1
    c2 = c2
    c3 = c3
    Callers <- TwoCallers
    Root = Root
    Refuses = FALSE
    None = None
SPECIFICATION ResponsiveSpec
INVARIANTS TypeOK AnswersUntilFailure RetryRepairs NothingLeftBehind
PROPERTY EveryRequestReturns
