CONSTANTS
    Steps = 2
SPECIFICATION FairSpec
INVARIANTS
    ResultIsTrue
PROPERTIES
    EveryRunReturns
    RunKeepsItsPromise
CHECK_DEADLOCK FALSE
