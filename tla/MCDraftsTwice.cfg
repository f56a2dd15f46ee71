CONSTANTS
    Requests <- MCTwice
    Unset = Unset
    JobsAtOnce = 1
    MemoryBytes = 2
    MaxPerUser = 2
    MaxPerProject = 4
    MaxSubmissions = 2
    InFlight = 2
    NoDraft = NoDraft
    k1 = k1
    k3 = k3
    anna = anna
    glac = glac
SPECIFICATION SpecDrafts
INVARIANTS
    JobsFindTheirFiles
CHECK_DEADLOCK FALSE
