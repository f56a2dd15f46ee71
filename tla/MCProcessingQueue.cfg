CONSTANTS
    Requests <- MCRequests
    Unset = Unset
    JobsAtOnce = 2
    MemoryBytes = 2
    MaxPerUser = 2
    MaxPerProject = 2
    MaxSubmissions = 3
    k1 = k1
    k2 = k2
    k3 = k3
    k4 = k4
    anna = anna
    bert = bert
    glac = glac
    other = other
    third = third
SPECIFICATION Spec
INVARIANTS
    LimitsHeld
    OneJobPerKey
    NoLostWakeup
    EveryEndCountedOnce
PROPERTIES
    EndsAreFinal
    NoOvertaking
CHECK_DEADLOCK FALSE
