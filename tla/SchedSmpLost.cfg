CONSTANTS
    NCpu = 2
    NUser = 2
    Quantum = 1
    MaxSleep = 1
SPECIFICATION Spec
INVARIANT NoTaskLost
CHECK_DEADLOCK FALSE
