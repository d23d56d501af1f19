CONSTANTS
    NCpu = 1
    NUser = 2
    Quantum = 2
    MaxSleep = 2
SPECIFICATION FairSpec
INVARIANT NoTaskLost
INVARIANT CurrentOffQueue
INVARIANT UserIsRunning
PROPERTY SleepersWake
 
