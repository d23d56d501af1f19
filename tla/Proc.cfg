SPECIFICATION FairSpec
CONSTANTS NTask = 3
          Machines <- MCMachines
          MaxFrames = 1
          Settable = {9, 17}
INVARIANTS ParentTruth WaitSound 
CHECK_DEADLOCK FALSE
PROPERTY WaitReturns
