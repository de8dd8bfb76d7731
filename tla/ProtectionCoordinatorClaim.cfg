CONSTANTS
    NRoots = 1
    Jobs = {j1, j2}
    MaxFaults = 0
    MaxLosses = 0
SPECIFICATION FairSpec
PROPERTY DisturbedIsRepaired
CHECK_DEADLOCK FALSE
