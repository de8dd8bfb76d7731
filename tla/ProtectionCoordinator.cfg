CONSTANTS
    NRoots = 2
    Jobs = {j1, j2}
    MaxFaults = 1
    MaxLosses = 1
SPECIFICATION FairSpec
INVARIANT CoordinatorInv
PROPERTY LossIsNoticed StoppedMeansOff
CHECK_DEADLOCK FALSE
