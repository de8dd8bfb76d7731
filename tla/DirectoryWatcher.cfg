CONSTANTS
    root = root
    sub = sub
    f = f
    g = g
    Root = root
    Subdirs = {sub}
    Files = {g}
    Home <- MCHomeSub
    Jobs = {j1, j2}
    MaxChanges = 1
    MaxFaults = 1
    MaxStops = 1
SPECIFICATION FairSpec
INVARIANT WatcherInv HealthyMissesNothing
PROPERTY LostRootRecreated
CHECK_DEADLOCK FALSE
