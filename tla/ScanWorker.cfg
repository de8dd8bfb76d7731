CONSTANTS
    None = None
    Scans = {s1, s2, s3}
    MaxWorkers = 3
    MaxFaults = 1
SPECIFICATION FairSpec
INVARIANT WorksForActive ActiveIsServed
PROPERTY ImplementsScanContract EveryScanSettles
CHECK_DEADLOCK FALSE
