CONSTANTS
    Paths = {p1}
    RemotePaths = {p1}
    MaxIds = 2
    Restorers = {r1, r2}
    Installers = {i1}
    Benign = {good}
    Hostile = {bad}
    Corrupt = corrupt
    None = none
    MaxFaults = 1
    MaxWrites = 1
    MaxCrashes = 0
SPECIFICATION Spec
INVARIANT GuardInv RestoresInv
PROPERTY RestoredOnce
SYMMETRY RestorerSymmetry
CHECK_DEADLOCK FALSE
