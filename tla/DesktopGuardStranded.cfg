CONSTANTS
    Paths = {p1}
    RemotePaths = {}
    MaxIds = 2
    Restorers = {}
    Installers = {}
    Benign = {good}
    Hostile = {bad}
    Corrupt = corrupt
    None = none
    MaxFaults = 2
    MaxWrites = 1
    MaxCrashes = 0
SPECIFICATION Spec
INVARIANT StrandedStaysReported
CHECK_DEADLOCK FALSE
