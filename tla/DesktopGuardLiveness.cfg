CONSTANTS
    Paths = {p1}
    RemotePaths = {p1}
    MaxIds = 5
    Restorers = {}
    Installers = {}
    Benign = {good}
    Hostile = {bad}
    Corrupt = corrupt
    None = none
    MaxFaults = 1
    MaxWrites = 2
    MaxCrashes = 1
SPECIFICATION FairSpec
PROPERTY TaskEnds ArrivalAtRestHandled ImplementsContract
CHECK_DEADLOCK FALSE
