CONSTANTS
    Paths = {p1}
    RemotePaths = {p1}
    MaxIds = 3
    Restorers = {}
    Installers = {}
    Benign = {good}
    Hostile = {bad}
    Corrupt = corrupt
    None = none
    MaxFaults = 0
    MaxWrites = 2
    MaxCrashes = 0
SPECIFICATION FairSpec
PROPERTY EveryArrivalHandled
CHECK_DEADLOCK FALSE
