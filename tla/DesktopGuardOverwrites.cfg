CONSTANTS
    Paths = {p1}
    RemotePaths = {}
    MaxIds = 2
    Restorers = {r1}
    Installers = {}
    Benign = {good}
    Hostile = {bad}
    Corrupt = corrupt
    None = none
    MaxFaults = 0
    MaxWrites = 2
    MaxCrashes = 0
SPECIFICATION Spec
PROPERTY NeverOverwrites
CHECK_DEADLOCK FALSE
