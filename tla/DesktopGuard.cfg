CONSTANTS
    Paths = {p1}
    RemotePaths = {}
    MaxIds = 2
    Restorers = {r1}
    Installers = {i1}
    Benign = {good}
    Hostile = {bad}
    Corrupt = corrupt
    None = none
    MaxFaults = 1
    MaxWrites = 2
    MaxCrashes = 1
SPECIFICATION Spec
INVARIANT HeldInv
PROPERTY StrandingReported OnlyJudgedSafe
CHECK_DEADLOCK FALSE
