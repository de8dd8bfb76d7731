CONSTANTS
    root = root
    sub = sub
    f = f
    g = g
    Root = root
    Subdirs = {sub}
    Files = {f, g}
    Home <- MCHome
    Jobs = {j1}
    MaxChanges = 1
    MaxFaults = 0
    MaxStops = 1
SPECIFICATION Spec
PROPERTY BaselineBeforeStartReturns
CHECK_DEADLOCK FALSE
