CONSTANTS
    d1 = d1
    d2 = d2
    x = x
    dir1 = dir1
    dir2 = dir2
    Drivers = {d1, d2}
    Files = {d1, d2, x}
    Dirs = {dir1, dir2}
    Installed <- MCInstalled
    InitialPaths <- MCInitialPaths
    MaxPaths = 4
SPECIFICATION Spec
INVARIANT GetFailureDiagnosed
CHECK_DEADLOCK FALSE
