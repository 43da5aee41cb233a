SPECIFICATION Spec
CONSTANTS
    Pids = {1, 2, 3, 4}
    InitPid = 1
    SelfPid = 2
    MaxBirths = 4
    Calls = {c1, c2}
    HasPidfd = {TRUE, FALSE}
    MayFail = {TRUE, FALSE}
SYMMETRY CallSymmetry
INVARIANT
    KilledIfStillAlive
