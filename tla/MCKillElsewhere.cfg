SPECIFICATION FairSpec
CONSTANTS
    Pids = {1, 2, 3}
    InitPid = 1
    SelfPid = 2
    MaxBirths = 5
    Calls = {c1, c2}
    MayFail = {TRUE, FALSE}
    Platforms = {"darwin", "windows", "other"}
INVARIANTS
    TypeOK
    KilledMeansDoomed
    MismatchMeansReused
PROPERTIES
    KeepsPromise
    GoneIsNoFailure
    SignalTakesEffect
