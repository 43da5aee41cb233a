SPECIFICATION FairSpec
CONSTANTS
    Pids = {1, 2, 3}
    InitPid = 1
    SelfPid = 2
    MaxBirths = 5
    Calls = {c1, c2}
    HasPidfd = {TRUE, FALSE}
    MayFail = {TRUE, FALSE}
INVARIANTS
    TypeOK
    OnlyListed
    LateComersOnly
    KilledMeansDoomed
    NeverInitOrSelf
PROPERTIES
    SignalTakesEffect
    KeepsPromise
