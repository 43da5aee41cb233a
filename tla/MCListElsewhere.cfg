SPECIFICATION Spec
CONSTANTS
    Pids = {1, 2, 3}
    InitPid = 1
    SelfPid = 2
    MaxBirths = 4
    Socks = {1, 2, 3}
    Fds = {1, 2}
    TableOf <- MCTableOf
    Endpoint <- MCEndpoint
    OthersProcs = {{}, {1}}
    MaxChanges = 3
    Platforms = {"darwin", "windows"}
    Attempts = 2
    Slack = 1
    PidSlack = 0
INVARIANTS
    TypeOK
    ThereIsListed
    ListedOnce
    OneProcessToARow
    GaveUpOnGrowth
