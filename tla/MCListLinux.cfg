SPECIFICATION Spec
CONSTANTS
    Pids = {1, 2, 3}
    InitPid = 1
    SelfPid = 2
    MaxBirths = 5
    Socks = {1, 2}
    Fds = {1, 2}
    TableOf <- MCTableOf
    Endpoint <- MCEndpoint
    Missing = {"udp6"}
    MaxLines = 2
    OthersProcs = {{}, {4}}
    MaxChanges = 3
INVARIANTS
    TypeOK
    ThereIsListed
    OwnersAreListed
    RowPerOwnerOrLine
    RowOfHolders
