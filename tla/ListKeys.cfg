SPECIFICATION Spec
CONSTANTS
    Pids = {1, 2, 3}
    InitPid = 1
    SelfPid = 2
    MaxBirths = 3
    Socks = {1, 2}
    Fds = {1, 2}
    TableOf <- SameTable
    Endpoint <- SamePort
    Missing = {}
    MaxLines = 1
    OthersProcs = {{}}
    MaxChanges = 2
INVARIANT
    KeyIsUnique
