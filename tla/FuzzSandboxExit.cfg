\* A worker of each number: how far it gets in the table.
CONSTANTS
    Files = {f1, f2, f3}
    Dirs = {d}
    FD_POOL_NUM_ROPEN = 1
    FD_POOL_NUM_WOPEN = 1
    FD_POOL_NUM_CLOSED = 1
    MaxFd = 4
    Times = 2
    Home = Home
    NoPath = NoPath
SPECIFICATION SandboxSpec
INVARIANT NeverExited
