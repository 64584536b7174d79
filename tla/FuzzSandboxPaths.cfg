\* One directory to go to: where a path leads after that.
CONSTANTS
    Files = {f1, f2, f3}
    Dirs = {d}
    FD_POOL_NUM_ROPEN = 1
    FD_POOL_NUM_WOPEN = 1
    FD_POOL_NUM_CLOSED = 1
    MaxFd = 4
    Times = 2
    Home = Home
    NoPath = NoPath
SPECIFICATION SandboxSpec
INVARIANT PathsInSandbox
