\* Two workers and a watchdog.  Two deaths let a worker die while another
\* child of main is dead, and again after it was forked anew.  A worker with
\* a pool of one entry of each part, files to fill it, and a descriptor left
\* for a call of open.
CONSTANTS
    WORKER_NUM = 2
    MaxDeaths = 2
    ForkFails = TRUE
    NULL = NULL
    Files = {f1, f2, f3}
    Dirs = {d}
    FD_POOL_NUM_ROPEN = 1
    FD_POOL_NUM_WOPEN = 1
    FD_POOL_NUM_CLOSED = 1
    MaxFd = 4
    Times = 1
    Home = Home
    NoPath = NoPath
SPECIFICATION MCSpec
INVARIANTS
    OneProcessPerWorker
    RegisteredDeathFlagged
    ZombiesNoticed
    PoolStaysOpen
PROPERTIES
    FlaggedIsReplaced
\* Main stops when its pid file is there or when a fork fails at the start.
CHECK_DEADLOCK FALSE
