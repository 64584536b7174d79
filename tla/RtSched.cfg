SPECIFICATION Spec
CONSTANTS
    Task = {a, b, n}
    NCpu = 2
    MAX_RT_PRIO = 3
    Idle = Idle
    Stopper = Stopper
    NoTask = NoTask
    InitParams <- MCInitParams
    Policies = {"FIFO", "NORMAL"}
    ResetFlags = {FALSE}
    Masks <- MCMasks
    RT_MAX_TRIES = 2
    DEF_TIMESLICE = 1
    MaxEvents = 2
SYMMETRY Symmetry
INVARIANTS
    CachesAgree
    OnePlace
    PushableTasksOk
    NoLostWakeup
    HighestRuns
    GivenUpIsPulled
    AffinityKept
