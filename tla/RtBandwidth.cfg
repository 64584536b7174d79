\* Two CPUs lend and borrow; a share of 2 in a period of 3 is what a CPU can
\* lend half of once, and 4 units of time are more than it can ever pay off
\* in one period.  One hotplug operation, also one that fails half way, or one
\* write to the sysctl; a CPU may be offline from the start.
CONSTANTS
    NumCPUs = 2
    Bits = 5
    Period = 3
    Runtime = 2
    Settings = {1}
    Deltas = {2}
    Overruns = {1}
    MaxTime = 4
    MaxTasks = 1
    MaxEvents = 1
SPECIFICATION BandwidthFairSpec
INVARIANTS
    RuntimeConserved
PROPERTIES
    ThrottledIsReleased
