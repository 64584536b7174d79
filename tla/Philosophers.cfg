\* Three philosophers, three left and two right forks: one who holds a left
\* fork can wait for a right one while the other two eat in turns for ever, and
\* two can hold both kinds at once, so that both may find all flags set.  Two
\* tickets at most: resets that overlap post a second one, and a third is lost.
CONSTANTS
    N = 3
    LeftForks = 3
    RightForks = 2
    SEM_VALUE_MAX = 2
SPECIFICATION FairSpec
INVARIANTS
    NoForkDeadlock
    StuckOnlyAfterLostFlag
PROPERTIES
    TicketLeadsToMeal
\* When a flag is lost everybody waits.
CHECK_DEADLOCK FALSE
