\* Four customers and two resources: two of them can be blocked at once, the
\* one through the initially unlocked mutex and the other on it.
CONSTANTS
    NumCustomers = 4
    Resources = 2
SPECIFICATION FairSpec
INVARIANTS
    CountDrift
    NoEarlyBlock
PROPERTY ReleasedWhileCountReturns
\* A lost update may leave a customer blocked for ever.
CHECK_DEADLOCK FALSE
