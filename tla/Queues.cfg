\* Buffer: three slots and five items; a thread whose partner has finished may
\* wait for ever.  Barber shop: four customers, two chairs, enough for a full
\* shop, a lost update and a customer that is turned away while another holds
\* the barber chair.  I/O scheduler: three requests on four sectors, a far
\* request can be passed by two others that are added again and again, on both
\* sides of the head and on its sector.
CONSTANTS
    N = 3
    MaxItems = 5
    Delays = {2, 9}
    NumCustomers = 4
    NumChairs = 2
    Requests = {r1, r2, r3}
    Sectors = {0, 1, 2, 3}
SPECIFICATION MCSpec
INVARIANTS
    ScanFinds
    EachItemOnce
    BarberCutsTheSeated
    SignalNeverMerged
    FirstCustomersFindChairs
    QueueSorted
PROPERTIES
    JoinsIffBalanced
    WaitingCustomerIsShorn
    ImplementsElevator
    NoStarvation
\* The barber waits for ever after the last customer; after ExitQueue the I/O
\* scheduler is gone.
CHECK_DEADLOCK FALSE
