\* The allocator: two pages of six units.  Blocks of one, two and three units,
\* of which the last is aligned to two: heads are split off to align, and a
\* freed block can have free neighbours on both sides.  One break makes two
\* lists, so a page can be on the other list than the one a request looks at.
\* The disk: one of three sectors, or of an int's range and one more, which is a
\* disk of one sector with the capacity of many.  A request of three sectors in
\* a page of two, and one of two chunks, overlap.
CONSTANTS
    Pages = {p1, p2}
    Threads = {t1, t2}
    PAGE_SIZE = 12
    SLOB_UNIT = 2
    KmallocAlign = 4
    CacheAlign = 2
    Breaks = {4}
    KmallocSizes = {0, 1, 8}
    CacheSizes = {2}
    RcuSizes = {4}
    NULL = NULL
    NDevices = 1
    Geometries <- MCGeometries
    Width = 3
    PageSectors = 2
    Keys = {k1, k2}
    DefaultKey = k1
    BadKey = bad
    Shapes <- MCShapes
    MaxRequests = 3
    MaxKeyWrites = 2
SPECIFICATION MCSpec
SYMMETRY Symmetry
INVARIANTS
    PageIsTiled
    ListsHoldPartialPages
    ReadsBack
    OnlyOwnMemory
    NoRequestLost
\* A load that failed, a loop that is stuck and a reader who wants no more.
CHECK_DEADLOCK FALSE
