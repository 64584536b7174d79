\* Two of each thread, as in the usage message, and three dinners: a walk can
\* pass a node, an insert can append behind a searcher, and deleters and
\* inserters compete.  RandMax = 3 lets every dinner be picked, and
\* one behind the last.
CONSTANTS
    Searchers = {s1, s2}
    Inserters = {i1, i2}
    Deleters = {d1, d2}
    Nodes = {m1, m2, m3}
    NULL = NULL
    RandMax = 3
SPECIFICATION FairSpec
INVARIANTS
    DeleteIsExclusive
    WalksStayOnList
PROPERTIES
    OperationsFinish
