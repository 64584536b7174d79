\* What the comments of random_range and find_dinner say, for one searcher,
\* one inserter and one deleter; the draw RAND_MAX refutes it.
CONSTANTS
    Searchers = {s1}
    Inserters = {i1}
    Deleters = {d1}
    Nodes = {m1, m2}
    NULL = NULL
    RandMax = 3
SPECIFICATION Spec
INVARIANT MustHaveFound
