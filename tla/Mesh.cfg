\* Four nodes, the largest mesh for K = 3; a bucket of each table is to hold two
\* of them.
CONSTANTS
    owner = owner
    searcher = searcher
    near = near
    far = far
    NumBits = 2
    Nodes = {owner, searcher, near, far}
    ID <- MCID
    Owner = owner
    Searchers = {searcher}
    Target <- MCTarget
    Alpha = 1
    K = 3
    MaxPings = 3
    MaxFailures = 1
SPECIFICATION Spec
INVARIANTS TypeOK AnnouncedIsFound
CHECK_DEADLOCK FALSE
