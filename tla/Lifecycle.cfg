\* Two peers, both well-known, and two handlers of POST /peer at a time; a key for
\* each node and one for the installed service.
CONSTANTS
    Peers = {p, q}
    Bootstrap = {p, q}
    Handlers = {h1, h2}
    Absent = Absent
    Empty = Empty
    Broken = Broken
    Keys = {k1, k2, service}
    ServiceKey = service
    NoKey = NoKey
SYMMETRY Symmetry
SPECIFICATION Spec
INVARIANTS TypeOK IsolatedKeepsFile UnreadableOnlyIfDisturbed OrphansOnlyIfUnclean KeyIsOnDisk
