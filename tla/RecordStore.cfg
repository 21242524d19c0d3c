\* Two keys, two names, three records of lifetime 1, a ticker of period 2,
\* and time for a record to expire, be cleaned up and be replaced.
CONSTANTS
    Names = {n1, n2}
    Keys = {k1, k2}
    GroupKeys = {g}
    NoGroup = NoGroup
    None = None
    TTLs = {1}
    CleanupEvery = 2
    MaxTime = 5
    MaxIssued = 3
SYMMETRY MCSymmetry
SPECIFICATION Spec
INVARIANTS TypeOK StoredAsSigned BlockedAtMostOnePeriod
PROPERTIES OwnerChangesThroughNobody LeaseSpec
CHECK_DEADLOCK FALSE
