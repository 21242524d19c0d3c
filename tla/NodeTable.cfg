\* Three-bit identifiers; buckets of two, so that bucket 0 overflows; two
\* addresses per node; two calls in flight while anything else happens.
CONSTANTS
    NumBits = 3
    Self <- MCSelf
    Addrs = {a1, a2}
    K = 2
    Peers <- MCPeers
    MaxCalls = 2
SYMMETRY MCSymmetry
SPECIFICATION TableSpec
INVARIANTS TableTypeOK RightBucket OneEntryPerNode NearBucketsFirst OrderOfLastContact
PROPERTIES LeavesOnFailedQuery
