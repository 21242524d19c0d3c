\* Seven other nodes, buckets, answers and results of three, three queries per
\* round: rounds of one, two and three queries, answers cut off at K.
CONSTANTS
    NumBits = 4
    Self <- MCSelf
    Addrs = {addr}
    K = 3
    Peers <- MCPeers
    Target <- MCTarget
    Alpha = 3
    Topologies <- MCTopologies
    SeedTables <- MCSeedTables
SPECIFICATION NodeSpec
INVARIANTS NodeTypeOK Exhaustive
PROPERTIES NodeSearchSpec NodeReturns
CHECK_DEADLOCK FALSE
