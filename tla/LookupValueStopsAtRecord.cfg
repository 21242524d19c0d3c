CONSTANTS
    NumBits = 3
    Self <- MCSelf
    Addrs = {addr}
    K = 3
    Peers <- MCPeers
    Target <- MCTarget
    Alpha = 2
    Topologies <- MCTopologies
    SeedTables <- MCSeedTables
    HolderSets <- MCHolderSets
    SilentSets <- MCSilentSets
SPECIFICATION Spec
INVARIANTS RecordEndsLookup
CHECK_DEADLOCK FALSE
