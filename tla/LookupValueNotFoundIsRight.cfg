CONSTANTS
    NumBits = 3
    Self <- MCSelf
    Addrs = {addr}
    K = 3
    Peers <- MCPeers
    Target <- MCTarget
    Alpha = 2
    Topologies <- MCTopologies
    SeedTables <- MCSeedTables
    HolderSets <- MCHolderSets
    SilentSets <- MCSilentSets
SPECIFICATION Spec
PROPERTIES NotFoundIsRight
CHECK_DEADLOCK FALSE
