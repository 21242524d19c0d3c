\* Five other nodes, two queries per round: up to three rounds.
CONSTANTS
    NumBits = 3
    Self <- MCSelf
    Addrs = {addr}
    K = 3
    Peers <- MCPeers
    Target <- MCTarget
    Alpha = 2
    Topologies <- MCTopologies
    SeedTables <- MCSeedTables
    HolderSets <- MCHolderSets
    SilentSets <- MCSilentSets
SPECIFICATION Spec
INVARIANTS TypeOK ExhaustedMeansAsked
PROPERTIES SearchSpec Returns GoroutinesEnd
CHECK_DEADLOCK FALSE
