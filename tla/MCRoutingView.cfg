SPECIFICATION Spec
CONSTANTS
    p1 = p1
    p2 = p2
    g = g
    Peers <- MCPeers
    Groups <- MCGroups
    Routers <- MCRouters
    PeerInputs <- PeerLists
    TopologyInputs <- MCTopologyInputs
    Unknown = Unknown
    Omitted = Omitted
    NoPeer = NoPeer
INVARIANTS
    ShownIsCurrent
    AvailabilityIsSound
    CountIsSound
    ProvenIsShown
