CONSTANTS
    S = S
    D = D
    R = R
    G = G
    U = U
    W = W
    qAR = qAR
    qAI = qAI
    TCPIP = TCPIP
    Call = {S, D, R, G}
    Alias = {W}
    KnownQ = {qAR}
    OtherQ = {qAI}
    Other = {U, TCPIP}
    NoName = NoName
    NoCoord = NoCoord
    NotFound = NotFound
    NoDest = NoDest
    MAX_HOPS = 5
    MAX_ZOOM = 3
    TileSize = 2
    Scenario <- MCScenario
    Inputs <- MCInputs
    Requests <- MCRequests
    MaxPackets <- MCPackets
SPECIFICATION Spec
INVARIANTS
    TypeOK
    GateIsReached
    CountedOnce
    EveryPacketOnMap
    ClosestMap
