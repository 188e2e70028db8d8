CONSTANTS
    Handler = {h1, h2}
    h1 = h1
    h2 = h2
    A = A
    B = B
    x = x
    y = y
    Call = {A, B}
    Coord = {x, y}
    NoCoord = NoCoord
    Input <- MovingStations
    None = None
    NoRow = NoRow
    MaxPos = 2
    MaxPkt = 2
    Retries = 2
    PosEvery = 2
    MaxRestarts = 1
SPECIFICATION Spec
INVARIANTS
    TypeOK
    RefsResolve
    PacketKeyIsFree
    HopsAreOwn
    StationAtLast
    OneRowPerCoordinate
PROPERTIES
    ImplementsPool
