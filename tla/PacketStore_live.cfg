CONSTANTS
    Handler = {h1, h2}
    h1 = h1
    h2 = h2
    A = A
    B = B
    x = x
    y = y
    Call = {A}
    Coord = {x, y}
    NoCoord = NoCoord
    Input <- MovesAndTouches
    None = None
    NoRow = NoRow
    MaxPos = 2
    MaxPkt = 2
    Retries = 2
    PosEvery = 2
    MaxRestarts = 0
SPECIFICATION FairSpec
PROPERTIES
    OrphansArePurged
    OldPacketsArePurged
    HandlersFinish
