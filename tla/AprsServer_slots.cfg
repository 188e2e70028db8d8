CONSTANTS
    udp = udp
    r1 = r1
    r2 = r2
    r3 = r3
    s1 = s1
    s2 = s2
    s3 = s3
    UDPListener = udp
    Reader = {r1, r2}
    Socket = {s1, s2}
    NoSocket = NoSocket
    MAX_CLIENT = 2
    MaxPackets = 1
SYMMETRY Alike
SPECIFICATION Spec
INVARIANTS
    TypeOK
    ClientStream
    EveryClientServed
PROPERTIES
    NoneDisplaced
CHECK_DEADLOCK FALSE
