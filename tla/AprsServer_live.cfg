CONSTANTS
    udp = udp
    r1 = r1
    r2 = r2
    r3 = r3
    s1 = s1
    s2 = s2
    s3 = s3
    UDPListener = udp
    Reader = {r1, r2}
    Socket = {s1}
    NoSocket = NoSocket
    MAX_CLIENT = 1
    MaxPackets = 1
SPECIFICATION FairSpec
PROPERTIES
    GoneIsFreed
CHECK_DEADLOCK FALSE
