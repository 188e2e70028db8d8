CONSTANTS
    poller = poller
    a1 = a1
    s1 = s1
    s2 = s2
    Poller = poller
    Acker = {}
    Socket = {s1, s2}
    DISCONNECTED = DISCONNECTED
    None = None
    MaxPackets = 0
    MaxAcks = 0
    MaxLines = 2
SPECIFICATION Spec
INVARIANT WholeLines
