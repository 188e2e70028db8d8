CONSTANTS
    poller = poller
    a1 = a1
    s1 = s1
    s2 = s2
    Poller = poller
    Acker = {a1}
    Socket = {s1, s2}
    DISCONNECTED = DISCONNECTED
    None = None
    MaxPackets = 0
    MaxAcks = 1
    MaxLines = 0
SPECIFICATION Spec
INVARIANT OneConnection
