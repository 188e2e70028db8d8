CONSTANTS
    poller = poller
    a1 = a1
    s1 = s1
    s2 = s2
    Poller = poller
    Acker = {a1}
    Socket = {s1, s2}
    DISCONNECTED = DISCONNECTED
    None = None
    MaxPackets = 2
    MaxAcks = 1
    MaxLines = 1
SYMMETRY Handles
SPECIFICATION Spec
INVARIANTS
    TypeOK
    OneDialer
    OncePerConnection
PROPERTIES
    QueueOrder
    NoneAfterAnswer
