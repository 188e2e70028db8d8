CONSTANTS
    s1 = s1
    s2 = s2
    Station = {s1, s2}
    Numbered = {s1}
    TcpAprs = TRUE
    None = None
    Restarted = Restarted
    Datagram <- Sent
    MaxNet = 1
    MaxRepeats = 1
    MaxFailures = 1
    MaxPolled = 1
SPECIFICATION FairSpec
INVARIANTS
    TypeOK
    MissedMeansLost
    StreamIsWhatWasHandled
PROPERTIES
    QueuesDrain
    SocketDrains
