CONSTANTS
    u1 = u1
    u2 = u2
    User = {u1, u2}
    Version <- Versions
    NoVersion = NoVersion
    NoUser = NoUser
    Name <- VersionName
    Rest <- VersionRest
    Within <- VersionWithin
    MaxReports = 2
    MaxFailures = 1
SYMMETRY Alike
SPECIFICATION Spec
INVARIANTS
    TypeOK
    ChangeInOneHour
    ActiveIsHash
    TelemetryIsLastHour

